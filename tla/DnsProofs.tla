------------------------------- MODULE DnsProofs -------------------------------
(***************************************************************************)
(* Proofs about Dns, for every set of names and every zone the assumption  *)
(* allows, and for any number of lookups, datagrams and strangers.         *)
(*                                                                         *)
(* The walks over bytes are recursive functions: Induction shows that they *)
(* exist and that they step as written, and so where they end (Goes,       *)
(* Searches, LabelsAt).  The question is a fold over the characters of the *)
(* name: its invariant, Written, relates what has been written to the      *)
(* parts of the name that have been read.  Both meet in AnswerTaken, what  *)
(* the resolver makes of one answer; from there on the proofs are about    *)
(* the steps of a lookup and of the network, with DnsInv as the inductive  *)
(* invariant.                                                              *)
(***************************************************************************)
EXTENDS Dns, Induction, SequenceTheorems

-----------------------------------------------------------------------------
(* Walks over names *)

\* From position z on there are n labels in the bytes b, the k-th at w[k]; behind them
\* is position e.
Labels(b, z, w, n, e) ==
  /\ w \in [1 .. n + 1 -> Nat] /\ w[1] = z /\ w[n + 1] = e
  /\ \A k \in 1 .. n :
       w[k] \in DOMAIN b /\ b[w[k]] \in 1 .. 63 /\ w[k + 1] = w[k] + 1 + b[w[k]]

\* A function that goes from label to label.
Goes(f, b, stop, value) ==
  \A p \in Nat : f[p] = IF p \in stop THEN value[p] ELSE f[p + 1 + b[p]]

\* There is one, if it stops behind the last byte, and all it gives are positions.
LEMMA GoesExists ==
  ASSUME NEW b \in Seq(Nat), NEW stop, Nat \ DOMAIN b \subseteq stop,
         NEW value \in [Nat -> Nat]
  PROVE  /\ \E f \in [Nat -> Nat] : Goes(f, b, stop, value)
         /\ \A f : Goes(f, b, stop, value) => \A p \in Nat : f[p] \in Nat
<1> DEFINE n == Len(b)
           size == [p \in Nat |-> IF p <= n THEN n + 1 - p ELSE 0]
           next == [p \in Nat |-> p + 1 + b[p]]
           join == [x \in Nat \X Nat |-> x[2]]
<1>1. n \in Nat /\ DOMAIN b = 1 .. n /\ b \in [1 .. n -> Nat]
  BY LenProperties
<1> HIDE DEF n
<1>2. /\ size \in [Nat -> 0 .. n + 1]
      /\ \A p \in Nat : size[p] = IF p <= n THEN n + 1 - p ELSE 0
  <2>1. \A p \in Nat : (IF p <= n THEN n + 1 - p ELSE 0) \in 0 .. n + 1
    BY <1>1
  <2> QED BY <2>1
<1>3. join \in [Nat \X Nat -> Nat] /\ \A p, v \in Nat : join[<<p, v>>] = v
  OBVIOUS
<1>4. \A p \in Nat : p \notin stop => p \in 1 .. n /\ b[p] \in Nat
  BY <1>1
<1>5. ASSUME NEW p \in Nat, p \notin stop
      PROVE  next[p] = p + 1 + b[p] /\ next[p] \in Nat /\ size[next[p]] < size[p]
  <2> DEFINE c == b[p]
             q == p + 1 + c
  <2>1. p \in 1 .. n /\ c \in Nat
    BY <1>4, <1>5
  <2> HIDE DEF c
  <2>2. q \in Nat /\ q > p
    BY <2>1
  <2> HIDE DEF q, size
  <2>8. size[q] = (IF q <= n THEN n + 1 - q ELSE 0)
    BY <1>2, <2>2
  <2>9. size[p] = (IF p <= n THEN n + 1 - p ELSE 0) /\ p <= n
    BY <1>1, <1>2, <2>1
  <2>3. size[q] = (IF q <= n THEN n + 1 - q ELSE 0) /\ size[p] = n + 1 - p
    BY <2>8, <2>9
  <2> DEFINE x == size[q]
             y == size[p]
  <2>6. x = (IF q <= n THEN n + 1 - q ELSE 0) /\ y = n + 1 - p
    BY <2>3
  <2> HIDE DEF x, y
  <2>7. x < y
    <3>1. CASE q <= n
      BY <1>1, <2>1, <2>2, <2>6, <3>1
    <3>2. CASE ~(q <= n)
      <4>1. x = 0 /\ y = n + 1 - p /\ n \in Nat /\ p \in 1 .. n
        BY <1>1, <2>1, <2>6, <3>2
      <4> QED BY <4>1
    <3> QED BY <3>1, <3>2
  <2>4. size[q] < size[p]
    BY <2>7 DEF x, y
  <2>5. next[p] = q
    BY DEF c, q
  <2> QED BY <2>2, <2>4, <2>5 DEF c, q
<1> HIDE DEF size, next, join
<1>6. Descends(Nat, stop, next, size)
  BY <1>5 DEF Descends
<1>7. n + 1 \in Nat
  BY <1>1
<1>8. \E f \in [Nat -> Nat] : Goes(f, b, stop, value)
  <2>1. PICK f \in [Nat -> Nat] : IsWalk(f, Nat, stop, value, next, join)
    BY <1>2, <1>3, <1>6, <1>7, WalkExists
  <2>2. ASSUME NEW p \in Nat
        PROVE  f[p] = IF p \in stop THEN value[p] ELSE f[p + 1 + b[p]]
    <3>1. f[p] = IF p \in stop THEN value[p] ELSE join[<<p, f[next[p]]>>]
      BY <2>1 DEF IsWalk
    <3>2. p \notin stop => f[next[p]] \in Nat /\ next[p] = p + 1 + b[p]
      BY <1>5, <2>1
    <3> QED BY <1>3, <3>1, <3>2
  <2> QED BY <2>2 DEF Goes
<1>9. ASSUME NEW f, Goes(f, b, stop, value)
      PROVE  \A p \in Nat : f[p] \in Nat
  <2>1. IsWalkIn(f, Nat, Nat, stop, value, next, join)
    <3> SUFFICES ASSUME NEW p \in Nat
                 PROVE  IF p \in stop THEN f[p] = value[p]
                        ELSE f[next[p]] \in Nat => f[p] = join[<<p, f[next[p]]>>]
      BY DEF IsWalkIn
    <3>1. f[p] = IF p \in stop THEN value[p] ELSE f[p + 1 + b[p]]
      BY <1>9 DEF Goes
    <3>2. CASE p \in stop
      BY <3>1, <3>2
    <3>3. CASE p \notin stop
      <4> SUFFICES ASSUME f[next[p]] \in Nat PROVE f[p] = join[<<p, f[next[p]]>>]
        BY <3>3
      <4>1. join[<<p, f[next[p]]>>] = f[next[p]]
        BY <1>3
      <4> QED BY <1>5, <3>1, <3>3, <4>1
    <3> QED BY <3>2, <3>3
  <2> QED BY <1>2, <1>3, <1>6, <1>7, <2>1, WalkTyped
<1> QED BY <1>8, <1>9

\* It goes from the first label to the end, if it does not stop at one.
Passes(w, n, stop) == \A k \in 1 .. n : w[k] \notin stop

LEMMA GoesAlong ==
  ASSUME NEW b, NEW z, NEW w, NEW n \in Nat, NEW e, Labels(b, z, w, n, e),
         NEW stop, NEW value, NEW f, Goes(f, b, stop, value), Passes(w, n, stop)
  PROVE  f[z] = f[e]
<1> DEFINE P == {i \in 0 .. n : f[w[i + 1]] = f[z]}
<1>1. 0 \in P
  BY DEF Labels
<1>2. ASSUME NEW i \in 0 .. n - 1, i \in P PROVE i + 1 \in P
  <2> DEFINE k == i + 1
  <2>1. k \in 1 .. n /\ k \in 1 .. n + 1 /\ k + 1 \in 1 .. n + 1 /\ k \in 0 .. n
    OBVIOUS
  <2>2. w[k] \in Nat /\ w[k] \notin stop /\ w[k + 1] = w[k] + 1 + b[w[k]]
    BY <2>1 DEF Labels, Passes
  <2>3. f[w[k]] = f[w[k + 1]]
    BY <2>2 DEF Goes
  <2>4. f[w[k]] = f[z]
    BY <1>2
  <2> HIDE DEF k
  <2>5. k \in P
    BY <2>1, <2>3, <2>4
  <2> QED BY <2>5 DEF k
<1> HIDE DEF P
<1>3. n \in P
  <2>1. \A i \in 0 .. n - 1 : i \in P => i + 1 \in P
    BY <1>2
  <2>2. 0 .. n \subseteq P
    BY <1>1, <2>1, InductiveUpTo
  <2> QED BY <2>2
<1> QED BY <1>3 DEF P, Labels

\* Over the name of a question: behind its zero.
LEMMA QuestionNameSkipped ==
  ASSUME NEW b \in Seq(Nat), NEW z, NEW w, NEW n \in Nat, NEW e \in DOMAIN b,
         Labels(b, z, w, n, e), b[e] = 0
  PROVE  SkipQuestionName(b, z) = e + 1
<1> DEFINE Eq(f) == f = [p \in Nat |-> IF p \notin DOMAIN b THEN Never
                                      ELSE IF b[p] = 0 THEN p + 1 ELSE f[p + 1 + b[p]]]
           it == CHOOSE f : Eq(f)
           stop == {p \in Nat : p \notin DOMAIN b \/ b[p] = 0}
           value == [p \in Nat |-> IF p \notin DOMAIN b THEN Never ELSE p + 1]
<1>1. SkipQuestionName(b, z) = it[z]
  BY Zenon DEF SkipQuestionName
<1>2. value \in [Nat -> Nat] /\ Nat \ DOMAIN b \subseteq stop
  BY DEF Never
<1>3. Eq(it)
  <2>1. PICK f \in [Nat -> Nat] : Goes(f, b, stop, value)
    <3> HIDE DEF stop, value
    <3> QED BY <1>2, GoesExists
  <2>2. \A p \in Nat : f[p] = IF p \notin DOMAIN b THEN Never
                              ELSE IF b[p] = 0 THEN p + 1 ELSE f[p + 1 + b[p]]
    BY <2>1 DEF Goes
  <2>3. Eq(f)
    BY <2>2
  <2> HIDE DEF Eq
  <2> QED BY <2>3
<1>4. \A p \in Nat : it[p] = IF p \notin DOMAIN b THEN Never
                           ELSE IF b[p] = 0 THEN p + 1 ELSE it[p + 1 + b[p]]
  <2> HIDE DEF it
  <2> QED BY <1>3
<1> HIDE DEF it
<1>5. Goes(it, b, stop, value)
  BY <1>4 DEF Goes
<1>6. Passes(w, n, stop)
  <2> SUFFICES ASSUME NEW k \in 1 .. n PROVE w[k] \notin stop
    BY DEF Passes
  <2> DEFINE c == b[w[k]]
  <2>1. w[k] \in DOMAIN b /\ c \in 1 .. 63
    BY DEF Labels
  <2> HIDE DEF c
  <2>2. c # 0 /\ ~(c >= 64)
    BY <2>1
  <2> QED BY <2>1, <2>2 DEF c
<1> HIDE DEF stop, value
<1>7. it[z] = it[e]
  BY <1>5, <1>6, GoesAlong
<1>8. e \in Nat
  OBVIOUS
<1> QED BY <1>1, <1>4, <1>7, <1>8

\* Over the name of an answer: behind its zero or its pointer; over any other bytes to a
\* position or Never.
AnswerNameEnds(b, z, e) ==
  SkipAnswerName(b, z) = IF b[e] = 0 THEN e + 1 ELSE e + 2

LEMMA AnswerNameSkipped ==
  ASSUME NEW b \in Seq(Nat)
  PROVE  /\ \A z \in Nat : SkipAnswerName(b, z) \in Nat
         /\ \A z, w : \A n \in Nat, e \in DOMAIN b :
              Labels(b, z, w, n, e) /\ (b[e] = 0 \/ b[e] >= 64) => AnswerNameEnds(b, z, e)
<1> DEFINE Eq(f) == f = [p \in Nat |-> IF p \notin DOMAIN b THEN Never
                                      ELSE IF b[p] >= 64 THEN p + 2
                                      ELSE IF b[p] = 0 THEN p + 1 ELSE f[p + 1 + b[p]]]
           it == CHOOSE f : Eq(f)
           stop == {p \in Nat : p \notin DOMAIN b \/ b[p] >= 64 \/ b[p] = 0}
           value == [p \in Nat |-> IF p \notin DOMAIN b THEN Never
                                  ELSE IF b[p] >= 64 THEN p + 2 ELSE p + 1]
<1>1. \A z : SkipAnswerName(b, z) = it[z]
  BY Zenon DEF SkipAnswerName
<1>2. value \in [Nat -> Nat] /\ Nat \ DOMAIN b \subseteq stop
  BY DEF Never
<1>3. Eq(it)
  <2>1. PICK f \in [Nat -> Nat] : Goes(f, b, stop, value)
    <3> HIDE DEF stop, value
    <3> QED BY <1>2, GoesExists
  <2>2. \A p \in Nat : f[p] = IF p \notin DOMAIN b THEN Never
                              ELSE IF b[p] >= 64 THEN p + 2
                              ELSE IF b[p] = 0 THEN p + 1 ELSE f[p + 1 + b[p]]
    BY <2>1 DEF Goes
  <2>3. Eq(f)
    BY <2>2
  <2> HIDE DEF Eq
  <2> QED BY <2>3
<1>4. \A p \in Nat : it[p] = IF p \notin DOMAIN b THEN Never
                           ELSE IF b[p] >= 64 THEN p + 2
                           ELSE IF b[p] = 0 THEN p + 1 ELSE it[p + 1 + b[p]]
  <2> HIDE DEF it
  <2> QED BY <1>3
<1> HIDE DEF it
<1>5. Goes(it, b, stop, value)
  BY <1>4 DEF Goes
<1>6. \A z \in Nat : it[z] \in Nat
  <2> HIDE DEF stop, value
  <2> QED BY <1>2, <1>5, GoesExists
<1>7. ASSUME NEW z, NEW w, NEW n \in Nat, NEW e \in DOMAIN b,
             Labels(b, z, w, n, e), b[e] = 0 \/ b[e] >= 64
      PROVE  AnswerNameEnds(b, z, e)
  <2>1. Passes(w, n, stop)
    <3> SUFFICES ASSUME NEW k \in 1 .. n PROVE w[k] \notin stop
      BY DEF Passes
    <3> DEFINE c == b[w[k]]
    <3>1. w[k] \in DOMAIN b /\ c \in 1 .. 63
      BY <1>7 DEF Labels
    <3> HIDE DEF c
    <3>2. c # 0 /\ ~(c >= 64)
      BY <3>1
    <3> QED BY <3>1, <3>2 DEF c
  <2> HIDE DEF stop, value
  <2>2. it[z] = it[e]
    BY <1>5, <1>7, <2>1, GoesAlong
  <2>3. e \in Nat /\ b[e] \in Nat
    BY LenProperties
  <2>4. it[e] = IF b[e] = 0 THEN e + 1 ELSE e + 2
    BY <1>4, <1>7, <2>3
  <2> QED BY <1>1, <2>2, <2>4 DEF AnswerNameEnds
<1> QED BY <1>1, <1>6, <1>7

-----------------------------------------------------------------------------
(* Records in an answer *)

\* The sequence s stands in the bytes b behind position z.
At(b, z, s) ==
  /\ z \in Nat /\ z + Len(s) <= Len(b)
  /\ \A x \in 1 .. Len(s) : b[z + x] = s[x]

\* Labels of s are labels of b.
LEMMA LabelsAt ==
  ASSUME NEW b \in Seq(Nat), NEW s \in Seq(Nat), NEW z \in Nat, At(b, z, s),
         NEW w, NEW n \in Nat, NEW e \in DOMAIN s, Labels(s, 1, w, n, e)
  PROVE  Labels(b, z + 1, [k \in 1 .. n + 1 |-> z + w[k]], n, z + e)
<1> DEFINE v == [k \in 1 .. n + 1 |-> z + w[k]]
<1>1. /\ Len(s) \in Nat /\ DOMAIN s = 1 .. Len(s) /\ s \in [1 .. Len(s) -> Nat]
      /\ Len(b) \in Nat /\ DOMAIN b = 1 .. Len(b)
  BY LenProperties
<1>2. w \in [1 .. n + 1 -> Nat] /\ w[1] = 1 /\ w[n + 1] = e
  BY DEF Labels
<1>3. v \in [1 .. n + 1 -> Nat] /\ v[1] = z + 1 /\ v[n + 1] = z + e
  <2>1. 1 \in 1 .. n + 1 /\ n + 1 \in 1 .. n + 1
    OBVIOUS
  <2>2. \A k \in 1 .. n + 1 : z + w[k] \in Nat
    BY <1>2
  <2>3. v \in [1 .. n + 1 -> Nat]
    BY <2>2
  <2>4. v[1] = z + w[1] /\ v[n + 1] = z + w[n + 1]
    BY <2>1
  <2> QED BY <1>2, <2>3, <2>4
<1>4. ASSUME NEW k \in 1 .. n
      PROVE  v[k] \in DOMAIN b /\ b[v[k]] \in 1 .. 63 /\ v[k + 1] = v[k] + 1 + b[v[k]]
  <2> DEFINE x == w[k]
             c == s[x]
  <2>1. k \in 1 .. n + 1 /\ k + 1 \in 1 .. n + 1
    OBVIOUS
  <2>2. x \in 1 .. Len(s) /\ c \in 1 .. 63 /\ w[k + 1] = x + 1 + c
    BY <1>1 DEF Labels
  <2>3. v[k] = z + x /\ v[k + 1] = z + (x + 1 + c)
    BY <2>1, <2>2
  <2>4. b[z + x] = c
    BY <2>2 DEF At
  <2>5. z + Len(s) <= Len(b)
    BY DEF At
  <2> HIDE DEF x, c, v
  <2>6. z + x \in 1 .. Len(b) /\ z + (x + 1 + c) = z + x + 1 + c
    BY <1>1, <2>2, <2>5
  <2> QED BY <1>1, <2>2, <2>3, <2>4, <2>6
<1> HIDE DEF v
<1>5. Labels(b, z + 1, v, n, z + e)
  BY <1>3, <1>4 DEF Labels
<1> QED BY <1>5 DEF v

\* The owner of a record is labels with a zero or a pointer behind them.
IsOwner(o) ==
  /\ o \in Seq(Nat)
  /\ \E w : \E n \in Nat : \E e \in DOMAIN o :
       /\ Labels(o, 1, w, n, e)
       /\ ((o[e] = 0 /\ e = Len(o)) \/ (o[e] >= 64 /\ e + 1 = Len(o)))

LEMMA OwnerSkipped ==
  ASSUME NEW b \in Seq(Nat), NEW o, IsOwner(o), NEW z \in Nat, At(b, z, o)
  PROVE  SkipAnswerName(b, z + 1) = z + 1 + Len(o)
<1>1. o \in Seq(Nat)
  BY DEF IsOwner
<1>0. PICK w : \E n \in Nat : \E e \in DOMAIN o :
        /\ Labels(o, 1, w, n, e)
        /\ ((o[e] = 0 /\ e = Len(o)) \/ (o[e] >= 64 /\ e + 1 = Len(o)))
  BY DEF IsOwner
<1>2. PICK n \in Nat : \E e \in DOMAIN o :
        /\ Labels(o, 1, w, n, e)
        /\ ((o[e] = 0 /\ e = Len(o)) \/ (o[e] >= 64 /\ e + 1 = Len(o)))
  BY <1>0
<1>9. PICK e \in DOMAIN o :
        /\ Labels(o, 1, w, n, e)
        /\ ((o[e] = 0 /\ e = Len(o)) \/ (o[e] >= 64 /\ e + 1 = Len(o)))
  BY <1>2
<1>3. /\ Len(o) \in Nat /\ DOMAIN o = 1 .. Len(o) /\ Len(b) \in Nat /\ DOMAIN b = 1 .. Len(b)
      /\ o[e] \in Nat
  BY <1>1, LenProperties
<1> DEFINE v == [k \in 1 .. n + 1 |-> z + w[k]]
<1>4. Labels(b, z + 1, v, n, z + e)
  BY <1>1, <1>9, LabelsAt
<1>5. z + e \in DOMAIN b /\ b[z + e] = o[e]
  <2>1. e \in 1 .. Len(o) /\ z + Len(o) <= Len(b)
    BY <1>3 DEF At
  <2> QED BY <1>3, <2>1 DEF At
<1> HIDE DEF v
<1>6. AnswerNameEnds(b, z + 1, z + e)
  BY <1>4, <1>5, <1>9, AnswerNameSkipped
<1>7. SkipAnswerName(b, z + 1) = IF o[e] = 0 THEN z + e + 1 ELSE z + e + 2
  BY <1>5, <1>6 DEF AnswerNameEnds
<1> DEFINE l == Len(o)
<1>8. e \in Nat /\ l \in Nat /\ z \in Nat
  BY <1>3
<1> HIDE DEF l
<1>10. CASE o[e] = 0
  <2>1. e = l
    BY <1>3, <1>9, <1>10 DEF l
  <2>2. z + e + 1 = z + 1 + l
    BY <1>8, <2>1
  <2> QED BY <1>7, <1>10, <2>2 DEF l
<1>11. CASE o[e] # 0
  <2>1. e + 1 = l
    BY <1>9, <1>11 DEF l
  <2>2. z + e + 2 = z + 1 + l
    BY <1>8, <2>1
  <2> QED BY <1>7, <1>11, <2>2 DEF l
<1> QED BY <1>10, <1>11

\* What stands between the owner of a record and its data.
Middle(r) == <<0, r.type, 0, 1, 0, 0, 0, 60, 0, Len(r.data)>>

LEMMA RecordType ==
  ASSUME NEW r \in Record
  PROVE  /\ r.type \in Nat /\ r.data \in Seq(Nat) /\ Len(r.data) \in Nat
         /\ r.type = TypeA => r.data \in [1 .. 4 -> Nat] /\ Len(r.data) = 4 /\ r.data # NoAddress
<1> DEFINE d == r.data
           B == 0 .. 255
<1>1. r \in [type : B, data : Seq(B)] /\ (r.type = TypeA => Len(d) = 4 /\ d # NoAddress)
  BY DEF Record
<1>2. r.type \in B /\ d \in Seq(B)
  BY <1>1
<1>3. B \subseteq Nat
  OBVIOUS
<1> HIDE DEF d, B
<1>4. d \in Seq(Nat) /\ Len(d) \in Nat /\ d \in [1 .. Len(d) -> Nat]
  <2>1. d \in [1 .. Len(d) -> B] /\ Len(d) \in Nat
    BY <1>2, LenProperties
  <2>2. d \in [1 .. Len(d) -> Nat]
    BY <1>3, <2>1
  <2>3. d \in Seq(Nat)
    BY <2>1, <2>2
  <2> QED BY <2>1, <2>2, <2>3
<1> QED BY <1>1, <1>2, <1>3, <1>4 DEF d

LEMMA Together ==
  ASSUME NEW s \in Seq(Nat), NEW t \in Seq(Nat)
  PROVE  /\ s \o t \in Seq(Nat) /\ Len(s \o t) = Len(s) + Len(t)
         /\ \A x \in 1 .. Len(s) : (s \o t)[x] = s[x]
         /\ \A x \in 1 .. Len(t) : (s \o t)[Len(s) + x] = t[x]
<1>1. /\ s \o t \in Seq(Nat) /\ Len(s \o t) = Len(s) + Len(t)
      /\ \A x \in 1 .. Len(s) + Len(t) : (s \o t)[x] = IF x <= Len(s) THEN s[x] ELSE t[x - Len(s)]
  BY ConcatProperties
<1>2. Len(s) \in Nat /\ Len(t) \in Nat
  BY LenProperties
<1> DEFINE u == s \o t
           m == Len(s)
           n == Len(t)
<1>3. m \in Nat /\ n \in Nat /\ \A x \in 1 .. m + n : u[x] = IF x <= m THEN s[x] ELSE t[x - m]
  BY <1>1, <1>2
<1> HIDE DEF u, m, n
<1>4. \A x \in 1 .. m : u[x] = s[x]
  <2> SUFFICES ASSUME NEW x \in 1 .. m PROVE u[x] = s[x]
    OBVIOUS
  <2>1. x \in 1 .. m + n /\ x <= m
    BY <1>3
  <2> QED BY <1>3, <2>1
<1>5. \A x \in 1 .. n : u[m + x] = t[x]
  <2> SUFFICES ASSUME NEW x \in 1 .. n PROVE u[m + x] = t[x]
    OBVIOUS
  <2>1. m + x \in 1 .. m + n /\ ~(m + x <= m) /\ m + x - m = x
    BY <1>3
  <2> QED BY <1>3, <2>1
<1> QED BY <1>1, <1>4, <1>5 DEF u, m, n

LEMMA ResourceParts ==
  ASSUME NEW o \in Seq(Nat), NEW r \in Record
  PROVE  /\ Resource(o, r) \in Seq(Nat)
         /\ Len(Resource(o, r)) = Len(o) + 10 + Len(r.data)
         /\ \A x \in 1 .. Len(o) : Resource(o, r)[x] = o[x]
         /\ \A x \in 1 .. 10 : Resource(o, r)[Len(o) + x] = Middle(r)[x]
         /\ \A x \in 1 .. Len(r.data) : Resource(o, r)[Len(o) + 10 + x] = r.data[x]
<1> DEFINE d == r.data
           h == Middle(r)
           s == o \o h
<1>1. d \in Seq(Nat) /\ Len(d) \in Nat /\ r.type \in Nat
  BY RecordType
<1>2. h \in Seq(Nat) /\ Len(h) = 10
  BY <1>1 DEF Middle
<1>3. Resource(o, r) = s \o d
  BY DEF Resource, Middle
<1> HIDE DEF d, h
<1> DEFINE l == Len(o)
           m == Len(d)
<1>4. /\ s \in Seq(Nat) /\ Len(s) = l + 10 /\ l \in Nat /\ m \in Nat
      /\ \A x \in 1 .. l : s[x] = o[x]
      /\ \A x \in 1 .. 10 : s[l + x] = h[x]
  <2>1. /\ s \in Seq(Nat) /\ Len(s) = Len(o) + Len(h)
        /\ \A x \in 1 .. Len(o) : s[x] = o[x]
        /\ \A x \in 1 .. Len(h) : s[Len(o) + x] = h[x]
    BY <1>2, Together
  <2>2. Len(o) \in Nat
    BY LenProperties
  <2> HIDE DEF s
  <2> QED BY <1>1, <1>2, <2>1, <2>2
<1> DEFINE t == s \o d
<1> HIDE DEF s
<1>5. /\ t \in Seq(Nat) /\ Len(t) = Len(s) + m
      /\ \A x \in 1 .. Len(s) : t[x] = s[x]
      /\ \A x \in 1 .. m : t[Len(s) + x] = d[x]
  BY <1>1, <1>4, Together
<1> HIDE DEF t, l, m
<1>6. ASSUME NEW x \in 1 .. l PROVE t[x] = o[x]
  <2>1. x \in 1 .. Len(s)
    BY <1>4
  <2> QED BY <1>4, <1>5, <2>1
<1>7. ASSUME NEW x \in 1 .. 10 PROVE t[l + x] = h[x]
  <2>2. l \in Nat /\ Len(s) = l + 10
    BY <1>4
  <2>1. l + x \in 1 .. Len(s)
    BY <2>2
  <2> QED BY <1>4, <1>5, <2>1
<1>8. ASSUME NEW x \in 1 .. m PROVE t[l + 10 + x] = d[x]
  BY <1>4, <1>5
<1>9. t \in Seq(Nat) /\ Len(t) = l + 10 + m
  BY <1>4, <1>5
<1> QED BY <1>3, <1>6, <1>7, <1>8, <1>9 DEF d, h, l, m, t

\* A record with owner o that stands behind position z is read as it is; p is behind its owner.
Reads(b, z, o, r, p) ==
  /\ SkipAnswerName(b, z + 1) = p /\ p \in Nat \ {0}
  /\ Word(b, p) = r.type /\ Word(b, p + 2) = 1 /\ Word(b, p + 8) = Len(r.data)
  /\ z + Len(Resource(o, r)) + 1 = p + 10 + Len(r.data)
  /\ r.type = TypeA => \A k \in 1 .. 4 : Byte(b, p + 9 + k) = r.data[k]

LEMMA ResourceRead ==
  ASSUME NEW b \in Seq(Nat), NEW o, IsOwner(o), NEW r \in Record, NEW z \in Nat,
         At(b, z, Resource(o, r))
  PROVE  Reads(b, z, o, r, z + 1 + Len(o))
<1> DEFINE s == Resource(o, r)
           l == Len(o)
           p == z + 1 + Len(o)
           m == Len(r.data)
<1>1. /\ o \in Seq(Nat) /\ l \in Nat /\ m \in Nat /\ r.type \in Nat
      /\ Len(b) \in Nat /\ DOMAIN b = 1 .. Len(b)
  BY RecordType, LenProperties DEF IsOwner
<1>2. /\ s \in Seq(Nat) /\ Len(s) = l + 10 + m
      /\ \A x \in 1 .. l : s[x] = o[x]
      /\ \A x \in 1 .. 10 : s[l + x] = Middle(r)[x]
      /\ \A x \in 1 .. m : s[l + 10 + x] = r.data[x]
  BY <1>1, ResourceParts
<1>3. z + Len(s) <= Len(b) /\ \A x \in 1 .. Len(s) : b[z + x] = s[x]
  BY DEF At
<1> DEFINE a == Len(b)
<1>14. p = z + 1 + l
  OBVIOUS
<1> HIDE DEF s, l, m, a, p
<1>12. /\ a \in Nat /\ Len(s) = l + 10 + m /\ z + (l + 10 + m) <= a
       /\ \A x \in 1 .. l + 10 + m : b[z + x] = s[x]
  BY <1>1, <1>2, <1>3 DEF a
<1>4. At(b, z, o)
  <2>1. z + l <= a
    BY <1>1, <1>12
  <2>2. ASSUME NEW x \in 1 .. l PROVE b[z + x] = o[x]
    <3>1. x \in 1 .. l + 10 + m
      BY <1>1
    <3> QED BY <1>2, <1>12, <3>1
  <2> QED BY <2>1, <2>2 DEF At, l, a
<1>5. SkipAnswerName(b, z + 1) = p /\ p = z + 1 + l
  BY <1>4, <1>14, OwnerSkipped DEF l
<1>13. /\ l \in Nat /\ m \in Nat /\ a \in Nat /\ p = z + 1 + l /\ z + (l + 10 + m) <= a
       /\ Len(s) = l + 10 + m
  BY <1>1, <1>5, <1>12
<1>6. ASSUME NEW x \in 1 .. 10 PROVE Byte(b, p + (x - 1)) = Middle(r)[x]
  <2>1. /\ l + x \in 1 .. l + 10 + m /\ p + (x - 1) = z + (l + x) /\ z + (l + x) \in 1 .. a
    BY <1>13
  <2>2. b[z + (l + x)] = Middle(r)[x]
    BY <1>2, <1>12, <2>1
  <2> QED BY <1>1, <2>1, <2>2 DEF Byte, a
<1>7. /\ Byte(b, p + 0) = 0 /\ Byte(b, p + 1) = r.type /\ Byte(b, p + 2) = 0 /\ Byte(b, p + 3) = 1
      /\ Byte(b, p + 8) = 0 /\ Byte(b, p + 9) = m
  <2>1. /\ 1 \in 1 .. 10 /\ 2 \in 1 .. 10 /\ 3 \in 1 .. 10 /\ 4 \in 1 .. 10
        /\ 9 \in 1 .. 10 /\ 10 \in 1 .. 10
        /\ 1 - 1 = 0 /\ 2 - 1 = 1 /\ 3 - 1 = 2 /\ 4 - 1 = 3 /\ 9 - 1 = 8 /\ 10 - 1 = 9
    OBVIOUS
  <2>2. /\ Middle(r)[1] = 0 /\ Middle(r)[2] = r.type /\ Middle(r)[3] = 0 /\ Middle(r)[4] = 1
        /\ Middle(r)[9] = 0 /\ Middle(r)[10] = m
    BY DEF Middle, m
  <2> QED BY <1>6, <2>1, <2>2
<1>8. p \in Nat \ {0} /\ p + 0 = p /\ p + 2 + 1 = p + 3 /\ p + 8 + 1 = p + 9
  BY <1>1, <1>5
<1>9. Word(b, p) = r.type /\ Word(b, p + 2) = 1 /\ Word(b, p + 8) = m
  BY <1>1, <1>7, <1>8 DEF Word
<1>10. ASSUME r.type = TypeA PROVE \A k \in 1 .. 4 : Byte(b, p + 9 + k) = r.data[k]
  <2>1. r.data \in [1 .. 4 -> Nat] /\ m = 4
    BY <1>10, RecordType DEF m
  <2>2. ASSUME NEW k \in 1 .. 4 PROVE Byte(b, p + 9 + k) = r.data[k]
    <3>1. /\ l + 10 + k \in 1 .. l + 10 + m /\ p + 9 + k = z + (l + 10 + k)
          /\ z + (l + 10 + k) \in 1 .. a /\ k \in 1 .. m
      BY <1>13, <2>1
    <3>2. b[z + (l + 10 + k)] = r.data[k]
      BY <1>2, <1>12, <3>1
    <3> QED BY <1>1, <3>1, <3>2 DEF Byte, a
  <2> QED BY <2>1, <2>2
<1>11. z + Len(s) + 1 = p + 10 + m
  BY <1>13
<1>15. Reads(b, z, o, r, p)
  BY <1>5, <1>8, <1>9, <1>10, <1>11 DEF s, m, Reads
<1> QED BY <1>15 DEF p

\* What stands in bytes stands there when more are put behind them, and these stand there too.
LEMMA AtTogether ==
  ASSUME NEW b \in Seq(Nat), NEW t \in Seq(Nat)
  PROVE  /\ At(b \o t, Len(b), t)
         /\ \A s \in Seq(Nat), z \in Nat : At(b, z, s) => At(b \o t, z, s)
<1> DEFINE u == b \o t
           m == Len(b)
           n == Len(t)
<1>1. /\ m \in Nat /\ n \in Nat /\ Len(u) = m + n
      /\ \A x \in 1 .. m : u[x] = b[x]
      /\ \A x \in 1 .. n : u[m + x] = t[x]
  <2>1. m \in Nat /\ n \in Nat
    BY LenProperties
  <2> QED BY <2>1, Together
<1> HIDE DEF u
<1>2. At(u, m, t)
  <2> HIDE DEF m
  <2>1. m + n <= Len(u)
    BY <1>1
  <2> QED BY <1>1, <2>1 DEF At
<1>3. ASSUME NEW s \in Seq(Nat), NEW z \in Nat, At(b, z, s) PROVE At(u, z, s)
  <2> DEFINE k == Len(s)
  <2>1. k \in Nat /\ z + k <= m /\ \A x \in 1 .. k : b[z + x] = s[x]
    BY <1>3, LenProperties DEF At
  <2> HIDE DEF k, m, n
  <2>2. z + k <= Len(u)
    BY <1>1, <2>1
  <2>3. ASSUME NEW x \in 1 .. k PROVE u[z + x] = s[x]
    <3>1. z + x \in 1 .. m
      BY <1>1, <2>1
    <3> QED BY <1>1, <2>1, <3>1
  <2> QED BY <2>2, <2>3 DEF At, k
<1> QED BY <1>2, <1>3 DEF u, m

\* The body of an answer grows record by record.
Grows(r, question, owner, records) ==
  /\ r \in [0 .. Len(records) -> Seq(Nat)]
  /\ r[0] = question
  /\ \A i \in 1 .. Len(records) : r[i] = r[i - 1] \o Resource(owner, records[i])

LEMMA BodyRun ==
  ASSUME NEW question \in Seq(Nat), NEW owner \in Seq(Nat), NEW records \in Seq(Record)
  PROVE  \E r : Grows(r, question, owner, records) /\ r[Len(records)] = Body(question, owner, records)
<1> DEFINE B == Seq(Nat)
           n == Len(records)
           step == [p \in B \X Record |-> p[1] \o Resource(owner, p[2])]
           Eq(f) == f = [u \in SUBSET DOMAIN records |->
                           IF u = {} THEN question
                           ELSE f[u \ {Max(u)}] \o Resource(owner, records[Max(u)])]
           it == CHOOSE f : Eq(f)
<1>1. n \in Nat /\ DOMAIN records = 1 .. n /\ records \in [1 .. n -> Record]
  BY LenProperties
<1>2. Body(question, owner, records) = it[DOMAIN records]
  BY Zenon DEF Body, FoldLeft, MapThenFoldSet
<1>3. step \in [B \X Record -> B] /\ \A a \in B, c \in Record : step[<<a, c>>] = a \o Resource(owner, c)
  <2>1. \A p \in B \X Record : p[1] \o Resource(owner, p[2]) \in B
    <3> SUFFICES ASSUME NEW a \in B, NEW c \in Record PROVE a \o Resource(owner, c) \in B
      OBVIOUS
    <3>1. Resource(owner, c) \in B
      BY ResourceParts
    <3> QED BY <3>1, Together
  <2> HIDE DEF B
  <2> QED BY <2>1
<1>10. question \in B
  OBVIOUS
<1> HIDE DEF n, step, B
<1>4. \A u \in SUBSET (1 .. n) :
        u # {} => records[Max(u)] \in Record /\ u \ {Max(u)} \in SUBSET (1 .. n)
  <2> SUFFICES ASSUME NEW u \in SUBSET (1 .. n), u # {}
               PROVE  records[Max(u)] \in Record /\ u \ {Max(u)} \in SUBSET (1 .. n)
    OBVIOUS
  <2>1. Max(u) \in u
    BY <1>1, Greatest
  <2> QED BY <1>1, <2>1
<1>5. Eq(it)
  <2>1. PICK f \in [SUBSET (1 .. n) -> B] : IsFold(f, question, step, records, n)
    BY <1>1, <1>3, <1>10, FoldExists
  <2>2. \A u \in SUBSET (1 .. n) :
          f[u] = IF u = {} THEN question
                 ELSE f[u \ {Max(u)}] \o Resource(owner, records[Max(u)])
    BY <1>3, <1>4, <2>1 DEF IsFold
  <2>3. Eq(f)
    BY <1>1, <2>2
  <2> HIDE DEF Eq
  <2> QED BY <2>3
<1>6. /\ it[{}] = question
      /\ \A u \in SUBSET (1 .. n) :
           u # {} => it[u] = it[u \ {Max(u)}] \o Resource(owner, records[Max(u)])
  <2> HIDE DEF it
  <2> QED BY <1>1, <1>5
<1> HIDE DEF it
<1>7. IsFoldIn(it, B, question, step, records, n)
  BY <1>3, <1>4, <1>6 DEF IsFoldIn
<1>8. PICK r \in [0 .. n -> B] : IsRun(r, question, it[1 .. n], step, records, n)
  <2>1. \E r \in [0 .. n -> B] : IsRun(r, question, it[1 .. n], step, records, n)
    BY <1>1, <1>3, <1>7, <1>10, FoldRun
  <2> QED BY <2>1
<1>9. ASSUME NEW i \in 1 .. n PROVE r[i] = r[i - 1] \o Resource(owner, records[i])
  <2>1. i - 1 \in 0 .. n /\ records[i] \in Record
    BY <1>1
  <2> QED BY <1>3, <1>8, <2>1 DEF IsRun
<1> QED BY <1>1, <1>2, <1>8, <1>9 DEF n, IsRun, Grows, B

\* Question and records stand in the body one behind the other.
LEMMA BodyHolds ==
  ASSUME NEW question \in Seq(Nat), NEW owner \in Seq(Nat), NEW records \in Seq(Record),
         NEW r, Grows(r, question, owner, records)
  PROVE  /\ At(r[Len(records)], 0, question)
         /\ \A i \in 1 .. Len(records) :
              At(r[Len(records)], Len(r[i - 1]), Resource(owner, records[i]))
<1> DEFINE n == Len(records)
           R(i) == Resource(owner, records[i])
           P == {i \in 0 .. n : At(r[i], 0, question) /\ \A j \in 1 .. i : At(r[i], Len(r[j - 1]), R(j))}
<1>1. n \in Nat /\ \A i \in 1 .. n : R(i) \in Seq(Nat)
  <2>1. n \in Nat /\ \A i \in 1 .. n : records[i] \in Record
    BY LenProperties
  <2> QED BY <2>1, ResourceParts
<1>2. /\ r \in [0 .. n -> Seq(Nat)] /\ r[0] = question
      /\ \A i \in 1 .. n : r[i] = r[i - 1] \o R(i)
  BY DEF Grows
<1> HIDE DEF n, R
<1>3. \A i \in 0 .. n : Len(r[i]) \in Nat
  <2> SUFFICES ASSUME NEW i \in 0 .. n PROVE Len(r[i]) \in Nat
    OBVIOUS
  <2>1. r[i] \in Seq(Nat)
    BY <1>2
  <2> QED BY <2>1, LenProperties
<1>4. 0 \in P
  <2>1. At(question, 0, question)
    <3> DEFINE l == Len(question)
    <3>1. l \in Nat
      BY LenProperties
    <3> HIDE DEF l
    <3>2. 0 + l <= l /\ \A x \in 1 .. l : 0 + x = x
      BY <3>1
    <3> QED BY <3>2 DEF At, l
  <2> QED BY <1>1, <1>2, <2>1
<1>5. ASSUME NEW i \in 0 .. n - 1, i \in P PROVE i + 1 \in P
  <2> DEFINE k == i + 1
  <2>1. /\ k \in 1 .. n /\ k \in 0 .. n /\ k - 1 = i /\ i \in 0 .. n
        /\ \A j \in 1 .. k : j = k \/ j \in 1 .. i
        /\ \A j \in 1 .. k : j \in 1 .. n /\ j - 1 \in 0 .. n
    BY <1>1
  <2> HIDE DEF k
  <2>2. r[k] = r[i] \o R(k) /\ R(k) \in Seq(Nat) /\ r[i] \in Seq(Nat)
    BY <1>1, <1>2, <2>1
  <2>3. At(r[k], Len(r[i]), R(k))
    BY <2>2, AtTogether
  <2>4. At(r[i], 0, question) /\ \A j \in 1 .. i : At(r[i], Len(r[j - 1]), R(j))
    BY <1>5
  <2>5. At(r[k], 0, question)
    BY <2>2, <2>4, AtTogether
  <2>6. ASSUME NEW j \in 1 .. k PROVE At(r[k], Len(r[j - 1]), R(j))
    <3>1. CASE j = k
      BY <2>1, <2>3, <3>1
    <3>2. CASE j \in 1 .. i
      <4>1. R(j) \in Seq(Nat) /\ Len(r[j - 1]) \in Nat
        BY <1>1, <1>3, <2>1
      <4> QED BY <2>2, <2>4, <3>2, <4>1, AtTogether
    <3> QED BY <2>1, <3>1, <3>2
  <2>7. k \in P
    BY <2>1, <2>5, <2>6
  <2> QED BY <2>7 DEF k
<1> HIDE DEF P
<1>6. n \in P
  <2>1. \A i \in 0 .. n - 1 : i \in P => i + 1 \in P
    BY <1>5
  <2>2. 0 .. n \subseteq P
    BY <1>1, <1>4, <2>1, InductiveUpTo
  <2> QED BY <1>1, <2>2
<1> QED BY <1>6 DEF P, n, R

\* What FindAddress gives with i answers left, the first with its name up to position p.
FindsAt(f, b, i, p) ==
  IF i = 0 THEN Gives(-10, NoAddress)
  ELSE IF p = Never THEN Gives(Never, NoAddress)
  ELSE IF Word(b, p) # TypeA \/ Word(b, p + 2) # 1
       THEN f[<<i - 1, p + 10 + Word(b, p + 8)>>]
  ELSE IF Word(b, p + 8) # 4 THEN Gives(-9, NoAddress)
  ELSE Gives(Success, [k \in 1 .. 4 |-> Byte(b, p + 9 + k)])

\* What FindAddress is made of: with i answers left, at is the next position.
Searches(f, b, n) ==
  \A i \in 0 .. n, at \in Nat : f[<<i, at>>] = FindsAt(f, b, i, SkipAnswerName(b, at))

LEMMA FindAddressSearches ==
  ASSUME NEW b \in Seq(Nat), NEW n \in Nat
  PROVE  \E f : Searches(f, b, n) /\ \A start : FindAddress(b, start, n) = f[<<n, start>>]
<1> DEFINE D == (0 .. n) \X Nat
           V == [ret : Int, address : [1 .. 4 -> Nat]]
           Skip(w) == SkipAnswerName(b, w[2])
           Found(p) == [k \in 1 .. 4 |-> Byte(b, p + 9 + k)]
           Stop(w) == w[1] = 0 \/ Skip(w) = Never \/ ~(Word(b, Skip(w)) # TypeA \/ Word(b, Skip(w) + 2) # 1)
           Value(w) == IF w[1] = 0 THEN Gives(-10, NoAddress)
                       ELSE IF Skip(w) = Never THEN Gives(Never, NoAddress)
                       ELSE IF Word(b, Skip(w) + 8) # 4 THEN Gives(-9, NoAddress)
                       ELSE Gives(Success, Found(Skip(w)))
           stop == {w \in D : Stop(w)}
           value == [w \in D |-> Value(w)]
           next == [w \in D |-> <<w[1] - 1, Skip(w) + 10 + Word(b, Skip(w) + 8)>>]
           join == [x \in D \X V |-> x[2]]
           size == [w \in D |-> w[1]]
           Eq(f) == f = [w \in D |->
                           LET p == SkipAnswerName(b, w[2])
                           IN  IF w[1] = 0 THEN Gives(-10, NoAddress)
                               ELSE IF p = Never THEN Gives(Never, NoAddress)
                               ELSE IF Word(b, p) # TypeA \/ Word(b, p + 2) # 1
                                    THEN f[<<w[1] - 1, p + 10 + Word(b, p + 8)>>]
                               ELSE IF Word(b, p + 8) # 4 THEN Gives(-9, NoAddress)
                               ELSE Gives(Success, [k \in 1 .. 4 |-> Byte(b, p + 9 + k)])]
           it == CHOOSE f : Eq(f)
<1>1. \A start : FindAddress(b, start, n) = it[<<n, start>>]
  BY Zenon DEF FindAddress
<1>2. \A p : Byte(b, p) \in Nat
  BY DEF Byte
<1>3. \A p : Word(b, p) \in Nat
  BY <1>2 DEF Word
<1>4. \A w \in D : w[1] \in 0 .. n /\ w[2] \in Nat /\ Skip(w) \in Nat /\ w = <<w[1], w[2]>>
  BY AnswerNameSkipped
<1>5. value \in [D -> V]
  <2>1. NoAddress \in [1 .. 4 -> Nat]
    BY DEF NoAddress
  <2>2. \A p : Found(p) \in [1 .. 4 -> Nat]
    BY <1>2
  <2>3. \A x \in Int, a \in [1 .. 4 -> Nat] : Gives(x, a) \in V
    BY DEF Gives
  <2> HIDE DEF V, Found, D
  <2>4. \A w \in D : Value(w) \in V
    BY <2>1, <2>2, <2>3 DEF Never, Success
  <2> QED BY <2>4
<1>6. join \in [D \X V -> V] /\ \A w \in D, v \in V : join[<<w, v>>] = v
  <2> HIDE DEF D, V
  <2> QED OBVIOUS
<1>7. size \in [D -> 0 .. n]
  <2> HIDE DEF D
  <2> QED BY <1>4
<1>8. ASSUME NEW w \in D, w \notin stop
      PROVE  /\ next[w] \in D /\ size[next[w]] < size[w]
             /\ next[w] = <<w[1] - 1, Skip(w) + 10 + Word(b, Skip(w) + 8)>>
  <2> DEFINE q == Skip(w) + 10 + Word(b, Skip(w) + 8)
             i == w[1]
  <2>1. i # 0 /\ i \in 0 .. n /\ Skip(w) \in Nat /\ Word(b, Skip(w) + 8) \in Nat
    BY <1>3, <1>4, <1>8
  <2>2. q \in Nat
    <3> HIDE DEF Skip
    <3> QED BY <2>1
  <2>3. next[w] = <<i - 1, q>>
    <3> HIDE DEF D, Skip
    <3> QED OBVIOUS
  <2> HIDE DEF q, i, next
  <2>4. i - 1 \in 0 .. n /\ i - 1 < i
    BY <2>1
  <2>5. next[w] \in D
    BY <2>2, <2>3, <2>4
  <2>6. size[next[w]] = i - 1 /\ size[w] = i
    BY <2>3, <2>5 DEF i
  <2> QED BY <2>3, <2>4, <2>5, <2>6 DEF q, i
<1>9. Descends(D, stop, next, size)
  <2> HIDE DEF D, stop, next, size
  <2> QED BY <1>8 DEF Descends
<1>10. PICK g \in [D -> V] : IsWalk(g, D, stop, value, next, join)
  <2> HIDE DEF D, V, stop, value, next, join, size
  <2>1. \E g \in [D -> V] : IsWalk(g, D, stop, value, next, join)
    BY <1>5, <1>6, <1>7, <1>9, WalkExists
  <2> QED BY <2>1
<1>11. Eq(g)
  <2>1. ASSUME NEW w \in D
        PROVE  g[w] = IF w[1] = 0 THEN Gives(-10, NoAddress)
                      ELSE IF Skip(w) = Never THEN Gives(Never, NoAddress)
                      ELSE IF Word(b, Skip(w)) # TypeA \/ Word(b, Skip(w) + 2) # 1
                           THEN g[<<w[1] - 1, Skip(w) + 10 + Word(b, Skip(w) + 8)>>]
                      ELSE IF Word(b, Skip(w) + 8) # 4 THEN Gives(-9, NoAddress)
                      ELSE Gives(Success, Found(Skip(w)))
    <3>1. g[w] = IF w \in stop THEN value[w] ELSE join[<<w, g[next[w]]>>]
      BY <1>10 DEF IsWalk
    <3>2. CASE w \in stop
      <4>1. g[w] = Value(w) /\ Stop(w)
        <5> HIDE DEF Value, Stop
        <5> QED BY <3>1, <3>2
      <4> HIDE DEF Skip, Found
      <4> QED BY <4>1
    <3>3. CASE w \notin stop
      <4>1. next[w] \in D /\ next[w] = <<w[1] - 1, Skip(w) + 10 + Word(b, Skip(w) + 8)>>
        BY <1>8, <3>3
      <4>2. ~Stop(w)
        <5> HIDE DEF Stop
        <5> QED BY <3>3
      <4> HIDE DEF D, V, next, join, Skip, Found
      <4>3. g[w] = g[next[w]]
        BY <1>6, <1>10, <3>1, <3>3, <4>1
      <4> QED BY <4>1, <4>2, <4>3
    <3> QED BY <3>2, <3>3
  <2> HIDE DEF D
  <2>2. g = [w \in D |-> g[w]]
    BY <1>10
  <2> QED BY <2>1, <2>2
<1>12. Eq(it)
  <2> HIDE DEF Eq
  <2> QED BY <1>11
<1>13. Searches(it, b, n)
  <2> HIDE DEF it
  <2> SUFFICES ASSUME NEW i \in 0 .. n, NEW at \in Nat
               PROVE  it[<<i, at>>] = FindsAt(it, b, i, SkipAnswerName(b, at))
    BY DEF Searches
  <2>1. <<i, at>> \in D /\ <<i, at>>[1] = i /\ <<i, at>>[2] = at
    OBVIOUS
  <2> HIDE DEF D
  <2> QED BY <1>12, <2>1 DEF FindsAt
<1> QED BY <1>1, <1>13

\* The first of the records that is an address; none.
FirstAddress(records, i) ==
  /\ i \in DOMAIN records /\ records[i].type = TypeA
  /\ \A j \in 1 .. i - 1 : records[j].type # TypeA

NoAddressIn(records) == \A i \in DOMAIN records : records[i].type # TypeA

\* FindAddress finds it in an answer.
LEMMA FindAddressFinds ==
  ASSUME NEW question \in Seq(Nat), NEW owner, IsOwner(owner), NEW records \in Seq(Record),
         NEW b, b = Body(question, owner, records)
  PROVE  /\ b \in Seq(Nat) /\ At(b, 0, question)
         /\ NoAddressIn(records) =>
              FindAddress(b, Len(question) + 1, Len(records)) = Gives(-10, NoAddress)
         /\ \A i : FirstAddress(records, i) =>
              FindAddress(b, Len(question) + 1, Len(records)) = Gives(Success, records[i].data)
<1> DEFINE n == Len(records)
           R(i) == Resource(owner, records[i])
<1>1. n \in Nat /\ DOMAIN records = 1 .. n /\ \A i \in 1 .. n : records[i] \in Record
  BY LenProperties
<1>2. owner \in Seq(Nat)
  BY DEF IsOwner
<1>3. PICK r : Grows(r, question, owner, records) /\ r[n] = b
  BY <1>2, BodyRun
<1>4. /\ r \in [0 .. n -> Seq(Nat)] /\ r[0] = question
      /\ \A i \in 1 .. n : r[i] = r[i - 1] \o R(i)
  BY <1>3 DEF Grows
<1>5. b \in Seq(Nat) /\ At(b, 0, question) /\ \A i \in 1 .. n : At(b, Len(r[i - 1]), R(i))
  <2>1. n \in 0 .. n
    BY <1>1
  <2>2. At(r[n], 0, question) /\ \A i \in 1 .. n : At(r[n], Len(r[i - 1]), R(i))
    BY <1>2, <1>3, BodyHolds
  <2> QED BY <1>3, <1>4, <2>1, <2>2
<1> DEFINE Z(i) == Len(r[i])
<1> HIDE DEF n
<1>6. ASSUME NEW i \in 1 .. n
      PROVE  Z(i - 1) \in Nat /\ Z(i) = Z(i - 1) + Len(R(i))
  <2>1. i - 1 \in 0 .. n /\ records[i] \in Record
    BY <1>1
  <2>2. r[i - 1] \in Seq(Nat) /\ R(i) \in Seq(Nat)
    BY <1>2, <1>4, <2>1, ResourceParts
  <2>3. r[i] = r[i - 1] \o R(i)
    BY <1>4
  <2> QED BY <2>2, <2>3, Together, LenProperties
<1>7. PICK f : Searches(f, b, n) /\ \A start : FindAddress(b, start, n) = f[<<n, start>>]
  BY <1>1, <1>5, FindAddressSearches
<1> DEFINE W(i) == f[<<n - i, Z(i) + 1>>]
\* One record further, or at an address.
<1>8. ASSUME NEW i \in 1 .. n
      PROVE  W(i - 1) = IF records[i].type # TypeA THEN W(i) ELSE Gives(Success, records[i].data)
  <2> DEFINE z == Z(i - 1)
             p == z + 1 + Len(owner)
             m == Len(records[i].data)
             k == n - (i - 1)
  <2>1. z \in Nat /\ Z(i) = z + Len(R(i)) /\ records[i] \in Record /\ At(b, z, R(i))
    BY <1>1, <1>5, <1>6
  <2> HIDE DEF z, Z
  <2>2. /\ SkipAnswerName(b, z + 1) = p /\ p \in Nat \ {0}
        /\ Word(b, p) = records[i].type /\ Word(b, p + 2) = 1 /\ Word(b, p + 8) = m
        /\ z + Len(R(i)) + 1 = p + 10 + m
        /\ records[i].type = TypeA => [x \in 1 .. 4 |-> Byte(b, p + 9 + x)] = records[i].data
    <3> DEFINE rec == records[i]
    <3>1. rec \in Record /\ At(b, z, Resource(owner, rec)) /\ b \in Seq(Nat) /\ z \in Nat
      BY <1>5, <2>1
    <3>2. m = Len(rec.data) /\ R(i) = Resource(owner, rec)
      OBVIOUS
    <3>3. p = z + 1 + Len(owner)
      OBVIOUS
    <3> HIDE DEF rec, p, m, R
    <3>4. /\ SkipAnswerName(b, z + 1) = p /\ p \in Nat \ {0}
          /\ Word(b, p) = rec.type /\ Word(b, p + 2) = 1 /\ Word(b, p + 8) = m
          /\ z + Len(R(i)) + 1 = p + 10 + m
          /\ rec.type = TypeA => \A x \in 1 .. 4 : Byte(b, p + 9 + x) = rec.data[x]
      <4>1. Reads(b, z, owner, rec, p)
        BY <3>1, <3>3, ResourceRead
      <4> QED BY <3>2, <4>1 DEF Reads
    <3>5. rec.type = TypeA => rec.data \in [1 .. 4 -> Nat]
      BY <3>1, RecordType
    <3>6. rec.type = TypeA => [x \in 1 .. 4 |-> Byte(b, p + 9 + x)] = rec.data
      BY <3>4, <3>5
    <3> QED BY <3>4, <3>6 DEF rec
  <2>3. records[i].type = TypeA => m = 4
    BY <2>1, RecordType
  <2>4. k \in 0 .. n /\ k # 0 /\ z + 1 \in Nat /\ k - 1 = n - i
    BY <1>1, <2>1
  <2>5. W(i) = f[<<k - 1, p + 10 + m>>]
    BY <2>1, <2>2, <2>4
  <2>6. W(i - 1) = f[<<k, z + 1>>]
    BY DEF z
  <2> HIDE DEF p, m, k, R
  <2>7. f[<<k, z + 1>>] = FindsAt(f, b, k, p)
    <3>1. f[<<k, z + 1>>] = FindsAt(f, b, k, SkipAnswerName(b, z + 1))
      BY <1>7, <2>4 DEF Searches
    <3> QED BY <2>2, <3>1
  <2>8. p # Never /\ k # 0 /\ Word(b, p + 2) = 1
    BY <2>2, <2>4 DEF Never
  <2>9. CASE records[i].type # TypeA
    <3>1. FindsAt(f, b, k, p) = f[<<k - 1, p + 10 + m>>]
      BY <2>2, <2>8, <2>9 DEF FindsAt
    <3> QED BY <2>5, <2>6, <2>7, <2>9, <3>1
  <2>10. CASE records[i].type = TypeA
    <3>1. FindsAt(f, b, k, p) = Gives(Success, [x \in 1 .. 4 |-> Byte(b, p + 9 + x)])
      BY <2>2, <2>3, <2>8, <2>10 DEF FindsAt
    <3> QED BY <2>2, <2>6, <2>7, <2>10, <3>1
  <2> QED BY <2>9, <2>10
<1> HIDE DEF Z, R
\* As long as there is none.
<1> DEFINE P == {i \in 0 .. n : (\A j \in 1 .. i : records[j].type # TypeA) => W(0) = W(i)}
<1>9. 0 .. n \subseteq P
  <2>1. 0 \in P
    BY <1>1
  <2>2. ASSUME NEW i \in 0 .. n - 1, i \in P PROVE i + 1 \in P
    <3> DEFINE k == i + 1
    <3>1. k \in 0 .. n /\ k \in 1 .. n /\ k - 1 = i /\ k \in 1 .. k /\ \A j \in 1 .. i : j \in 1 .. k
      BY <1>1
    <3> HIDE DEF k, W
    <3>2. ASSUME \A j \in 1 .. k : records[j].type # TypeA PROVE W(0) = W(k)
      <4>1. W(0) = W(i)
        BY <2>2, <3>1, <3>2
      <4>2. W(i) = W(k)
        BY <1>8, <3>1, <3>2
      <4> QED BY <4>1, <4>2
    <3>3. k \in P
      BY <3>1, <3>2
    <3> QED BY <3>3 DEF k
  <2> HIDE DEF P
  <2> QED BY <1>1, <2>1, <2>2, InductiveUpTo
<1>10. FindAddress(b, Len(question) + 1, n) = W(0)
  <2>1. n - 0 = n
    BY <1>1
  <2> QED BY <1>4, <1>7, <2>1 DEF Z
<1>11. ASSUME NoAddressIn(records) PROVE W(0) = Gives(-10, NoAddress)
  <2>1. W(0) = W(n)
    <3>1. n \in P
      BY <1>1, <1>9
    <3> HIDE DEF W
    <3> QED BY <1>1, <1>11, <3>1 DEF NoAddressIn
  <2>2. Z(n) + 1 \in Nat
    <3>1. n \in 0 .. n
      BY <1>1
    <3>2. r[n] \in Seq(Nat)
      BY <1>4, <3>1
    <3> QED BY <3>2, LenProperties DEF Z
  <2>3. n - n = 0 /\ 0 \in 0 .. n
    BY <1>1
  <2>4. f[<<0, Z(n) + 1>>] = Gives(-10, NoAddress)
    <3> DEFINE at == Z(n) + 1
    <3> HIDE DEF at
    <3>1. at \in Nat
      BY <2>2 DEF at
    <3>2. f[<<0, at>>] = FindsAt(f, b, 0, SkipAnswerName(b, at))
      BY <1>7, <2>3, <3>1 DEF Searches
    <3>3. f[<<0, at>>] = Gives(-10, NoAddress)
      BY <3>2 DEF FindsAt
    <3> QED BY <3>3 DEF at
  <2> QED BY <2>1, <2>3, <2>4
<1>12. ASSUME NEW i, FirstAddress(records, i) PROVE W(0) = Gives(Success, records[i].data)
  <2> DEFINE k == i - 1
  <2>1. i \in 1 .. n /\ records[i].type = TypeA /\ \A j \in 1 .. i - 1 : records[j].type # TypeA
    BY <1>1, <1>12 DEF FirstAddress
  <2>2. k \in 0 .. n
    BY <1>1, <2>1
  <2>3. k \in P
    BY <1>9, <2>2
  <2>4. W(0) = W(k)
    <3> HIDE DEF W
    <3> QED BY <2>1, <2>3
  <2> HIDE DEF W
  <2> QED BY <1>8, <2>1, <2>4
<1> QED BY <1>5, <1>10, <1>11, <1>12 DEF n

-----------------------------------------------------------------------------
(* The question *)

\* A question is labels, a zero, and type and class, four bytes.
Question(q, w, n, e) ==
  q \in Seq(Nat) /\ n \in Nat /\ e \in DOMAIN q /\ Labels(q, 1, w, n, e) /\ q[e] = 0 /\ e + 4 = Len(q)

IsQuestion(q) == \E w, n, e : Question(q, w, n, e)

LabelsAlong(b, w, n) == [k \in 1 .. n |-> SubSeq(b, w[k] + 1, w[k] + b[w[k]])]

\* The server reads the labels that stand in it.
LEMMA LabelsRead ==
  ASSUME NEW b, NEW w, NEW n, NEW e, Question(b, w, n, e)
  PROVE  LabelsOf(b) = LabelsAlong(b, w, n)
<1> DEFINE m == Len(b)
           D == 1 .. m
           V == Seq(Seq(Nat))
           Piece(p) == SubSeq(b, p + 1, p + b[p])
           stop == {p \in D : b[p] = 0 \/ p + b[p] >= m}
           value == [p \in D |-> <<>>]
           next == [p \in D |-> p + 1 + b[p]]
           join == [x \in D \X V |-> IF x[1] \in stop THEN <<>> ELSE <<Piece(x[1])>> \o x[2]]
           size == [p \in D |-> m - p]
           Eq(f) == f = [p \in 1 .. Len(b) |->
                           IF b[p] = 0 \/ p + b[p] >= Len(b) THEN <<>>
                           ELSE <<SubSeq(b, p + 1, p + b[p])>> \o f[p + 1 + b[p]]]
           it == CHOOSE f : Eq(f)
<1>1. LabelsOf(b) = it[1]
  BY Zenon DEF LabelsOf
<1>2. /\ b \in Seq(Nat) /\ n \in Nat /\ e \in DOMAIN b /\ Labels(b, 1, w, n, e) /\ b[e] = 0
      /\ m \in Nat /\ DOMAIN b = D /\ b \in [D -> Nat]
  BY LenProperties DEF Question
<1> HIDE DEF m
<1>3. ASSUME NEW p \in D, p \notin stop
      PROVE  p + 1 + b[p] \in D /\ Piece(p) \in Seq(Nat) /\ m - (p + 1 + b[p]) < m - p
  <2> DEFINE c == b[p]
             q == p + 1 + c
  <2>1. c \in Nat /\ p \in Nat /\ p \in D /\ p + c < m
    BY <1>2, <1>3
  <2> HIDE DEF c
  <2>2. q \in D /\ m - q < m - p
    BY <1>2, <2>1
  <2>3. \A i \in p + 1 .. p + c : b[i] \in Nat
    <3> SUFFICES ASSUME NEW i \in p + 1 .. p + c PROVE b[i] \in Nat
      OBVIOUS
    <3>1. i \in D
      BY <1>2, <2>1
    <3> QED BY <1>2, <3>1
  <2>4. SubSeq(b, p + 1, p + c) \in Seq(Nat)
    <3>1. p + 1 \in Int /\ p + c \in Int
      BY <2>1
    <3> QED BY <2>3, <3>1, SubSeqProperties
  <2> QED BY <2>2, <2>4 DEF c
<1>4. value \in [D -> V]
  OBVIOUS
<1>5. \A p \in D, v \in V : p \notin stop => <<Piece(p)>> \o v \in V
  <2> SUFFICES ASSUME NEW p \in D, NEW v \in V, p \notin stop PROVE <<Piece(p)>> \o v \in V
    OBVIOUS
  <2>1. Piece(p) \in Seq(Nat)
    BY <1>3
  <2> HIDE DEF Piece
  <2>2. <<Piece(p)>> \in V
    BY <2>1
  <2> QED BY <2>2, ConcatProperties
<1>6. join \in [D \X V -> V] /\ \A p \in D, v \in V : p \notin stop => join[<<p, v>>] = <<Piece(p)>> \o v
  <2>1. <<>> \in V
    OBVIOUS
  <2> HIDE DEF stop, D, V, Piece
  <2> QED BY <1>5, <2>1
<1>7. /\ size \in [D -> 0 .. m] /\ \A p \in D : size[p] = m - p
      /\ \A p \in D : p \notin stop => next[p] = p + 1 + b[p]
  <2>1. \A p \in D : m - p \in 0 .. m
    BY <1>2
  <2> HIDE DEF stop
  <2> QED BY <2>1
<1>8. Descends(D, stop, next, size)
  <2> HIDE DEF D, stop, next, size
  <2> QED BY <1>3, <1>7 DEF Descends
<1>9. Eq(it)
  <2>1. PICK f \in [D -> V] : IsWalk(f, D, stop, value, next, join)
    <3> HIDE DEF D, V, stop, value, next, join, size
    <3>1. \E f \in [D -> V] : IsWalk(f, D, stop, value, next, join)
      BY <1>2, <1>4, <1>6, <1>7, <1>8, WalkExists
    <3> QED BY <3>1
  <2>2. ASSUME NEW p \in D
        PROVE  f[p] = IF b[p] = 0 \/ p + b[p] >= m THEN <<>>
                      ELSE <<Piece(p)>> \o f[p + 1 + b[p]]
    <3>1. f[p] = IF p \in stop THEN value[p] ELSE join[<<p, f[next[p]]>>]
      BY <2>1 DEF IsWalk
    <3>2. CASE p \in stop
      BY <3>1, <3>2
    <3>3. CASE p \notin stop
      <4>1. next[p] \in D /\ next[p] = p + 1 + b[p]
        <5> HIDE DEF stop, next, D
        <5> QED BY <1>3, <1>7, <3>3
      <4>2. f[next[p]] \in V
        <5> HIDE DEF stop, next, D, V
        <5> QED BY <2>1, <4>1
      <4>3. f[p] = <<Piece(p)>> \o f[p + 1 + b[p]]
        <5> HIDE DEF stop, next, D, V, join, Piece
        <5> QED BY <1>6, <3>1, <3>3, <4>1, <4>2
      <4>4. ~(b[p] = 0 \/ p + b[p] >= m)
        BY <3>3
      <4> HIDE DEF Piece
      <4> QED BY <4>3, <4>4
    <3> QED BY <3>2, <3>3
  <2>3. Eq(f)
    <3> HIDE DEF D
    <3>1. f = [p \in D |-> f[p]]
      BY <2>1
    <3> QED BY <2>2, <3>1 DEF D, m
  <2> HIDE DEF Eq
  <2> QED BY <2>3
<1>10. \A p \in D : it[p] = IF b[p] = 0 \/ p + b[p] >= m THEN <<>>
                           ELSE <<Piece(p)>> \o it[p + 1 + b[p]]
  <2> HIDE DEF it
  <2> QED BY <1>9 DEF m
<1> HIDE DEF it, stop, value, next, join, size
\* From the end back to the first label.
<1> DEFINE All(i) == [k \in 1 .. i |-> Piece(w[n - i + k])]
           P == {i \in 0 .. n : it[w[n + 1 - i]] = All(i)}
<1>11. ASSUME NEW k \in 1 .. n
       PROVE  /\ w[k] \in D /\ w[k] \notin stop /\ it[w[k]] = <<Piece(w[k])>> \o it[w[k + 1]]
              /\ Piece(w[k]) \in Seq(Nat)
  <2> DEFINE p == w[k]
             c == b[p]
  <2>1. p \in D /\ c \in 1 .. 63 /\ w[k + 1] = p + 1 + c
    BY <1>2 DEF Labels
  <2>2. w[k + 1] \in D
    <3>1. CASE k = n
      BY <1>2, <3>1 DEF Labels
    <3>2. CASE k # n
      <4>1. k + 1 \in 1 .. n
        BY <1>2, <3>2
      <4> QED BY <1>2, <4>1 DEF Labels
    <3> QED BY <3>1, <3>2
  <2>8. m \in Nat /\ p \in 1 .. m /\ c \in 1 .. 63 /\ p + 1 + c \in 1 .. m
    BY <1>2, <2>1, <2>2
  <2> HIDE DEF p, c
  <2>3. p \in Nat /\ c \in Nat /\ c # 0 /\ p + 1 + c <= m
    BY <2>8
  <2>4. ~(c = 0 \/ p + c >= m)
    BY <1>2, <2>3
  <2>5. p \notin stop
    BY <2>4 DEF stop, c
  <2> HIDE DEF D
  <2>6. Piece(p) \in Seq(Nat)
    BY <1>3, <2>1, <2>5
  <2>7. it[p] = <<Piece(p)>> \o it[p + 1 + c]
    <3> HIDE DEF Piece
    <3> QED BY <1>10, <2>1, <2>4 DEF c
  <2> HIDE DEF Piece
  <2> QED BY <2>1, <2>5, <2>6, <2>7 DEF p
<1>12. 0 \in P
  <2>1. n + 1 - 0 = n + 1 /\ w[n + 1] = e /\ n \in Nat
    BY <1>2 DEF Labels
  <2>2. it[e] = <<>>
    <3> HIDE DEF Piece
    <3> QED BY <1>2, <1>10
  <2>3. All(0) = <<>>
    <3> HIDE DEF Piece
    <3> QED OBVIOUS
  <2> HIDE DEF All
  <2> QED BY <2>1, <2>2, <2>3
<1>13. ASSUME NEW i \in 0 .. n - 1, i \in P PROVE i + 1 \in P
  <2> DEFINE k == n - i
             j == i + 1
  <2>1. /\ k \in 1 .. n /\ k + 1 = n + 1 - i /\ n + 1 - j = k /\ n - j + 1 = k
        /\ i \in Nat /\ j \in 0 .. n /\ k \in Nat /\ n - j = k - 1
    BY <1>2
  <2> HIDE DEF k, P, All, Piece, D
  <2>2. it[w[k]] = <<Piece(w[k])>> \o it[w[k + 1]]
    BY <1>11, <2>1
  <2>3. it[w[k + 1]] = All(i)
    BY <1>13, <2>1 DEF P
  <2>4. All(i) \in Seq(Seq(Nat)) /\ Len(All(i)) = i /\ \A x \in 1 .. i : All(i)[x] = Piece(w[k + x])
    <3>1. ASSUME NEW x \in 1 .. i PROVE Piece(w[n - i + x]) \in Seq(Nat) /\ n - i + x = k + x
      <4>1. n - i + x \in 1 .. n /\ n - i + x = k + x
        BY <1>2, <2>1 DEF k
      <4> QED BY <1>11, <4>1
    <3>2. \A x \in 1 .. i : All(i)[x] = Piece(w[k + x])
      BY <3>1 DEF All
    <3>3. All(i) \in [1 .. i -> Seq(Nat)]
      BY <3>1 DEF All
    <3> QED BY <2>1, <3>2, <3>3
  <2>5. Piece(w[k]) \in Seq(Nat)
    BY <1>11, <2>1
  <2> HIDE DEF j
  <2>6. /\ <<Piece(w[k])>> \o All(i) \in Seq(Seq(Nat)) /\ Len(<<Piece(w[k])>> \o All(i)) = i + 1
        /\ \A x \in 1 .. i + 1 :
             (<<Piece(w[k])>> \o All(i))[x] = IF x = 1 THEN Piece(w[k]) ELSE All(i)[x - 1]
    <3> DEFINE s == <<Piece(w[k])>>
    <3>1. s \in Seq(Seq(Nat)) /\ Len(s) = 1 /\ s[1] = Piece(w[k])
      BY <2>5
    <3> HIDE DEF s
    <3>2. /\ s \o All(i) \in Seq(Seq(Nat)) /\ Len(s \o All(i)) = 1 + i
          /\ \A x \in 1 .. 1 + i : (s \o All(i))[x] = IF x <= 1 THEN s[x] ELSE All(i)[x - 1]
      <4> DEFINE a == All(i)
      <4>1. a \in Seq(Seq(Nat)) /\ Len(a) = i
        BY <2>4
      <4> HIDE DEF a
      <4>2. /\ s \o a \in Seq(Seq(Nat)) /\ Len(s \o a) = Len(s) + Len(a)
            /\ \A x \in 1 .. Len(s) + Len(a) : (s \o a)[x] = IF x <= Len(s) THEN s[x] ELSE a[x - Len(s)]
        BY <3>1, <4>1, ConcatProperties
      <4>3. /\ s \o a \in Seq(Seq(Nat)) /\ Len(s \o a) = 1 + i
            /\ \A x \in 1 .. 1 + i : (s \o a)[x] = IF x <= 1 THEN s[x] ELSE a[x - 1]
        BY <3>1, <4>1, <4>2
      <4> QED BY <4>3 DEF a
    <3>3. \A x \in 1 .. i + 1 : x \in 1 .. 1 + i /\ (x <= 1 <=> x = 1)
      BY <2>1
    <3>4. 1 + i = i + 1
      BY <2>1
    <3> QED BY <3>1, <3>2, <3>3, <3>4 DEF s
  <2>7. <<Piece(w[k])>> \o All(i) = All(j)
    <3>1. \A x \in 1 .. j : (<<Piece(w[k])>> \o All(i))[x] = Piece(w[n - j + x])
      <4> SUFFICES ASSUME NEW x \in 1 .. j
                   PROVE  (<<Piece(w[k])>> \o All(i))[x] = Piece(w[n - j + x])
        OBVIOUS
      <4>1. CASE x = 1
        <5>1. x \in 1 .. i + 1 /\ n - j + x = k
          BY <2>1, <4>1 DEF j
        <5> QED BY <2>6, <4>1, <5>1
      <4>2. CASE x # 1
        <5>1. x \in 1 .. i + 1 /\ x - 1 \in 1 .. i /\ k + (x - 1) = n - j + x
          BY <2>1, <4>2 DEF j
        <5> QED BY <2>4, <2>6, <4>2, <5>1
      <4> QED BY <4>1, <4>2
    <3> DEFINE t == <<Piece(w[k])>> \o All(i)
    <3>2. t \in [1 .. j -> Seq(Nat)]
      <4>1. t \in Seq(Seq(Nat)) /\ Len(t) = j
        BY <2>6 DEF j
      <4> HIDE DEF t
      <4> QED BY <4>1
    <3> HIDE DEF t
    <3> QED BY <3>1, <3>2 DEF t, All
  <2> QED BY <2>1, <2>2, <2>3, <2>7 DEF P, j
<1> HIDE DEF P, All
<1>14. n \in P
  <2>1. \A i \in 0 .. n - 1 : i \in P => i + 1 \in P
    BY <1>13
  <2>2. 0 .. n \subseteq P
    BY <1>2, <1>12, <2>1, InductiveUpTo
  <2> QED BY <1>2, <2>2
<1>15. it[w[n + 1 - n]] = All(n)
  BY <1>14 DEF P
<1>16. n + 1 - n = 1 /\ w[1] = 1 /\ \A k \in 1 .. n : n - n + k = k
  BY <1>2 DEF Labels
<1> QED BY <1>1, <1>15, <1>16 DEF All, LabelsAlong

\* The parts of the name s that end at i or before.
UpTo(s, i) == {d \in PartsOf(s) : d[2] <= i}

\* A part stands behind its length at position p.
Copied(out, p, s, d) ==
  /\ out[p] = d[2] - d[1] - 1
  /\ \A x \in 1 .. d[2] - d[1] - 1 : out[p + x] = s[d[1] + x]

\* Those parts, in order, are the labels of out.
Written(s, i, out, w, part, n) ==
  /\ out \in Seq(Nat) /\ n \in Nat /\ Labels(out, 1, w, n, Len(out) + 1)
  /\ part \in [1 .. n -> UpTo(s, i)]
  /\ \A d \in UpTo(s, i) : \E k \in 1 .. n : part[k] = d
  /\ \A k, l \in 1 .. n : k < l => part[k][1] < part[l][1]
  /\ \A k \in 1 .. n : Copied(out, w[k], s, part[k])

\* The characters since the last dot, or the beginning, at d.
Open(s, i, label, d) ==
  /\ d \in Dots(s) /\ d <= i /\ \A j \in d + 1 .. i : j \notin Dots(s)
  /\ label \in Seq(Nat) /\ Len(label) = i - d /\ \A x \in 1 .. i - d : label[x] = s[d + x]

\* What QuestionName has made of the first i characters.
Half(s, i, out, label) ==
  (\E w, part, n : Written(s, i, out, w, part, n)) /\ (\E d : Open(s, i, label, d))

LEMMA DotsTyped ==
  ASSUME NEW s \in Seq(1 .. 255)
  PROVE  /\ Len(s) \in Nat /\ DOMAIN s = 1 .. Len(s) /\ \A j \in 1 .. Len(s) : s[j] \in 1 .. 255
         /\ Dots(s) \subseteq 0 .. Len(s) + 1 /\ 0 \in Dots(s) /\ Len(s) + 1 \in Dots(s)
         /\ \A j \in 1 .. Len(s) : j \in Dots(s) <=> s[j] = Dot
         /\ \A d \in PartsOf(s) :
              /\ d = <<d[1], d[2]>> /\ d[1] \in Dots(s) /\ d[2] \in Dots(s) /\ d[1] + 1 < d[2]
              /\ \A j \in Dots(s) : ~(d[1] < j /\ j < d[2])
<1> DEFINE m == Len(s)
<1>1. m \in Nat /\ DOMAIN s = 1 .. m /\ s \in [1 .. m -> 1 .. 255]
  <2> DEFINE T == 1 .. 255
  <2>1. s \in Seq(T)
    OBVIOUS
  <2> HIDE DEF T
  <2>2. m \in Nat /\ DOMAIN s = 1 .. m /\ s \in [1 .. m -> T]
    BY <2>1, LenProperties
  <2> QED BY <2>2 DEF T
<1> HIDE DEF m
<1>2. Dots(s) = {j \in 1 .. m : s[j] = Dot} \cup {0, m + 1}
  BY <1>1 DEF Dots, m
<1>3. /\ Dots(s) \subseteq 0 .. m + 1 /\ 0 \in Dots(s) /\ m + 1 \in Dots(s)
  BY <1>1, <1>2
<1>4. ASSUME NEW j \in 1 .. m PROVE j \in Dots(s) <=> s[j] = Dot
  <2>1. j # 0 /\ j # m + 1
    BY <1>1
  <2> QED BY <1>2, <2>1
<1>5. ASSUME NEW d \in PartsOf(s)
      PROVE  /\ d = <<d[1], d[2]>> /\ d[1] \in Dots(s) /\ d[2] \in Dots(s) /\ d[1] + 1 < d[2]
             /\ \A j \in Dots(s) : ~(d[1] < j /\ j < d[2])
  BY DEF PartsOf
<1> QED BY <1>1, <1>3, <1>4, <1>5 DEF m

LEMMA NameBegun ==
  ASSUME NEW s \in Seq(1 .. 255)
  PROVE  Half(s, 0, <<>>, <<>>)
<1>1. UpTo(s, 0) = {}
  <2> SUFFICES ASSUME NEW d \in PartsOf(s) PROVE ~(d[2] <= 0)
    BY DEF UpTo
  <2> DEFINE x == d[1]
             y == d[2]
  <2>1. x \in Nat /\ y \in Nat /\ x + 1 < y
    BY DotsTyped
  <2> HIDE DEF x, y
  <2>2. ~(y <= 0)
    BY <2>1
  <2> QED BY <2>2 DEF y
<1>2. Labels(<<>>, 1, [k \in 1 .. 1 |-> 1], 0, Len(<<>>) + 1)
  <2>1. Len(<<>>) + 1 = 1 /\ 0 + 1 = 1
    OBVIOUS
  <2>2. Labels(<<>>, 1, [k \in 1 .. 1 |-> 1], 0, 1)
    BY DEF Labels
  <2> QED BY <2>1, <2>2
<1>3. Written(s, 0, <<>>, [k \in 1 .. 1 |-> 1], [k \in 1 .. 0 |-> <<>>], 0)
  <2> DEFINE part == [k \in 1 .. 0 |-> <<>>]
  <2>1. part \in [1 .. 0 -> UpTo(s, 0)]
    OBVIOUS
  <2>2. <<>> \in Seq(Nat) /\ 0 \in Nat /\ \A k \in 1 .. 0 : FALSE
    OBVIOUS
  <2> HIDE DEF part
  <2>3. Written(s, 0, <<>>, [k \in 1 .. 1 |-> 1], part, 0)
    BY <1>1, <1>2, <2>1, <2>2 DEF Written
  <2> QED BY <2>3 DEF part
<1>4. Open(s, 0, <<>>, 0)
  <2>1. 0 \in Dots(s)
    BY DotsTyped
  <2> QED BY <2>1 DEF Open
<1> QED BY <1>3, <1>4 DEF Half

\* A character that is no dot.
LEMMA NameGoesOn ==
  ASSUME NEW s \in Seq(1 .. 255), NEW i \in 0 .. Len(s) - 1, NEW out, NEW label,
         Half(s, i, out, label), s[i + 1] # Dot
  PROVE  Half(s, i + 1, out, Append(label, s[i + 1]))
<1> DEFINE m == Len(s)
           k == i + 1
           c == s[k]
<1>1. m \in Nat /\ k \in 1 .. m /\ i \in Nat /\ c \in Nat
  <2>1. m \in Nat /\ \A j \in 1 .. m : s[j] \in 1 .. 255
    BY DotsTyped
  <2>2. k \in 1 .. m /\ i \in Nat
    BY <2>1
  <2>3. c \in 1 .. 255
    <3> HIDE DEF k, m
    <3> QED BY <2>1, <2>2
  <2> HIDE DEF c, k, m
  <2> QED BY <2>1, <2>2, <2>3
<1>2. k \notin Dots(s)
  BY <1>1, DotsTyped
<1>3. UpTo(s, k) = UpTo(s, i)
  <2> SUFFICES ASSUME NEW d \in PartsOf(s) PROVE d[2] <= k <=> d[2] <= i
    BY DEF UpTo
  <2> DEFINE y == d[2]
  <2>1. y \in 0 .. m + 1 /\ y \in Dots(s)
    BY DotsTyped
  <2> HIDE DEF y
  <2>2. y # k
    BY <1>2, <2>1
  <2>3. y <= k <=> y <= i
    BY <1>1, <2>1, <2>2
  <2> QED BY <2>3 DEF y
<1>4. PICK w, part, n : Written(s, i, out, w, part, n)
  BY DEF Half
<1>5. Written(s, k, out, w, part, n)
  BY <1>3, <1>4 DEF Written
<1>6. PICK d : Open(s, i, label, d)
  BY DEF Half
<1> HIDE DEF c
<1> DEFINE new == Append(label, c)
<1>7. Open(s, k, new, d)
  <2>1. d \in Dots(s) /\ d \in Nat /\ d <= i
    BY <1>6, DotsTyped DEF Open
  <2>2. label \in Seq(Nat) /\ Len(label) = i - d /\ \A x \in 1 .. i - d : label[x] = s[d + x]
    BY <1>6 DEF Open
  <2>3. /\ new \in Seq(Nat) /\ Len(new) = i - d + 1
        /\ \A x \in 1 .. i - d : new[x] = label[x]
        /\ new[i - d + 1] = c
    <3> HIDE DEF new
    <3>1. /\ Append(label, c) \in Seq(Nat) /\ Len(Append(label, c)) = Len(label) + 1
          /\ \A x \in 1 .. Len(label) : Append(label, c)[x] = label[x]
          /\ Append(label, c)[Len(label) + 1] = c
      BY <1>1, <2>2, AppendProperties
    <3> QED BY <2>2, <3>1 DEF new
  <2> HIDE DEF new
  <2>4. ASSUME NEW x \in 1 .. k - d PROVE new[x] = s[d + x]
    <3>1. CASE x = i - d + 1
      <4>1. d + x = k
        BY <1>1, <2>1, <3>1
      <4> QED BY <2>3, <3>1, <4>1 DEF c
    <3>2. CASE x # i - d + 1
      <4>1. x \in 1 .. i - d
        BY <1>1, <2>1, <3>2
      <4> QED BY <2>2, <2>3, <4>1
    <3> QED BY <3>1, <3>2
  <2>5. d <= k /\ i - d + 1 = k - d
    BY <1>1, <2>1
  <2>6. ASSUME NEW j \in d + 1 .. k PROVE j \notin Dots(s)
    <3>1. CASE j = k
      BY <1>2, <3>1
    <3>2. CASE j # k
      <4>1. j \in d + 1 .. i
        BY <1>1, <2>1, <3>2
      <4> QED BY <1>6, <4>1 DEF Open
    <3> QED BY <3>1, <3>2
  <2> HIDE DEF k
  <2> QED BY <2>1, <2>3, <2>4, <2>5, <2>6 DEF Open
<1> QED BY <1>5, <1>7 DEF Half, c

\* No label is too long for the 63 of its length.
LEMMA LabelShort ==
  ASSUME NEW s \in Seq(1 .. 255), ShortLabels(s), NEW i \in 0 .. Len(s), NEW label, NEW d,
         Open(s, i, label, d)
  PROVE  Len(label) <= 63
<1> DEFINE m == Len(s)
<1>1. /\ m \in Nat /\ d \in Nat /\ d <= i /\ Len(label) = i - d /\ i \in 0 .. m
      /\ \A j \in d + 1 .. i : j \notin Dots(s)
      /\ \A j \in 1 .. m : j \in Dots(s) <=> s[j] = Dot
  BY DotsTyped DEF Open
<1>2. \A j \in 1 .. m - 63 : \E k \in j .. j + 63 : s[k] = Dot
  BY DEF ShortLabels
<1> HIDE DEF m
<1> SUFFICES ASSUME i - d >= 64 PROVE FALSE
  BY <1>1
<1>3. d + 1 \in 1 .. m - 63
  BY <1>1
<1>4. PICK k \in d + 1 .. d + 1 + 63 : s[k] = Dot
  BY <1>2, <1>3
<1>5. k \in d + 1 .. i /\ k \in 1 .. m
  BY <1>1
<1> QED BY <1>1, <1>4, <1>5

\* A dot, or the end of the name.
LEMMA LabelEnds ==
  ASSUME NEW s \in Seq(1 .. 255), ShortLabels(s), NEW i \in 0 .. Len(s), i + 1 \in Dots(s),
         NEW out, NEW label, Half(s, i, out, label)
  PROVE  Half(s, i + 1, out \o Label(label), <<>>)
<1> DEFINE m == Len(s)
           z == i + 1
<1>1. m \in Nat /\ i \in 0 .. m /\ i \in Nat /\ z \in Nat
  BY DotsTyped
<1>2. PICK w, part, n : Written(s, i, out, w, part, n)
  BY DEF Half
<1>3. PICK d : Open(s, i, label, d)
  BY DEF Half
<1>4. /\ d \in Dots(s) /\ d \in Nat /\ d <= i /\ \A j \in d + 1 .. i : j \notin Dots(s)
      /\ label \in Seq(Nat) /\ Len(label) = i - d /\ \A x \in 1 .. i - d : label[x] = s[d + x]
  BY <1>3, DotsTyped DEF Open
<1> DEFINE h == Len(label)
<1>5. h \in Nat /\ h <= 63 /\ h = i - d
  BY <1>3, <1>4, LabelShort, LenProperties
<1>6. Open(s, z, <<>>, z)
  <2>1. z \in Dots(s) /\ z <= z /\ z - z = 0
    BY <1>1
  <2> HIDE DEF z
  <2>2. \A j \in z + 1 .. z : FALSE
    BY <1>1
  <2> QED BY <2>1, <2>2 DEF Open
\* The parts up to here: the one from d to here is new, if it is not empty.
<1>7. ASSUME NEW e \in PartsOf(s)
      PROVE  /\ e[2] <= i => e[2] <= d /\ e[1] < d
             /\ e[2] = z => e = <<d, z>>
             /\ e[2] <= z => e[2] <= i \/ e[2] = z
             /\ e[2] <= i => e[2] <= z
  <2> DEFINE x == e[1]
             y == e[2]
  <2>1. /\ e = <<x, y>> /\ x \in Dots(s) /\ y \in Dots(s) /\ x + 1 < y
        /\ \A j \in Dots(s) : ~(x < j /\ j < y)
    BY DotsTyped
  <2>2. x \in Nat /\ y \in Nat
    BY <2>1, DotsTyped
  <2> HIDE DEF x, y
  <2>3. ASSUME NEW j \in Dots(s), j \in Nat, j <= i PROVE j <= d
    <3>1. ~(j \in d + 1 .. i)
      BY <1>4
    <3> QED BY <1>1, <1>4, <2>3, <3>1
  <2>4. y <= i => y <= d /\ x < d
    BY <1>4, <2>1, <2>2, <2>3
  <2>5. ASSUME y = z PROVE x = d
    <3>1. x <= i
      BY <1>1, <2>1, <2>2, <2>5
    <3>2. x <= d
      BY <2>1, <2>2, <2>3, <3>1
    <3>3. ~(x < d /\ d < y)
      BY <1>4, <2>1
    <3>4. d < y
      BY <1>1, <1>4, <2>5
    <3> QED BY <1>4, <2>2, <3>2, <3>3, <3>4
  <2>6. /\ y <= z => y <= i \/ y = z
        /\ y <= i => y <= z
    BY <1>1, <2>2
  <2>7. y = z => e = <<d, z>>
    BY <2>1, <2>5
  <2> HIDE DEF z
  <2> QED BY <2>4, <2>6, <2>7 DEF x, y
<1>8. CASE label = <<>>
  <2>1. out \o Label(label) = out
    <3>1. out \in Seq(Nat)
      BY <1>2 DEF Written
    <3> QED BY <1>8, <3>1, ConcatEmptySeq DEF Label
  <2>2. UpTo(s, z) = UpTo(s, i)
    <3>1. d = i
      <4>1. h = 0
        BY <1>8
      <4> HIDE DEF h
      <4> QED BY <1>1, <1>4, <1>5, <4>1
    <3>2. ASSUME NEW e \in PartsOf(s), e[2] = z PROVE FALSE
      <4>1. e[1] = d /\ e[2] = z /\ e[1] + 1 < e[2]
        BY <1>7, <3>2, DotsTyped
      <4> QED BY <1>1, <3>1, <4>1
    <3> HIDE DEF z
    <3>3. \A e \in PartsOf(s) : e[2] <= z <=> e[2] <= i
      BY <1>7, <3>2
    <3> QED BY <3>3 DEF UpTo
  <2>3. Written(s, z, out, w, part, n)
    BY <1>2, <2>2 DEF Written
  <2> QED BY <1>6, <2>1, <2>3 DEF Half
<1>9. CASE label # <<>>
  <2> DEFINE t == <<h>> \o label
             o == Len(out)
             new == out \o t
             u == [k \in 1 .. n + 2 |-> IF k = n + 2 THEN Len(new) + 1 ELSE w[k]]
             q == [k \in 1 .. n + 1 |-> IF k = n + 1 THEN <<d, z>> ELSE part[k]]
  <2>1. h \in 1 .. 63 /\ Label(label) = t
    <3>1. h # 0
      BY <1>4, <1>9, EmptySeq
    <3>2. Label(label) = t
      BY <1>9 DEF Label
    <3> HIDE DEF t, h
    <3>4. h \in Nat /\ h <= 63
      BY <1>5
    <3>3. h \in 1 .. 63
      BY <3>1, <3>4
    <3> QED BY <3>2, <3>3
  <2>2. /\ out \in Seq(Nat) /\ o \in Nat /\ DOMAIN out = 1 .. o /\ n \in Nat
        /\ w \in [1 .. n + 1 -> Nat] /\ w[1] = 1 /\ w[n + 1] = o + 1
        /\ \A k \in 1 .. n : w[k] \in 1 .. o /\ out[w[k]] \in 1 .. 63 /\ w[k + 1] = w[k] + 1 + out[w[k]]
        /\ part \in [1 .. n -> UpTo(s, i)]
        /\ \A e \in UpTo(s, i) : \E k \in 1 .. n : part[k] = e
        /\ \A k, l \in 1 .. n : k < l => part[k][1] < part[l][1]
        /\ \A k \in 1 .. n : Copied(out, w[k], s, part[k])
    <3>1. out \in Seq(Nat) /\ Labels(out, 1, w, n, o + 1)
      BY <1>2 DEF Written
    <3>2. o \in Nat /\ DOMAIN out = 1 .. o
      BY <3>1, LenProperties
    <3> HIDE DEF o
    <3>3. /\ w \in [1 .. n + 1 -> Nat] /\ w[1] = 1 /\ w[n + 1] = o + 1
          /\ \A k \in 1 .. n : w[k] \in 1 .. o /\ out[w[k]] \in 1 .. 63 /\ w[k + 1] = w[k] + 1 + out[w[k]]
      BY <3>1, <3>2 DEF Labels
    <3> QED BY <1>2, <3>1, <3>2, <3>3 DEF Written
  <2> HIDE DEF h, o
  <2>3. /\ t \in Seq(Nat) /\ Len(t) = h + 1 /\ t[1] = h /\ \A x \in 1 .. h : t[1 + x] = label[x]
    <3>1. <<h>> \in Seq(Nat) /\ Len(<<h>>) = 1 /\ <<h>>[1] = h
      BY <2>1
    <3>2. /\ t \in Seq(Nat) /\ Len(t) = Len(<<h>>) + Len(label)
          /\ \A x \in 1 .. Len(<<h>>) : t[x] = <<h>>[x]
          /\ \A x \in 1 .. Len(label) : t[Len(<<h>>) + x] = label[x]
      BY <1>4, <3>1, Together
    <3> HIDE DEF t
    <3>3. Len(t) = 1 + h /\ \A x \in 1 .. 1 : t[x] = <<h>>[x]
      BY <3>1, <3>2 DEF h
    <3>4. \A x \in 1 .. h : t[1 + x] = label[x]
      BY <3>1, <3>2 DEF h
    <3> QED BY <2>1, <3>2, <3>3, <3>4
  <2> HIDE DEF t
  <2>4. /\ new \in Seq(Nat) /\ Len(new) = o + h + 1
        /\ \A x \in 1 .. o : new[x] = out[x]
        /\ new[o + 1] = h
        /\ \A x \in 1 .. h : new[o + 1 + x] = label[x]
    <3>1. /\ new \in Seq(Nat) /\ Len(new) = o + Len(t)
          /\ \A x \in 1 .. o : new[x] = out[x]
          /\ \A x \in 1 .. Len(t) : new[o + x] = t[x]
      BY <2>2, <2>3, Together DEF o
    <3> HIDE DEF new
    <3>2. Len(new) = o + h + 1
      BY <2>1, <2>2, <2>3, <3>1
    <3>3. new[o + 1] = h
      <4>1. 1 \in 1 .. Len(t)
        BY <2>1, <2>3
      <4> QED BY <2>3, <3>1, <4>1
    <3>4. ASSUME NEW x \in 1 .. h PROVE new[o + 1 + x] = label[x]
      <4>1. 1 + x \in 1 .. Len(t) /\ o + 1 + x = o + (1 + x)
        BY <2>1, <2>2, <2>3
      <4> QED BY <2>3, <3>1, <4>1
    <3> QED BY <3>1, <3>2, <3>3, <3>4
  <2> DEFINE l == Len(new)
  <2>5. l \in Nat /\ l = o + h + 1 /\ DOMAIN new = 1 .. l
    BY <2>4, LenProperties
  <2> HIDE DEF new, l
  <2>6. /\ u \in [1 .. n + 2 -> Nat] /\ u[n + 2] = l + 1
        /\ \A k \in 1 .. n + 1 : u[k] = w[k]
    <3>1. u = [k \in 1 .. n + 2 |-> IF k = n + 2 THEN l + 1 ELSE w[k]]
      BY DEF l
    <3> HIDE DEF u
    <3>2. \A k \in 1 .. n + 1 : k \in 1 .. n + 2 /\ k # n + 2
      BY <2>2
    <3>3. \A k \in 1 .. n + 2 : k # n + 2 => k \in 1 .. n + 1
      BY <2>2
    <3>4. n + 2 \in 1 .. n + 2 /\ l + 1 \in Nat
      BY <2>2, <2>5
    <3>5. \A k \in 1 .. n + 2 : (IF k = n + 2 THEN l + 1 ELSE w[k]) \in Nat
      BY <2>2, <3>3, <3>4
    <3> QED BY <3>1, <3>2, <3>4, <3>5
  <2> HIDE DEF u
  <2>7. Labels(new, 1, u, n + 1, l + 1)
    <3>1. u \in [1 .. (n + 1) + 1 -> Nat] /\ u[(n + 1) + 1] = l + 1 /\ u[1] = 1
      <4>1. (n + 1) + 1 = n + 2 /\ 1 \in 1 .. n + 1
        BY <2>2
      <4> QED BY <2>2, <2>6, <4>1
    <3>2. ASSUME NEW k \in 1 .. n + 1
          PROVE  u[k] \in DOMAIN new /\ new[u[k]] \in 1 .. 63 /\ u[k + 1] = u[k] + 1 + new[u[k]]
      <4>1. CASE k = n + 1
        <5>1. k + 1 = n + 2 /\ u[k] = o + 1
          BY <2>2, <2>6, <4>1
        <5>2. o + 1 \in 1 .. l /\ l + 1 = o + 1 + 1 + h
          BY <2>1, <2>2, <2>5
        <5> QED BY <2>1, <2>4, <2>5, <2>6, <5>1, <5>2
      <4>2. CASE k # n + 1
        <5>1. k \in 1 .. n /\ k + 1 \in 1 .. n + 1
          BY <2>2, <4>2
        <5>2. w[k] \in 1 .. o /\ out[w[k]] \in 1 .. 63 /\ w[k + 1] = w[k] + 1 + out[w[k]]
          BY <2>2, <5>1
        <5>3. w[k] \in 1 .. l /\ new[w[k]] = out[w[k]]
          <6> DEFINE x == w[k]
          <6>1. x \in 1 .. o
            BY <5>2
          <6> HIDE DEF x
          <6>2. x \in 1 .. l /\ new[x] = out[x]
            BY <2>1, <2>2, <2>4, <2>5, <6>1
          <6> QED BY <6>2 DEF x
        <5>4. u[k] = w[k] /\ u[k + 1] = w[k + 1]
          BY <2>6, <5>1
        <5> QED BY <2>5, <5>2, <5>3, <5>4
      <4> QED BY <4>1, <4>2
    <3> QED BY <3>1, <3>2 DEF Labels
  <2>8. UpTo(s, z) = UpTo(s, i) \cup {<<d, z>>}
    <3>1. <<d, z>> \in PartsOf(s) /\ <<d, z>>[2] <= z
      <4>1. d + 1 < z
        BY <1>1, <1>4, <1>5, <2>1
      <4>2. ASSUME NEW j \in Dots(s) PROVE ~(d < j /\ j < z)
        <5>1. j \in Nat /\ ~(j \in d + 1 .. i)
          BY <1>4, DotsTyped
        <5> QED BY <1>1, <1>4, <5>1
      <4>3. z \in Dots(s) /\ z <= z
        BY <1>1
      <4> HIDE DEF z
      <4> QED BY <1>4, <4>1, <4>2, <4>3 DEF PartsOf
    <3> HIDE DEF z
    <3>2. \A e \in PartsOf(s) : e[2] <= z => e[2] <= i \/ e = <<d, z>>
      BY <1>7
    <3>3. \A e \in PartsOf(s) : e[2] <= i => e[2] <= z
      BY <1>7
    <3> QED BY <3>1, <3>2, <3>3 DEF UpTo
  <2> HIDE DEF z
  <2>9. /\ q \in [1 .. n + 1 -> UpTo(s, z)]
        /\ q[n + 1] = <<d, z>> /\ \A k \in 1 .. n : q[k] = part[k]
        /\ \A k \in 1 .. n + 1 : k = n + 1 \/ k \in 1 .. n
        /\ n + 1 \in 1 .. n + 1 /\ \A k \in 1 .. n : k \in 1 .. n + 1 /\ k < n + 1
    <3>1. /\ \A k \in 1 .. n + 1 : k = n + 1 \/ k \in 1 .. n
          /\ n + 1 \in 1 .. n + 1 /\ \A k \in 1 .. n : k \in 1 .. n + 1 /\ k < n + 1 /\ k # n + 1
      BY <2>2
    <3>2. q \in [1 .. n + 1 -> UpTo(s, z)]
      BY <2>2, <2>8, <3>1
    <3> QED BY <3>1, <3>2
  <2> HIDE DEF q
  <2>10. \A e \in UpTo(s, z) : \E k \in 1 .. n + 1 : q[k] = e
    <3> SUFFICES ASSUME NEW e \in UpTo(s, z) PROVE \E k \in 1 .. n + 1 : q[k] = e
      OBVIOUS
    <3>1. CASE e = <<d, z>>
      BY <2>9, <3>1
    <3>2. CASE e \in UpTo(s, i)
      BY <2>2, <2>9, <3>2
    <3> QED BY <2>8, <3>1, <3>2
  <2>11. ASSUME NEW k \in 1 .. n + 1, NEW j \in 1 .. n + 1, k < j PROVE q[k][1] < q[j][1]
    <3>1. k \in 1 .. n
      BY <2>2, <2>11
    <3>2. CASE j = n + 1
      <4>1. part[k] \in UpTo(s, i)
        BY <2>2, <3>1
      <4>2. part[k][1] < d
        BY <1>7, <4>1 DEF UpTo
      <4> QED BY <2>9, <3>1, <3>2, <4>2
    <3>3. CASE j \in 1 .. n
      BY <2>2, <2>9, <2>11, <3>1, <3>3
    <3> QED BY <2>9, <3>2, <3>3
  <2>12. ASSUME NEW k \in 1 .. n + 1 PROVE Copied(new, u[k], s, q[k])
    <3>1. CASE k = n + 1
      <4>1. u[k] = o + 1 /\ q[k] = <<d, z>>
        BY <2>2, <2>6, <2>9, <3>1
      <4>2. z - d - 1 = h
        BY <1>1, <1>4, <1>5 DEF z, h
      <4>3. \A x \in 1 .. h : new[o + 1 + x] = s[d + x]
        BY <1>4, <1>5, <2>4 DEF h
      <4> QED BY <2>4, <4>1, <4>2, <4>3 DEF Copied
    <3>2. CASE k \in 1 .. n
      <4> DEFINE x == w[k]
                 c == out[x]
                 e == part[k]
      <4>1. x \in 1 .. o /\ c \in 1 .. 63 /\ w[k + 1] = x + 1 + c /\ Copied(out, x, s, e)
        BY <2>2, <3>2
      <4>2. w[k + 1] <= o + 1
        <5>1. CASE k = n
          BY <2>2, <5>1
        <5>2. CASE k # n
          <6>1. k + 1 \in 1 .. n
            BY <2>2, <3>2, <5>2
          <6>2. w[k + 1] \in 1 .. o
            BY <2>2, <6>1
          <6> QED BY <2>2, <6>2
        <5> QED BY <5>1, <5>2
      <4>3. u[k] = x /\ q[k] = e
        BY <2>6, <2>9, <3>2
      <4> HIDE DEF x, e
      <4>4. c = e[2] - e[1] - 1 /\ \A y \in 1 .. c : out[x + y] = s[e[1] + y]
        BY <4>1 DEF Copied
      <4> DEFINE g == c
      <4> HIDE DEF c
      <4>5. x + c <= o
        BY <2>2, <4>1, <4>2
      <4>6. new[x] = c
        BY <2>4, <4>1 DEF c
      <4>7. ASSUME NEW y \in 1 .. c PROVE new[x + y] = s[e[1] + y]
        <5>1. x + y \in 1 .. o
          BY <2>2, <4>1, <4>5
        <5> QED BY <2>4, <4>4, <5>1
      <4>8. Copied(new, x, s, e)
        BY <4>4, <4>6, <4>7 DEF Copied
      <4> QED BY <4>3, <4>8
    <3> QED BY <2>9, <3>1, <3>2
  <2>13. Written(s, z, new, u, q, n + 1)
    <3>1. n + 1 \in Nat
      BY <2>2
    <3>2. Labels(new, 1, u, n + 1, Len(new) + 1)
      BY <2>7 DEF l
    <3> QED BY <2>4, <2>9, <2>10, <2>11, <2>12, <3>1, <3>2 DEF Written
  <2>14. Half(s, z, new, <<>>)
    BY <1>6, <2>13 DEF Half
  <2> QED BY <2>1, <2>14 DEF z, new
<1> QED BY <1>8, <1>9

\* QuestionName goes from character to character.
NameState == [out : Seq(Nat), label : Seq(Nat)]

LEMMA NameStepTyped ==
  ASSUME NEW a \in NameState, NEW c \in 1 .. 255
  PROVE  /\ NameStep(a, c) \in NameState
         /\ c = Dot => NameStep(a, c) = [out |-> a.out \o Label(a.label), label |-> <<>>]
         /\ c # Dot => NameStep(a, c) = [out |-> a.out, label |-> Append(a.label, c)]
<1>1. /\ a.out \in Seq(Nat) /\ a.label \in Seq(Nat)
      /\ a = [out |-> a.out, label |-> a.label]
  BY DEF NameState
<1> DEFINE o == a.out
           l == a.label
<1>2. Label(l) \in Seq(Nat)
  <2>1. l \in Seq(Nat) /\ Len(l) \in Nat
    BY <1>1, LenProperties
  <2> HIDE DEF l
  <2>2. <<Len(l)>> \in Seq(Nat) /\ <<>> \in Seq(Nat)
    BY <2>1
  <2>3. <<Len(l)>> \o l \in Seq(Nat)
    BY <2>1, <2>2, Together
  <2> QED BY <2>2, <2>3 DEF Label
<1>3. CASE c = Dot
  <2>1. NameStep(a, c) = [out |-> o \o Label(l), label |-> <<>>]
    BY <1>3 DEF NameStep
  <2>2. o \o Label(l) \in Seq(Nat) /\ <<>> \in Seq(Nat)
    <3>1. o \in Seq(Nat)
      BY <1>1
    <3> HIDE DEF o, l
    <3> QED BY <1>2, <3>1, Together
  <2> HIDE DEF o, l
  <2>3. [out |-> o \o Label(l), label |-> <<>>] \in NameState
    BY <2>2 DEF NameState
  <2> QED BY <1>3, <2>1, <2>3 DEF o, l
<1>4. CASE c # Dot
  <2>1. NameStep(a, c) = [a EXCEPT !.label = Append(l, c)]
    BY <1>4 DEF NameStep
  <2>2. Append(l, c) \in Seq(Nat)
    <3>1. l \in Seq(Nat)
      BY <1>1
    <3>2. c \in Nat
      OBVIOUS
    <3> HIDE DEF l
    <3> QED BY <3>1, <3>2, AppendProperties
  <2> DEFINE x == Append(l, c)
  <2>3. NameStep(a, c) = [a EXCEPT !.label = x]
    BY <2>1
  <2>4. x \in Seq(Nat)
    BY <2>2
  <2> HIDE DEF x
  <2>5. NameStep(a, c) = [out |-> o, label |-> x]
    BY <1>1, <2>3
  <2>6. [out |-> o, label |-> x] \in NameState
    BY <1>1, <2>4 DEF NameState
  <2> QED BY <1>4, <2>5, <2>6 DEF x
<1> QED BY <1>3, <1>4

Names(r, s) ==
  /\ r \in [0 .. Len(s) -> NameState]
  /\ r[0] = [out |-> <<>>, label |-> <<>>]
  /\ \A i \in 1 .. Len(s) : r[i] = NameStep(r[i - 1], s[i])

LEMMA NameRun ==
  ASSUME NEW s \in Seq(1 .. 255)
  PROVE  \E r : /\ Names(r, s)
                /\ QuestionName(s) = r[Len(s)].out \o Label(r[Len(s)].label) \o <<0>>
<1> DEFINE n == Len(s)
           T == 1 .. 255
           X == NameState
           none == [out |-> <<>>, label |-> <<>>]
           step == [p \in X \X T |-> NameStep(p[1], p[2])]
           Eq(f) == f = [u \in SUBSET DOMAIN s |->
                           IF u = {} THEN [out |-> <<>>, label |-> <<>>]
                           ELSE NameStep(f[u \ {Max(u)}], s[Max(u)])]
           it == CHOOSE f : Eq(f)
<1>1. n \in Nat /\ DOMAIN s = 1 .. n /\ s \in [1 .. n -> T]
  <2>1. s \in Seq(T)
    OBVIOUS
  <2> HIDE DEF T
  <2> QED BY <2>1, LenProperties
<1>2. QuestionName(s) = it[DOMAIN s].out \o Label(it[DOMAIN s].label) \o <<0>>
  BY Zenon DEF QuestionName, FoldLeft, MapThenFoldSet
<1>10. none \in X
  BY DEF NameState
<1> HIDE DEF n, T, X, none
<1>3. step \in [X \X T -> X] /\ \A a \in X, c \in T : step[<<a, c>>] = NameStep(a, c)
  <2>1. \A a \in X, c \in T : NameStep(a, c) \in X
    BY NameStepTyped DEF X, T
  <2> QED BY <2>1
<1> HIDE DEF step
<1>4. \A u \in SUBSET (1 .. n) :
        u # {} => s[Max(u)] \in T /\ u \ {Max(u)} \in SUBSET (1 .. n)
  <2> SUFFICES ASSUME NEW u \in SUBSET (1 .. n), u # {}
               PROVE  s[Max(u)] \in T /\ u \ {Max(u)} \in SUBSET (1 .. n)
    OBVIOUS
  <2>1. Max(u) \in u
    BY <1>1, Greatest
  <2> QED BY <1>1, <2>1
<1>5. Eq(it)
  <2>1. PICK f \in [SUBSET (1 .. n) -> X] : IsFold(f, none, step, s, n)
    BY <1>1, <1>3, <1>10, FoldExists
  <2>2. \A u \in SUBSET (1 .. n) :
          f[u] = IF u = {} THEN none ELSE NameStep(f[u \ {Max(u)}], s[Max(u)])
    BY <1>3, <1>4, <2>1 DEF IsFold
  <2>3. Eq(f)
    BY <1>1, <2>2 DEF none
  <2> HIDE DEF Eq
  <2> QED BY <2>3
<1>6. /\ it[{}] = none
      /\ \A u \in SUBSET (1 .. n) :
           u # {} => it[u] = NameStep(it[u \ {Max(u)}], s[Max(u)])
  <2> HIDE DEF it
  <2> QED BY <1>1, <1>5 DEF none
<1> HIDE DEF it
<1>7. IsFoldIn(it, X, none, step, s, n)
  BY <1>3, <1>4, <1>6 DEF IsFoldIn
<1>8. PICK r \in [0 .. n -> X] : IsRun(r, none, it[1 .. n], step, s, n)
  <2>1. \E r \in [0 .. n -> X] : IsRun(r, none, it[1 .. n], step, s, n)
    BY <1>1, <1>3, <1>7, <1>10, FoldRun
  <2> QED BY <2>1
<1>9. ASSUME NEW i \in 1 .. n PROVE r[i] = NameStep(r[i - 1], s[i])
  <2>1. i - 1 \in 0 .. n /\ s[i] \in T
    BY <1>1
  <2> QED BY <1>3, <1>8, <2>1 DEF IsRun
<1>11. Names(r, s)
  BY <1>8, <1>9 DEF n, none, X, IsRun, Names
<1>12. r[n] = it[DOMAIN s]
  BY <1>1, <1>8 DEF IsRun
<1> QED BY <1>2, <1>11, <1>12 DEF n

\* All of the name is written in the end.
LEMMA NameWritten ==
  ASSUME NEW s \in Seq(1 .. 255), ShortLabels(s)
  PROVE  \E out : Half(s, Len(s) + 1, out, <<>>) /\ QuestionName(s) = out \o <<0>>
<1> DEFINE m == Len(s)
<1>1. PICK r : Names(r, s) /\ QuestionName(s) = r[m].out \o Label(r[m].label) \o <<0>>
  BY NameRun
<1>2. /\ m \in Nat /\ r \in [0 .. m -> NameState] /\ r[0] = [out |-> <<>>, label |-> <<>>]
      /\ \A i \in 1 .. m : r[i] = NameStep(r[i - 1], s[i])
      /\ \A i \in 1 .. m : s[i] \in 1 .. 255
      /\ \A i \in 1 .. m : i \in Dots(s) <=> s[i] = Dot
      /\ m + 1 \in Dots(s)
  BY <1>1, DotsTyped DEF Names
<1> DEFINE H(i) == Half(s, i, r[i].out, r[i].label)
           P == {i \in 0 .. m : H(i)}
<1>3. 0 \in P
  <2>1. H(0)
    BY <1>2, NameBegun
  <2> HIDE DEF H
  <2> QED BY <1>2, <2>1
<1>4. ASSUME NEW i \in 0 .. m - 1, i \in P PROVE i + 1 \in P
  <2> DEFINE k == i + 1
             a == r[i]
             c == s[k]
  <2>1. k \in 1 .. m /\ k \in 0 .. m /\ k - 1 = i /\ i \in 0 .. m
    BY <1>2
  <2> HIDE DEF k
  <2>2. a \in NameState /\ c \in 1 .. 255 /\ r[k] = NameStep(a, c)
    BY <1>2, <2>1
  <2>3. Half(s, i, a.out, a.label)
    BY <1>4
  <2>4. CASE c = Dot
    <3>1. r[k].out = a.out \o Label(a.label) /\ r[k].label = <<>>
      <4> HIDE DEF a, c
      <4>1. NameStep(a, c) = [out |-> a.out \o Label(a.label), label |-> <<>>]
        BY <2>2, <2>4, NameStepTyped
      <4> DEFINE o == a.out \o Label(a.label)
      <4>2. r[k] = [out |-> o, label |-> <<>>]
        BY <2>2, <4>1
      <4> HIDE DEF o
      <4>3. r[k].out = o /\ r[k].label = <<>>
        BY <4>2
      <4> QED BY <4>3 DEF o
    <3>2. i + 1 \in Dots(s)
      BY <1>2, <2>1, <2>4 DEF k
    <3>3. Half(s, i + 1, a.out \o Label(a.label), <<>>)
      <4> HIDE DEF a
      <4> QED BY <2>1, <2>3, <3>2, LabelEnds
    <3> QED BY <2>1, <3>1, <3>3 DEF k
  <2>5. CASE c # Dot
    <3>1. r[k].out = a.out /\ r[k].label = Append(a.label, c)
      <4> HIDE DEF a, c
      <4>1. NameStep(a, c) = [out |-> a.out, label |-> Append(a.label, c)]
        BY <2>2, <2>5, NameStepTyped
      <4> QED BY <2>2, <4>1
    <3>2. Half(s, i + 1, a.out, Append(a.label, s[i + 1]))
      <4> HIDE DEF a
      <4> QED BY <2>1, <2>3, <2>5, NameGoesOn DEF k
    <3> QED BY <2>1, <3>1, <3>2 DEF k
  <2> QED BY <2>4, <2>5 DEF k
<1> HIDE DEF P
<1>5. m \in P
  <2>1. \A i \in 0 .. m - 1 : i \in P => i + 1 \in P
    BY <1>4
  <2>2. 0 .. m \subseteq P
    BY <1>2, <1>3, <2>1, InductiveUpTo
  <2> QED BY <1>2, <2>2
<1>6. Half(s, m, r[m].out, r[m].label)
  BY <1>5 DEF P
<1>7. m \in 0 .. m
  BY <1>2
<1>8. Half(s, m + 1, r[m].out \o Label(r[m].label), <<>>)
  BY <1>2, <1>6, <1>7, LabelEnds
<1> QED BY <1>1, <1>8

\* Two stretches of the same length with the same elements are the same.
Stretch(b, p, c) == SubSeq(b, p + 1, p + c)
Alike(b, p, s, g, c) == \A x \in 1 .. c : b[p + x] \in Nat /\ b[p + x] = s[g + x]

LEMMA SameStretch ==
  ASSUME NEW b, NEW p \in Int, NEW s, NEW g \in Int, NEW c \in Nat, Alike(b, p, s, g, c)
  PROVE  Stretch(b, p, c) = Stretch(s, g, c)
<1>1. ASSUME NEW t, NEW z \in Int, \A x \in 1 .. c : t[z + x] \in Nat
      PROVE  /\ SubSeq(t, z + 1, z + c) \in Seq(Nat) /\ Len(SubSeq(t, z + 1, z + c)) = c
             /\ \A x \in 1 .. c : SubSeq(t, z + 1, z + c)[x] = t[z + x]
  <2> DEFINE i == z + 1
             j == z + c
             u == SubSeq(t, i, j)
  <2>1. i \in Int /\ j \in Int /\ j - i + 1 = c /\ (i <= j => j - i + 1 = c) /\ (~(i <= j) => c = 0)
    OBVIOUS
  <2>2. \A k \in i .. j : t[k] \in Nat
    <3> SUFFICES ASSUME NEW k \in i .. j PROVE t[k] \in Nat
      OBVIOUS
    <3>1. k - z \in 1 .. c /\ z + (k - z) = k
      OBVIOUS
    <3> QED BY <1>1, <3>1
  <2> HIDE DEF i, j, u
  <2>3. /\ u \in Seq(Nat) /\ Len(u) = (IF i <= j THEN j - i + 1 ELSE 0)
        /\ \A x \in 1 .. j - i + 1 : u[x] = t[i + x - 1]
    BY <2>1, <2>2, SubSeqProperties DEF u
  <2>4. Len(u) = c
    BY <2>1, <2>3
  <2>5. ASSUME NEW x \in 1 .. c PROVE u[x] = t[z + x]
    <3>1. i + x - 1 = z + x
      BY DEF i
    <3> QED BY <2>1, <2>3, <3>1
  <2> QED BY <2>3, <2>4, <2>5 DEF u, i, j
<1>2. /\ SubSeq(b, p + 1, p + c) \in Seq(Nat) /\ Len(SubSeq(b, p + 1, p + c)) = c
      /\ \A x \in 1 .. c : SubSeq(b, p + 1, p + c)[x] = b[p + x]
  BY <1>1 DEF Alike
<1>3. /\ SubSeq(s, g + 1, g + c) \in Seq(Nat) /\ Len(SubSeq(s, g + 1, g + c)) = c
      /\ \A x \in 1 .. c : SubSeq(s, g + 1, g + c)[x] = s[g + x]
  BY <1>1 DEF Alike
<1> DEFINE u == SubSeq(b, p + 1, p + c)
           v == SubSeq(s, g + 1, g + c)
<1>4. u \in Seq(Nat) /\ v \in Seq(Nat) /\ Len(u) = Len(v) /\ \A x \in 1 .. Len(u) : u[x] = v[x]
  BY <1>2, <1>3 DEF Alike
<1> HIDE DEF u, v
<1>5. u = v
  BY <1>4, SeqEqual
<1> QED BY <1>5 DEF u, v, Stretch

\* The question is well formed, and its labels are those of the name.
LEMMA QuestionMade ==
  ASSUME NEW s \in Seq(1 .. 255), ShortLabels(s),
         NEW q, q = QuestionName(s) \o <<0, TypeA, 0, 1>>
  PROVE  IsQuestion(q) /\ AreLabelsOf(LabelsOf(q), s)
<1> DEFINE m == Len(s)
           tail == <<0, TypeA, 0, 1>>
<1>1. PICK out : Half(s, m + 1, out, <<>>) /\ QuestionName(s) = out \o <<0>>
  BY NameWritten
<1>2. PICK w, part, n : Written(s, m + 1, out, w, part, n)
  BY <1>1 DEF Half
<1>3. UpTo(s, m + 1) = PartsOf(s)
  <2> SUFFICES ASSUME NEW d \in PartsOf(s) PROVE d[2] <= m + 1
    BY DEF UpTo
  <2> DEFINE y == d[2]
  <2>1. y \in 0 .. m + 1
    BY DotsTyped
  <2> HIDE DEF y
  <2>2. y <= m + 1
    BY <2>1, DotsTyped
  <2> QED BY <2>2 DEF y
<1> DEFINE o == Len(out)
<1>4. out \in Seq(Nat) /\ n \in Nat /\ Labels(out, 1, w, n, o + 1) /\ o \in Nat /\ DOMAIN out = 1 .. o
  BY <1>2, LenProperties DEF Written
<1> HIDE DEF o, m
<1>5. /\ q \in Seq(Nat) /\ Len(q) = o + 5 /\ DOMAIN q = 1 .. o + 5 /\ q[o + 1] = 0
      /\ \A x \in 1 .. o : q[x] = out[x]
  <2> DEFINE zero == <<0>>
             front == out \o zero
  <2>1. zero \in Seq(Nat) /\ Len(zero) = 1 /\ zero[1] = 0 /\ tail \in Seq(Nat) /\ Len(tail) = 4
    BY DEF TypeA
  <2> HIDE DEF zero, tail
  <2>2. /\ front \in Seq(Nat) /\ Len(front) = o + Len(zero)
        /\ \A x \in 1 .. o : front[x] = out[x]
        /\ \A x \in 1 .. Len(zero) : front[o + x] = zero[x]
    BY <1>4, <2>1, Together DEF o
  <2> HIDE DEF front
  <2>3. Len(front) = o + 1 /\ front[o + 1] = 0
    BY <2>1, <2>2
  <2>4. q = front \o tail
    BY <1>1 DEF front, zero, tail
  <2>9. /\ front \o tail \in Seq(Nat) /\ Len(front \o tail) = Len(front) + Len(tail)
        /\ \A x \in 1 .. Len(front) : (front \o tail)[x] = front[x]
    BY <2>1, <2>2, Together
  <2>5. /\ q \in Seq(Nat) /\ Len(q) = Len(front) + Len(tail)
        /\ \A x \in 1 .. Len(front) : q[x] = front[x]
    BY <2>4, <2>9
  <2>6. Len(q) = o + 5
    BY <1>4, <2>1, <2>3, <2>5
  <2>7. DOMAIN q = 1 .. o + 5
    BY <2>5, <2>6, LenProperties
  <2>8. o + 1 \in 1 .. Len(front) /\ \A x \in 1 .. o : x \in 1 .. Len(front)
    BY <1>4, <2>3
  <2> QED BY <2>2, <2>3, <2>5, <2>6, <2>7, <2>8
<1>6. /\ w \in [1 .. n + 1 -> Nat] /\ w[1] = 1 /\ w[n + 1] = o + 1
      /\ \A k \in 1 .. n : w[k] \in 1 .. o /\ out[w[k]] \in 1 .. 63 /\ w[k + 1] = w[k] + 1 + out[w[k]]
  BY <1>4 DEF Labels
<1>7. ASSUME NEW k \in 1 .. n
      PROVE  w[k] \in DOMAIN q /\ q[w[k]] \in 1 .. 63 /\ w[k + 1] = w[k] + 1 + q[w[k]]
             /\ q[w[k]] = out[w[k]] /\ w[k + 1] <= o + 1
  <2> DEFINE x == w[k]
  <2>1. x \in 1 .. o /\ out[x] \in 1 .. 63 /\ w[k + 1] = x + 1 + out[x]
    BY <1>6
  <2> HIDE DEF x
  <2>2. x \in 1 .. o + 5 /\ q[x] = out[x]
    <3>1. q[x] = out[x]
      BY <1>5, <2>1
    <3>2. o \in Nat
      BY <1>4
    <3>3. x \in 1 .. o + 5
      BY <2>1, <3>2
    <3> QED BY <3>1, <3>3
  <2>3. w[k + 1] <= o + 1
    <3>1. CASE k = n
      BY <1>4, <1>6, <3>1
    <3>2. CASE k # n
      <4>1. k + 1 \in 1 .. n
        BY <1>4, <3>2
      <4>2. w[k + 1] \in 1 .. o
        BY <1>6, <4>1
      <4> QED BY <1>4, <4>2
    <3> QED BY <3>1, <3>2
  <2> QED BY <1>5, <2>1, <2>2, <2>3 DEF x
<1>8. Question(q, w, n, o + 1)
  <2>1. Labels(q, 1, w, n, o + 1)
    BY <1>6, <1>7 DEF Labels
  <2>2. o + 1 \in DOMAIN q /\ o + 1 + 4 = Len(q)
    BY <1>4, <1>5
  <2> QED BY <1>4, <1>5, <2>1, <2>2 DEF Question
<1> DEFINE labels == [k \in 1 .. n |-> SubSeq(q, w[k] + 1, w[k] + q[w[k]])]
<1>9. LabelsOf(q) = labels
  <2>1. LabelsOf(q) = LabelsAlong(q, w, n)
    BY <1>8, LabelsRead
  <2> QED BY <2>1 DEF LabelsAlong
<1>10. /\ part \in [1 .. n -> PartsOf(s)]
       /\ \A d \in PartsOf(s) : \E k \in 1 .. n : part[k] = d
       /\ \A k, l \in 1 .. n : k < l => part[k][1] < part[l][1]
       /\ \A k \in 1 .. n : Copied(out, w[k], s, part[k])
  BY <1>2, <1>3 DEF Written
<1>11. ASSUME NEW k \in 1 .. n
       PROVE  labels[k] = SubSeq(s, part[k][1] + 1, part[k][2] - 1)
  <2> DEFINE x == w[k]
             c == q[x]
             g == part[k][1]
             h == part[k][2]
  <2>1. x \in 1 .. o /\ c \in 1 .. 63 /\ x + 1 + c <= o + 1 /\ c = out[x]
    BY <1>6, <1>7
  <2>2. part[k] \in PartsOf(s) /\ Copied(out, x, s, part[k])
    BY <1>10
  <2>3. g \in Nat /\ h \in Nat
    BY <2>2, DotsTyped
  <2>4. out[x] = h - g - 1 /\ \A y \in 1 .. h - g - 1 : out[x + y] = s[g + y]
    BY <2>2 DEF Copied
  <2>5. labels[k] = SubSeq(q, x + 1, x + c)
    OBVIOUS
  <2> HIDE DEF x, c, g, h
  <2>6. c = h - g - 1 /\ h - 1 = g + c
    BY <2>1, <2>3, <2>4
  <2>7. ASSUME NEW y \in 1 .. c PROVE q[x + y] \in Nat /\ q[x + y] = s[g + y]
    <3>1. x + y \in 1 .. o
      BY <1>4, <2>1
    <3>2. q[x + y] = out[x + y] /\ out[x + y] \in Nat
      <4> DEFINE z == x + y
      <4>1. z \in 1 .. o
        BY <3>1
      <4> HIDE DEF z
      <4>2. q[z] = out[z] /\ out[z] \in Nat
        <5>1. out[z] \in Nat
          BY <1>4, <4>1, ElementOfSeq DEF o
        <5> QED BY <1>5, <4>1, <5>1
      <4> QED BY <4>2 DEF z
    <3>3. out[x + y] = s[g + y]
      BY <2>4, <2>6
    <3> QED BY <3>2, <3>3
  <2>10. x \in Int
    BY <1>4, <2>1
  <2>11. g \in Int
    BY <2>3
  <2>13. c \in 1 .. 63
    BY <2>1
  <2>8. c \in Nat
    BY <2>13
  <2>12. Alike(q, x, s, g, c)
    BY <2>7 DEF Alike
  <2>9. SubSeq(q, x + 1, x + c) = SubSeq(s, g + 1, g + c)
    <3>1. Stretch(q, x, c) = Stretch(s, g, c)
      BY <2>8, <2>10, <2>11, <2>12, SameStretch
    <3> QED BY <3>1 DEF Stretch
  <2> HIDE DEF labels
  <2> QED BY <2>5, <2>6, <2>9 DEF g, h
<1>12. DOMAIN labels = 1 .. n
  OBVIOUS
<1> HIDE DEF labels
<1>13. AreLabelsOf(labels, s)
  BY <1>10, <1>11, <1>12 DEF AreLabelsOf
<1> QED BY <1>8, <1>9, <1>13 DEF IsQuestion

\* Behind it the answers begin.
LEMMA QuestionSkipped ==
  ASSUME NEW b \in Seq(Nat), NEW q, IsQuestion(q), At(b, 0, q)
  PROVE  SkipQuestions(b, 1) = Len(q) + 1
<1>1. PICK w, n, e : Question(q, w, n, e)
  BY DEF IsQuestion
<1>2. /\ q \in Seq(Nat) /\ n \in Nat /\ e \in DOMAIN q /\ Labels(q, 1, w, n, e) /\ q[e] = 0
      /\ e + 4 = Len(q) /\ Len(q) \in Nat /\ DOMAIN q = 1 .. Len(q)
      /\ Len(b) \in Nat /\ DOMAIN b = 1 .. Len(b)
  BY <1>1, LenProperties DEF Question
<1>3. SkipQuestionName(b, 1) = e + 1
  <2> DEFINE v == [k \in 1 .. n + 1 |-> 0 + w[k]]
  <2>1. Labels(b, 0 + 1, v, n, 0 + e)
    <3>1. 0 \in Nat
      OBVIOUS
    <3> QED BY <1>2, <3>1, LabelsAt
  <2> HIDE DEF v
  <2>2. 0 + 1 = 1 /\ 0 + e = e
    BY <1>2
  <2>3. e \in DOMAIN b /\ b[e] = 0
    <3>1. 0 + Len(q) <= Len(b) /\ b[0 + e] = q[e]
      BY <1>2 DEF At
    <3> QED BY <1>2, <2>2, <3>1
  <2>4. Labels(b, 1, v, n, e)
    BY <2>1, <2>2
  <2> QED BY <1>2, <2>3, <2>4, QuestionNameSkipped
<1> DEFINE Eq(f) == f = [i \in 0 .. 1 |->
                           IF i = 0 THEN 1
                           ELSE LET p == SkipQuestionName(b, f[i - 1])
                                IN  IF p = Never THEN Never ELSE p + 4]
           it == CHOOSE f : Eq(f)
<1>4. SkipQuestions(b, 1) = it[1]
  BY Zenon DEF SkipQuestions
<1>5. Eq(it)
  <2> DEFINE last == LET p == SkipQuestionName(b, 1) IN IF p = Never THEN Never ELSE p + 4
             g == [i \in 0 .. 1 |-> IF i = 0 THEN 1 ELSE last]
  <2>1. g[0] = 1
    OBVIOUS
  <2>2. \A i \in 0 .. 1 : i # 0 => i - 1 = 0
    OBVIOUS
  <2>3. \A i \in 0 .. 1 :
          g[i] = IF i = 0 THEN 1
                 ELSE LET p == SkipQuestionName(b, g[i - 1]) IN IF p = Never THEN Never ELSE p + 4
    BY <2>1, <2>2
  <2>4. g = [i \in 0 .. 1 |-> g[i]]
    OBVIOUS
  <2> HIDE DEF g
  <2>5. Eq(g)
    BY <2>3, <2>4
  <2> HIDE DEF Eq
  <2> QED BY <2>5
<1> HIDE DEF it
<1>6. it[0] = 1 /\ it[1] = LET p == SkipQuestionName(b, it[0]) IN IF p = Never THEN Never ELSE p + 4
  <2>1. \A i \in 0 .. 1 :
          it[i] = IF i = 0 THEN 1
                  ELSE LET p == SkipQuestionName(b, it[i - 1]) IN IF p = Never THEN Never ELSE p + 4
    BY <1>5
  <2>2. 0 \in 0 .. 1 /\ 1 \in 0 .. 1 /\ 1 # 0 /\ 1 - 1 = 0
    OBVIOUS
  <2> QED BY <2>1, <2>2
<1>7. e + 1 # Never /\ e + 1 + 4 = Len(q) + 1
  BY <1>2 DEF Never
<1> QED BY <1>3, <1>4, <1>6, <1>7

\* The owners of the records, with and without a pointer.
LEMMA OwnerMade ==
  ASSUME NEW q, IsQuestion(q), NEW short \in BOOLEAN
  PROVE  IsOwner(Owner(q, short))
<1>1. CASE short
  <2> DEFINE o == <<192, 12>>
             w == [k \in 1 .. 1 |-> 1]
  <2>1. o \in Seq(Nat) /\ Len(o) = 2 /\ DOMAIN o = 1 .. 2 /\ o[1] = 192
    OBVIOUS
  <2>2. Labels(o, 1, w, 0, 1)
    <3>1. w \in [1 .. 0 + 1 -> Nat] /\ w[1] = 1 /\ w[0 + 1] = 1
      OBVIOUS
    <3> HIDE DEF w
    <3> QED BY <3>1 DEF Labels
  <2>3. Owner(q, short) = o
    BY <1>1 DEF Owner
  <2> HIDE DEF o, w
  <2>4. 0 \in Nat /\ 1 \in DOMAIN o /\ o[1] >= 64 /\ 1 + 1 = Len(o)
    BY <2>1
  <2> QED BY <2>1, <2>2, <2>3, <2>4 DEF IsOwner
<1>2. CASE ~short
  <2>1. PICK w, n, e : Question(q, w, n, e)
    BY DEF IsQuestion
  <2>2. /\ q \in Seq(Nat) /\ n \in Nat /\ e \in DOMAIN q /\ Labels(q, 1, w, n, e) /\ q[e] = 0
        /\ e + 4 = Len(q) /\ Len(q) \in Nat /\ DOMAIN q = 1 .. Len(q)
    BY <2>1, LenProperties DEF Question
  <2> DEFINE o == SubSeq(q, 1, e)
  <2>3. Owner(q, short) = o
    <3>1. Len(q) - 4 = e
      BY <2>2
    <3> QED BY <1>2, <3>1 DEF Owner
  <2>4. o \in Seq(Nat) /\ Len(o) = e /\ \A x \in 1 .. e : o[x] = q[x]
    <3>1. 1 \in Int /\ e \in Int /\ 1 <= e /\ e - 1 + 1 = e
      BY <2>2
    <3>2. \A x \in 1 .. e : q[x] \in Nat
      <4> SUFFICES ASSUME NEW x \in 1 .. e PROVE q[x] \in Nat
        OBVIOUS
      <4>1. x \in 1 .. Len(q)
        BY <2>2
      <4> QED BY <2>2, <4>1, ElementOfSeq
    <3> HIDE DEF o
    <3>3. /\ o \in Seq(Nat) /\ Len(o) = (IF 1 <= e THEN e - 1 + 1 ELSE 0)
          /\ \A x \in 1 .. e - 1 + 1 : o[x] = q[1 + x - 1]
      BY <3>1, <3>2, SubSeqProperties DEF o
    <3>4. \A x \in 1 .. e : 1 + x - 1 = x
      BY <3>1
    <3>5. Len(o) = e
      BY <3>1, <3>3
    <3>6. \A x \in 1 .. e : o[x] = q[x]
      BY <3>1, <3>3, <3>4
    <3> QED BY <3>3, <3>5, <3>6
  <2> HIDE DEF o
  <2>5. DOMAIN o = 1 .. e /\ e \in 1 .. e /\ e \in Nat
    BY <2>2, <2>4, LenProperties
  <2>6. /\ w \in [1 .. n + 1 -> Nat] /\ w[1] = 1 /\ w[n + 1] = e
        /\ \A k \in 1 .. n :
             w[k] \in 1 .. Len(q) /\ q[w[k]] \in 1 .. 63 /\ w[k + 1] = w[k] + 1 + q[w[k]]
    BY <2>2 DEF Labels
\* The labels stand before the zero.
  <2>7. ASSUME NEW k \in 1 .. n PROVE w[k] \in 1 .. e
    <3> DEFINE P == {i \in 0 .. n : w[n + 1 - i] <= e}
    <3>1. 0 \in P
      <4>1. n + 1 - 0 = n + 1 /\ e <= e
        BY <2>2
      <4> QED BY <2>2, <2>6, <4>1
    <3>2. ASSUME NEW i \in 0 .. n - 1, i \in P PROVE i + 1 \in P
      <4> DEFINE j == n - i
                 x == w[j]
                 c == q[x]
      <4>1. j \in 1 .. n /\ j + 1 = n + 1 - i /\ n + 1 - (i + 1) = j /\ i + 1 \in 0 .. n
        BY <2>2
      <4>2. w[j + 1] <= e
        BY <3>2, <4>1
      <4> HIDE DEF j
      <4>3. x \in 1 .. Len(q) /\ c \in 1 .. 63 /\ w[j + 1] = x + 1 + c
        BY <2>6, <4>1
      <4> HIDE DEF x, c
      <4>4. x <= e
        BY <2>2, <4>2, <4>3
      <4> QED BY <4>1, <4>4 DEF x
    <3> HIDE DEF P
    <3>3. \A i \in 0 .. n - 1 : i \in P => i + 1 \in P
      BY <3>2
    <3>4. 0 .. n \subseteq P
      BY <2>2, <3>1, <3>3, InductiveUpTo
    <3>5. n + 1 - k \in 0 .. n /\ n + 1 - (n + 1 - k) = k
      BY <2>2
    <3>6. w[k] <= e
      <4>1. n + 1 - k \in P
        BY <3>4, <3>5
      <4> QED BY <3>5, <4>1 DEF P
    <3>7. w[k] \in 1 .. Len(q)
      BY <2>6
    <3> QED BY <2>2, <3>6, <3>7
  <2>8. Labels(o, 1, w, n, e)
    <3>1. \A k \in 1 .. n :
            w[k] \in DOMAIN o /\ o[w[k]] \in 1 .. 63 /\ w[k + 1] = w[k] + 1 + o[w[k]]
      BY <2>4, <2>5, <2>6, <2>7
    <3> QED BY <2>6, <3>1 DEF Labels
  <2>9. o[e] = 0 /\ e \in DOMAIN o /\ e = Len(o)
    BY <2>2, <2>4, <2>5
  <2>10. IsOwner(o)
    BY <2>2, <2>4, <2>8, <2>9 DEF IsOwner
  <2> QED BY <2>3, <2>10
<1> QED BY <1>1, <1>2

-----------------------------------------------------------------------------
(* An answer *)

\* What the resolver makes of the server's answer to a well-formed request, if it waits
\* for it: the first address there is, and no success if there is none.
Taken(res, labels) ==
  IF HasAddress(labels)
  THEN res.ret = Success /\ IsAddress(labels, res.address) /\ res.address # NoAddress
  ELSE res.ret \in {-5, -6, -10}

LEMMA AnswerTaken ==
  ASSUME NEW r, IsQuestion(r.question), NEW short \in BOOLEAN,
         NEW m, m = Answer(r, short), NEW d, d.server = DnsServer
  PROVE  /\ m.from = DnsServer /\ m.id = r.id /\ m.port = r.port /\ m.question = r.question
         /\ d.id # m.id => DNSClient_ProcessResponse(d, m).ret = -4
         /\ d.id = m.id => Taken(DNSClient_ProcessResponse(d, m), LabelsOf(r.question))
<1> DEFINE q == r.question
           l == LabelsOf(q)
           records == IF Known(r) THEN Zone[l] ELSE <<>>
           o == Owner(q, short)
           body == Body(q, o, records)
           res == DNSClient_ProcessResponse(d, m)
<1>1. /\ m.from = DnsServer /\ m.id = r.id /\ m.port = r.port /\ m.question = q
      /\ m.response = TRUE /\ m.bad = ~Known(r) /\ m.qd = 1 /\ m.an = Len(records)
      /\ m.body = body
  BY DEF Answer
<1>2. Known(r) <=> l \in DOMAIN Zone
  BY DEF Known
<1> HIDE DEF l
<1>3. ASSUME d.id # m.id PROVE res.ret = -4
  <2>1. res = Gives(-4, NoAddress)
    <3> HIDE DEF records, body
    <3> QED BY <1>1, <1>3 DEF DNSClient_ProcessResponse
  <2> QED BY <2>1 DEF Gives
<1>4. ASSUME d.id = m.id PROVE Taken(res, l)
  <2>1. CASE ~Known(r)
    <3>1. res = Gives(-5, NoAddress)
      <4> HIDE DEF records, body
      <4> QED BY <1>1, <1>4, <2>1 DEF DNSClient_ProcessResponse
    <3>2. ~HasAddress(l)
      BY <1>2, <2>1 DEF HasAddress
    <3> HIDE DEF res
    <3> QED BY <3>1, <3>2 DEF Taken, Gives
  <2>2. CASE Known(r)
    <3>1. l \in DOMAIN Zone /\ records = Zone[l] /\ records \in Seq(Record)
      BY <1>2, <2>2, DnsAssumption
    <3> HIDE DEF records
    <3>2. Len(records) \in Nat /\ DOMAIN records = 1 .. Len(records)
      BY <3>1, LenProperties
    <3>3. /\ HasAddress(l) <=> ~NoAddressIn(records)
          /\ \A a : IsAddress(l, a) <=> \E i : FirstAddress(records, i) /\ records[i].data = a
      BY <3>1 DEF HasAddress, IsAddress, NoAddressIn, FirstAddress
    <3>4. CASE m.an = 0
      <4>1. res = Gives(-6, NoAddress)
        <5> HIDE DEF body
        <5> QED BY <1>1, <1>4, <2>2, <3>4 DEF DNSClient_ProcessResponse
      <4>2. NoAddressIn(records)
        <5>1. \A i \in DOMAIN records : FALSE
          BY <1>1, <3>2, <3>4
        <5> QED BY <5>1 DEF NoAddressIn
      <4> HIDE DEF res
      <4> QED BY <3>3, <4>1, <4>2 DEF Taken, Gives
    <3>5. CASE m.an # 0
      <4>1. res = FindAddress(body, SkipQuestions(body, 1), Len(records))
        <5> HIDE DEF body
        <5> QED BY <1>1, <1>4, <2>2, <3>5 DEF DNSClient_ProcessResponse
      <4>2. q \in Seq(Nat)
        BY DEF IsQuestion, Question
      <4>3. IsOwner(o)
        BY OwnerMade
      <4> HIDE DEF o, q
      <4>4. /\ body \in Seq(Nat) /\ At(body, 0, q)
            /\ NoAddressIn(records) =>
                 FindAddress(body, Len(q) + 1, Len(records)) = Gives(-10, NoAddress)
            /\ \A i : FirstAddress(records, i) =>
                 FindAddress(body, Len(q) + 1, Len(records)) = Gives(Success, records[i].data)
        BY <3>1, <4>2, <4>3, FindAddressFinds
      <4> HIDE DEF body, res
      <4>5. SkipQuestions(body, 1) = Len(q) + 1
        <5>1. IsQuestion(q)
          BY DEF q
        <5> QED BY <4>4, <5>1, QuestionSkipped
      <4>6. CASE NoAddressIn(records)
        <5>1. res = Gives(-10, NoAddress)
          BY <4>1, <4>4, <4>5, <4>6
        <5> QED BY <3>3, <4>6, <5>1 DEF Taken, Gives
      <4>7. CASE ~NoAddressIn(records)
        <5> DEFINE T == {i \in DOMAIN records : records[i].type = TypeA}
        <5>1. T \subseteq Nat /\ T # {}
          BY <3>2, <4>7 DEF NoAddressIn
        <5>2. PICK i \in T : \A y \in T : i <= y
          <6> HIDE DEF T
          <6> QED BY <5>1, LeastNatural
        <5>3. FirstAddress(records, i)
          <6>1. ASSUME NEW j \in 1 .. i - 1 PROVE records[j].type # TypeA
            <7>1. i \in 1 .. Len(records)
              BY <3>2, <5>2
            <7>2. j \in 1 .. Len(records) /\ ~(i <= j)
              BY <3>2, <7>1
            <7> QED BY <3>2, <5>2, <7>2
          <6> QED BY <5>2, <6>1 DEF FirstAddress
        <5>4. res = Gives(Success, records[i].data)
          BY <4>1, <4>4, <4>5, <5>3
        <5>5. records[i].data # NoAddress
          <6>1. records[i] \in Record /\ records[i].type = TypeA
            BY <3>1, <3>2, <5>2, ElementOfSeq
          <6> QED BY <6>1, RecordType
        <5>6. res.ret = Success /\ res.address = records[i].data
          BY <5>4 DEF Gives
        <5>7. IsAddress(l, records[i].data)
          BY <3>3, <5>3
        <5> QED BY <3>3, <4>7, <5>5, <5>6, <5>7 DEF Taken
      <4> QED BY <4>6, <4>7
    <3> QED BY <3>4, <3>5
  <2> QED BY <2>1, <2>2
<1> QED BY <1>1, <1>3, <1>4 DEF l

-----------------------------------------------------------------------------
(* The invariant *)

Strays == {[Nothing EXCEPT !.from = h] : h \in Strangers}

\* What waits in the socket came from the server to our port or from a stranger.
SocketOK ==
  /\ rx \in Seq(answers \cup Strays)
  /\ \A i \in 1 .. Len(rx) : rx[i].from = DnsServer => rx[i].port = dns.port

\* Requests come from lookups, answers from requests.
NetOK ==
  /\ \A q \in requests : \E i \in DOMAIN asked :
       q = DNSClient_BuildRequest(asked[i].id, asked[i].port, asked[i].name)
  /\ \A m \in answers : \E q \in requests, short \in BOOLEAN : m = Answer(q, short)

\* The lookup that waits is one of those asked.
LookupOK ==
  pc # "idle" =>
    /\ dns.server = DnsServer
    /\ \E i \in DOMAIN asked :
         asked[i].id = dns.id /\ asked[i].port = dns.port /\ asked[i].name = dns.name

DnsInv == TypeOK /\ SocketOK /\ NetOK /\ LookupOK

LEMMA ConstantsTyped ==
  /\ IdSpace \in Nat \ {0} /\ PortSpace \in Nat \ {0} /\ Timeout \in Nat \ {0}
  /\ MaxGap \in Nat /\ MaxLookups \in Nat /\ MaxRx \in Nat
  /\ \A h \in Strangers : h # DnsServer
  /\ \A s \in HostNames : s \in Seq(1 .. 255) /\ ShortLabels(s)
BY DnsAssumption

DnsState ==
  [server : {0, DnsServer}, id : 0 .. IdSpace - 1, port : 0 .. PortSpace - 1,
   name : HostNames \cup {<<>>}, waits : 0 .. 2, start : 0 .. now]
Asked == [id : 0 .. IdSpace - 1, port : 0 .. PortSpace - 1, name : HostNames]

\* No lookup.
LEMMA NoLookupTyped == ASSUME now \in Nat PROVE NoLookup \in DnsState
<1>1. 0 \in 0 .. IdSpace - 1 /\ 0 \in 0 .. PortSpace - 1 /\ 0 \in 0 .. 2 /\ 0 \in 0 .. now
  BY ConstantsTyped
<1> QED BY <1>1 DEF NoLookup, DnsState

\* The invariant holds at first.
LEMMA DnsInit == Init => DnsInv
<1> SUFFICES ASSUME Init PROVE DnsInv
  OBVIOUS
<1> USE DEF Init
<1>1. TypeOK
  <2>1. now \in Nat /\ dns \in DnsState
    BY NoLookupTyped
  <2>2. Len(<<>>) = 0 /\ <<>> \in Seq(Asked) /\ Len(rx) <= MaxRx /\ Len(asked) <= MaxLookups
    BY ConstantsTyped
  <2> QED BY <2>1, <2>2 DEF TypeOK, DnsState, Asked
<1>2. SocketOK
  <2>1. rx \in Seq(answers \cup Strays) /\ Len(rx) = 0
    OBVIOUS
  <2>2. \A i \in 1 .. Len(rx) : FALSE
    BY <2>1
  <2> QED BY <2>1, <2>2 DEF SocketOK
<1>3. NetOK /\ LookupOK
  BY DEF NetOK, LookupOK
<1> QED BY <1>1, <1>2, <1>3 DEF DnsInv

\* A closed socket.
LEMMA Stopped ==
  ASSUME DnsInv, EthernetUDP_stop, now' \in Nat,
         asked' \in Seq(Asked), Len(asked') <= MaxLookups, NetOK'
  PROVE  DnsInv'
<1> USE DEF EthernetUDP_stop
<1>1. TypeOK'
  <2>1. NoLookup \in DnsState'
    <3>1. 0 \in 0 .. IdSpace - 1 /\ 0 \in 0 .. PortSpace - 1 /\ 0 \in 0 .. 2 /\ 0 \in 0 .. now'
      BY ConstantsTyped
    <3> QED BY <3>1 DEF NoLookup, DnsState
  <2>2. Len(rx') <= MaxRx
    BY ConstantsTyped
  <2> QED BY <2>1, <2>2 DEF TypeOK, DnsState, Asked
<1>2. SocketOK'
  <2>1. rx' \in Seq(answers' \cup Strays) /\ Len(rx') = 0
    OBVIOUS
  <2>2. \A i \in 1 .. Len(rx') : FALSE
    BY <2>1
  <2> QED BY <2>1, <2>2 DEF SocketOK, Strays
<1>3. LookupOK'
  BY DEF LookupOK
<1> QED BY <1>1, <1>2, <1>3 DEF DnsInv

\* The end of a wait.
LEMMA Waited ==
  ASSUME DnsInv, pc = "waiting", NEW ret, NEW address, EndWait(ret, address),
         UNCHANGED <<now, net, asked>>
  PROVE  DnsInv'
<1> USE DEF net
<1>1. NetOK'
  BY DEF DnsInv, NetOK
<1>2. now' \in Nat /\ asked' \in Seq(Asked) /\ Len(asked') <= MaxLookups
  BY DEF DnsInv, TypeOK, Asked
<1>3. CASE EthernetUDP_stop
  BY <1>1, <1>2, <1>3, Stopped
<1>4. CASE /\ dns.waits + 1 < 3
           /\ dns' = [dns EXCEPT !.waits = @ + 1, !.start = now] /\ UNCHANGED <<pc, rx, returned>>
  <2>1. dns \in DnsState /\ now \in Nat
    BY DEF DnsInv, TypeOK, DnsState
  <2>2. dns.waits + 1 \in 0 .. 2
    <3> DEFINE x == dns.waits
    <3>1. x \in 0 .. 2 /\ x + 1 < 3
      BY <1>4, <2>1 DEF DnsState
    <3> HIDE DEF x
    <3>2. x + 1 \in 0 .. 2
      BY <3>1
    <3> QED BY <3>2 DEF x
  <2>3. now \in 0 .. now'
    BY <2>1
  <2> DEFINE y == dns.waits + 1
  <2>4. dns' = [dns EXCEPT !.waits = y, !.start = now] /\ y \in 0 .. 2
    BY <1>4, <2>2
  <2> HIDE DEF y
  <2>5. /\ dns' \in DnsState' /\ dns'.server = dns.server /\ dns'.id = dns.id
        /\ dns'.port = dns.port /\ dns'.name = dns.name
    BY <2>1, <2>3, <2>4 DEF DnsState
  <2>6. TypeOK'
    BY <1>2, <1>4, <2>5 DEF DnsInv, TypeOK, DnsState, Asked
  <2>7. SocketOK'
    BY <1>4, <2>5 DEF DnsInv, SocketOK, Strays
  <2>8. LookupOK'
    BY <1>4, <2>5 DEF DnsInv, LookupOK
  <2> QED BY <1>1, <2>6, <2>7, <2>8 DEF DnsInv
<1> QED BY <1>3, <1>4 DEF EndWait

\* More answers, and more in the socket: nothing else changes.
LEMMA NetStays ==
  ASSUME DnsInv, requests' = requests, answers \subseteq answers', asked' = asked,
         \A m \in answers' \ answers : \E q \in requests, short \in BOOLEAN : m = Answer(q, short)
  PROVE  NetOK'
<1>1. NetOK
  BY DEF DnsInv
<1>2. \A m \in answers' : \E q \in requests', short \in BOOLEAN : m = Answer(q, short)
  BY <1>1 DEF NetOK
<1>3. \A q \in requests' : \E i \in DOMAIN asked' :
        q = DNSClient_BuildRequest(asked'[i].id, asked'[i].port, asked'[i].name)
  BY <1>1 DEF NetOK
<1> QED BY <1>2, <1>3 DEF NetOK

\* A datagram comes.
LEMMA Received ==
  ASSUME DnsInv, NEW m \in answers \cup Strays, m.from = DnsServer => m.port = dns.port,
         pc = "waiting", Len(rx) < MaxRx, rx' = Append(rx, m), UNCHANGED <<net, Client>>
  PROVE  DnsInv'
<1> USE DEF net, Client
<1>1. /\ rx \in Seq(answers \cup Strays) /\ Len(rx) \in Nat
      /\ \A i \in 1 .. Len(rx) : rx[i].from = DnsServer => rx[i].port = dns.port
  BY LenProperties DEF DnsInv, SocketOK
<1>2. /\ rx' \in Seq(answers \cup Strays) /\ Len(rx') = Len(rx) + 1
      /\ \A i \in 1 .. Len(rx) : rx'[i] = rx[i]
      /\ rx'[Len(rx) + 1] = m
  BY <1>1, AppendProperties
<1> DEFINE n == Len(rx)
<1>3. SocketOK'
  <2>1. ASSUME NEW i \in 1 .. n + 1, rx'[i].from = DnsServer PROVE rx'[i].port = dns.port
    <3>1. CASE i = n + 1
      BY <1>2, <2>1, <3>1
    <3>2. CASE i # n + 1
      <4>1. i \in 1 .. n
        BY <1>1, <3>2
      <4> QED BY <1>1, <1>2, <2>1, <4>1
    <3> QED BY <3>1, <3>2
  <2>2. Len(rx') = n + 1 /\ rx' \in Seq(answers' \cup Strays)
    BY <1>2
  <2> HIDE DEF n
  <2> QED BY <2>1, <2>2 DEF SocketOK, Strays
<1>4. TypeOK'
  <2>1. Len(rx') <= MaxRx
    BY <1>1, <1>2, ConstantsTyped
  <2> QED BY <2>1 DEF DnsInv, TypeOK
<1>5. NetOK' /\ LookupOK'
  BY DEF DnsInv, NetOK, LookupOK
<1> QED BY <1>3, <1>4, <1>5 DEF DnsInv

\* A request leaves, or it does not.
LEMMA AskedMore ==
  ASSUME DnsInv, NEW s \in HostNames, NEW t \in Nat, NEW q,
         q = DNSClient_BuildRequest(t % IdSpace, t % PortSpace, s),
         Len(asked) < MaxLookups,
         asked' = Append(asked, [id |-> q.id, port |-> q.port, name |-> s]),
         requests' \in {requests, requests \cup {q}}, answers' = answers
  PROVE  /\ asked' \in Seq(Asked) /\ Len(asked') <= MaxLookups /\ NetOK'
         /\ q.id \in 0 .. IdSpace - 1 /\ q.port \in 0 .. PortSpace - 1
         /\ \E i \in DOMAIN asked' :
              asked'[i].id = q.id /\ asked'[i].port = q.port /\ asked'[i].name = s
<1> DEFINE a == [id |-> q.id, port |-> q.port, name |-> s]
           n == Len(asked)
<1>1. t % IdSpace \in 0 .. IdSpace - 1 /\ t % PortSpace \in 0 .. PortSpace - 1
  BY ConstantsTyped
<1>2. q.id = t % IdSpace /\ q.port = t % PortSpace
  BY DEF DNSClient_BuildRequest
<1>3. a \in Asked /\ a.id = q.id /\ a.port = q.port /\ a.name = s
  BY <1>1, <1>2 DEF Asked
<1>4. asked \in Seq(Asked) /\ n \in Nat /\ DOMAIN asked = 1 .. n
  BY LenProperties DEF DnsInv, TypeOK, Asked
<1> HIDE DEF a
<1>5. /\ asked' \in Seq(Asked) /\ Len(asked') = n + 1
      /\ \A i \in 1 .. n : asked'[i] = asked[i]
      /\ asked'[n + 1] = a
  <2>1. asked' = Append(asked, a)
    BY DEF a
  <2> QED BY <1>3, <1>4, <2>1, AppendProperties
<1>6. Len(asked') <= MaxLookups /\ DOMAIN asked' = 1 .. n + 1 /\ n + 1 \in 1 .. n + 1
      /\ \A i \in 1 .. n : i \in 1 .. n + 1
  <2>1. DOMAIN asked' = 1 .. Len(asked')
    BY <1>5, LenProperties
  <2> HIDE DEF n
  <2>2. n < MaxLookups /\ MaxLookups \in Nat
    BY ConstantsTyped DEF n
  <2>3. n + 1 <= MaxLookups /\ n + 1 \in 1 .. n + 1 /\ \A i \in 1 .. n : i \in 1 .. n + 1
    BY <1>4, <2>2
  <2> QED BY <1>5, <2>1, <2>3
<1> HIDE DEF n
<1>7. q = DNSClient_BuildRequest(a.id, a.port, a.name)
  BY <1>2, <1>3
<1>8. NetOK'
  <2>1. ASSUME NEW r \in requests'
        PROVE  \E i \in DOMAIN asked' :
                 r = DNSClient_BuildRequest(asked'[i].id, asked'[i].port, asked'[i].name)
    <3>1. CASE r = q
      BY <1>5, <1>6, <1>7, <3>1
    <3>2. CASE r \in requests
      <4>1. PICK i \in 1 .. n : r = DNSClient_BuildRequest(asked[i].id, asked[i].port, asked[i].name)
        BY <1>4, <3>2 DEF DnsInv, NetOK
      <4> QED BY <1>5, <1>6, <4>1
    <3> QED BY <3>1, <3>2
  <2>2. \A m \in answers' : \E r \in requests', short \in BOOLEAN : m = Answer(r, short)
    BY DEF DnsInv, NetOK
  <2> QED BY <2>1, <2>2 DEF NetOK
<1> QED BY <1>1, <1>2, <1>3, <1>5, <1>6, <1>8

\* Every step keeps the invariant.
LEMMA DnsStep == DnsInv /\ [Next]_vars => DnsInv'
<1> SUFFICES ASSUME DnsInv, [Next]_vars PROVE DnsInv'
  OBVIOUS
<1>1. ASSUME NEW s \in HostNames, LookupHere(s) PROVE DnsInv'
  BY <1>1 DEF LookupHere, net, DnsInv, TypeOK, SocketOK, NetOK, LookupOK, Strays
<1>2. ASSUME NEW s \in HostNames, DNSClient_getHostByName(s) PROVE DnsInv'
  <2>1. PICK gap \in 0 .. MaxGap :
          LET t == now + gap
              q == DNSClient_BuildRequest(t % IdSpace, t % PortSpace, s)
          IN  /\ now' = t
              /\ asked' = Append(asked, [id |-> q.id, port |-> q.port, name |-> s])
              /\ \/ /\ requests' = requests \cup {q}
                    /\ pc' = "waiting"
                    /\ dns' = [server |-> DnsServer, id |-> q.id, port |-> q.port, name |-> s,
                               waits |-> 0, start |-> t]
                    /\ UNCHANGED <<rx, returned>>
                 \/ /\ requests' \in {requests, requests \cup {q}}
                    /\ EthernetUDP_stop
                    /\ Return(s, 0, NoAddress)
    BY <1>2 DEF DNSClient_getHostByName
  <2>2. pc = "idle" /\ Len(asked) < MaxLookups /\ answers' = answers
    BY <1>2 DEF DNSClient_getHostByName
  <2> DEFINE t == now + gap
             q == DNSClient_BuildRequest(t % IdSpace, t % PortSpace, s)
  <2>3. t \in Nat
    BY ConstantsTyped DEF DnsInv, TypeOK
  <2>4. /\ now' = t
        /\ asked' = Append(asked, [id |-> q.id, port |-> q.port, name |-> s])
        /\ requests' \in {requests, requests \cup {q}}
    BY <2>1
  <2>5. \/ EthernetUDP_stop
        \/ /\ pc' = "waiting" /\ rx' = rx
           /\ dns' = [server |-> DnsServer, id |-> q.id, port |-> q.port, name |-> s,
                      waits |-> 0, start |-> t]
    BY <2>1
  <2> HIDE DEF t
  <2>6. q = DNSClient_BuildRequest(t % IdSpace, t % PortSpace, s)
    OBVIOUS
  <2> HIDE DEF q
  <2>7. /\ asked' \in Seq(Asked) /\ Len(asked') <= MaxLookups /\ NetOK'
        /\ q.id \in 0 .. IdSpace - 1 /\ q.port \in 0 .. PortSpace - 1
        /\ \E i \in DOMAIN asked' :
             asked'[i].id = q.id /\ asked'[i].port = q.port /\ asked'[i].name = s
    BY <2>2, <2>3, <2>4, <2>6, AskedMore
  <2>8. CASE EthernetUDP_stop
    BY <2>3, <2>4, <2>7, <2>8, Stopped
  <2>9. CASE /\ pc' = "waiting" /\ rx' = rx
             /\ dns' = [server |-> DnsServer, id |-> q.id, port |-> q.port, name |-> s,
                        waits |-> 0, start |-> t]
    <3>1. rx = <<>>
      BY <2>2 DEF DnsInv, TypeOK
    <3>2. dns' \in DnsState' /\ now' \in Nat
      <4>1. t \in 0 .. now' /\ 0 \in 0 .. 2 /\ now' \in Nat
        BY <2>3, <2>4
      <4> QED BY <2>7, <2>9, <4>1 DEF DnsState
    <3>3. TypeOK'
      <4>1. Len(rx') <= MaxRx
        BY <2>9, <3>1, ConstantsTyped
      <4> QED BY <2>7, <2>9, <3>2, <4>1 DEF TypeOK, DnsState, Asked
    <3>4. SocketOK'
      <4>1. rx' \in Seq(answers' \cup Strays) /\ Len(rx') = 0
        BY <2>9, <3>1
      <4>2. \A i \in 1 .. Len(rx') : FALSE
        BY <4>1
      <4> QED BY <4>1, <4>2 DEF SocketOK, Strays
    <3>5. LookupOK'
      <4>1. dns'.server = DnsServer /\ dns'.id = q.id /\ dns'.port = q.port /\ dns'.name = s
        BY <2>9
      <4> QED BY <2>7, <4>1 DEF LookupOK
    <3> QED BY <2>7, <3>3, <3>4, <3>5 DEF DnsInv
  <2> QED BY <2>5, <2>8, <2>9
<1>3. ASSUME TakeDatagram PROVE DnsInv'
  <2> DEFINE r == DNSClient_ProcessResponse(dns, Head(rx))
  <2>1. /\ pc = "waiting" /\ UNCHANGED <<now, net, asked>>
        /\ \/ EndWait(AsReturned(r.ret), r.address)
           \/ pc' = "stuck" /\ UNCHANGED <<rx, returned, dns>>
    BY <1>3 DEF TakeDatagram
  <2> HIDE DEF r
  <2>2. CASE EndWait(AsReturned(r.ret), r.address)
    BY <2>1, <2>2, Waited
  <2>3. CASE pc' = "stuck" /\ UNCHANGED <<rx, returned, dns>>
    BY <2>1, <2>3 DEF net, DnsInv, TypeOK, SocketOK, NetOK, LookupOK, Strays
  <2> QED BY <2>1, <2>2, <2>3
<1>4. ASSUME GiveUp PROVE DnsInv'
  BY <1>4, Waited DEF GiveUp
<1>5. ASSUME Delay PROVE DnsInv'
  <2>1. now' = now + 1 /\ UNCHANGED <<pc, dns, rx, net, returned, asked>>
    BY <1>5 DEF Delay
  <2>2. dns' \in DnsState' /\ now' \in Nat
    <3>1. dns \in DnsState /\ now \in Nat
      BY DEF DnsInv, TypeOK, DnsState
    <3>2. now' \in Nat /\ \A x \in 0 .. now : x \in 0 .. now'
      BY <2>1, <3>1
    <3> QED BY <2>1, <3>1, <3>2 DEF DnsState
  <2>3. TypeOK'
    BY <2>1, <2>2 DEF DnsInv, TypeOK, DnsState
  <2> QED BY <2>1, <2>3 DEF net, DnsInv, SocketOK, NetOK, LookupOK, Strays
<1>6. ASSUME ServerAnswers PROVE DnsInv'
  <2>1. PICK q \in requests, short \in BOOLEAN :
          /\ answers' = answers \cup {Answer(q, short)}
          /\ UNCHANGED <<rx, requests, Client>>
    BY <1>6 DEF ServerAnswers
  <2>2. NetOK'
    BY <2>1, NetStays DEF Client
  <2>3. SocketOK'
    <3>1. rx \in Seq(answers \cup Strays)
      BY DEF DnsInv, SocketOK
    <3>2. answers \cup Strays \subseteq answers' \cup Strays
      BY <2>1
    <3>3. rx \in Seq(answers' \cup Strays)
      BY <3>1, <3>2, SeqMonotonic
    <3> QED BY <2>1, <3>3 DEF DnsInv, SocketOK, Client, Strays
  <2> QED BY <2>1, <2>2, <2>3 DEF Client, DnsInv, TypeOK, LookupOK
<1>7. ASSUME Deliver PROVE DnsInv'
  <2>1. PICK m \in answers :
          /\ pc = "waiting" /\ m.port = dns.port /\ Len(rx) < MaxRx
          /\ rx' = Append(rx, m)
          /\ UNCHANGED <<net, Client>>
    BY <1>7 DEF Deliver
  <2> QED BY <2>1, Received
<1>8. ASSUME Stray PROVE DnsInv'
  <2>1. PICK h \in Strangers :
          /\ pc = "waiting" /\ Len(rx) < MaxRx
          /\ rx' = Append(rx, [Nothing EXCEPT !.from = h])
          /\ UNCHANGED <<net, Client>>
    BY <1>8 DEF Stray
  <2> DEFINE m == [Nothing EXCEPT !.from = h]
  <2>2. m \in Strays /\ m.from = h /\ h # DnsServer
    BY ConstantsTyped DEF Strays, Nothing
  <2>3. m \in answers \cup Strays /\ rx' = Append(rx, m)
    BY <2>1, <2>2
  <2> HIDE DEF m
  <2> QED BY <2>1, <2>2, <2>3, Received
<1>9. CASE UNCHANGED vars
  BY <1>9 DEF vars, net, DnsInv, TypeOK, SocketOK, NetOK, LookupOK, Strays
<1> QED BY <1>1, <1>2, <1>3, <1>4, <1>5, <1>6, <1>7, <1>8, <1>9 DEF Next, Wait

\* It always holds.
THEOREM DnsInvariant == Spec => []DnsInv
<1>1. DnsInv /\ [Next]_vars => DnsInv'
  BY DnsStep
<1> QED BY <1>1, DnsInit, PTL DEF Spec

\* Whatever the names, the zone and the bounds, variables have their types, a lookup
\* starts no later than now, and a socket that is closed holds nothing.
THEOREM DnsTyped == Spec => []TypeOK
<1>1. DnsInv => TypeOK
  BY DEF DnsInv
<1> QED BY <1>1, DnsInvariant, PTL

-----------------------------------------------------------------------------
(* What is asked, and what becomes of the answers *)

\* A request asks for the labels of a name that was looked up.
RequestFor(q, i) ==
  /\ i \in DOMAIN asked /\ q.id = asked[i].id /\ q.port = asked[i].port
  /\ IsQuestion(q.question) /\ AreLabelsOf(LabelsOf(q.question), asked[i].name)

LEMMA RequestOK ==
  ASSUME DnsInv, NEW q \in requests
  PROVE  \E i \in DOMAIN asked : RequestFor(q, i)
<1>1. PICK i \in DOMAIN asked :
        q = DNSClient_BuildRequest(asked[i].id, asked[i].port, asked[i].name)
  BY DEF DnsInv, NetOK
<1> DEFINE s == asked[i].name
<1>2. s \in HostNames
  <2>1. asked \in Seq(Asked)
    BY DEF DnsInv, TypeOK, Asked
  <2>2. asked[i] \in Asked
    BY <2>1, LenProperties, ElementOfSeq
  <2> QED BY <2>2 DEF Asked
<1>3. /\ q.id = asked[i].id /\ q.port = asked[i].port
      /\ q.question = QuestionName(s) \o <<0, TypeA, 0, 1>>
  BY <1>1 DEF DNSClient_BuildRequest
<1>4. s \in Seq(1 .. 255) /\ ShortLabels(s)
  BY <1>2, ConstantsTyped
<1> HIDE DEF s
<1>5. IsQuestion(q.question) /\ AreLabelsOf(LabelsOf(q.question), s)
  BY <1>3, <1>4, QuestionMade
<1> QED BY <1>3, <1>5 DEF s, RequestFor

\* The server is asked for the name that was given, for all names, whatever their dots:
\* the labels that the server finds in the question are the parts of the name.
THEOREM AsksForTheNameAlways == Spec => []AsksForTheName
<1>1. DnsInv => AsksForTheName
  <2> SUFFICES ASSUME DnsInv, NEW q \in requests
               PROVE  \E i \in DOMAIN asked :
                        /\ q.id = asked[i].id /\ q.port = asked[i].port
                        /\ AreLabelsOf(LabelsOf(q.question), asked[i].name)
    BY DEF AsksForTheName
  <2>1. PICK i \in DOMAIN asked : RequestFor(q, i)
    BY RequestOK
  <2> QED BY <2>1 DEF RequestFor
<1> QED BY <1>1, DnsInvariant, PTL

\* The first datagram in the socket, if it is the server's, answers a request from our port.
LEMMA FirstDatagram ==
  ASSUME DnsInv, rx # <<>>, NEW m, m = Head(rx)
  PROVE  IF m.from = DnsServer
         THEN \E q \in requests, short \in BOOLEAN : m = Answer(q, short) /\ q.port = dns.port
         ELSE m \in Strays
<1>1. rx \in Seq(answers \cup Strays) /\ Len(rx) \in Nat \ {0} /\ Head(rx) = rx[1]
  <2>1. rx \in Seq(answers \cup Strays)
    BY DEF DnsInv, SocketOK
  <2>2. Len(rx) \in Nat \ {0}
    BY <2>1, EmptySeq
  <2> QED BY <2>1, <2>2
<1>2. m \in answers \cup Strays /\ (m.from = DnsServer => m.port = dns.port)
  <2>1. 1 \in 1 .. Len(rx)
    BY <1>1
  <2>2. m = rx[1]
    BY <1>1
  <2>3. rx[1] \in answers \cup Strays
    BY <1>1, <2>1, ElementOfSeq
  <2>4. rx[1].from = DnsServer => rx[1].port = dns.port
    BY <2>1 DEF DnsInv, SocketOK
  <2> QED BY <2>2, <2>3, <2>4
<1>3. ASSUME NEW q \in requests, NEW short \in BOOLEAN
      PROVE  Answer(q, short).from = DnsServer /\ Answer(q, short).port = q.port
  BY DEF Answer
<1>4. \A x \in Strays : x.from # DnsServer
  BY ConstantsTyped DEF Strays, Nothing
<1>5. CASE m \in answers
  <2>1. PICK q \in requests, short \in BOOLEAN : m = Answer(q, short)
    BY <1>5 DEF DnsInv, NetOK
  <2>2. m.from = DnsServer /\ m.port = q.port
    BY <1>3, <2>1
  <2> QED BY <1>2, <2>1, <2>2
<1>6. CASE m \in Strays
  BY <1>4, <1>6
<1> QED BY <1>2, <1>5, <1>6

\* The unsigned result of a small number.
LEMMA Unsigned ==
  ASSUME NEW x \in Int, -65536 <= x, x < 65536
  PROVE  AsReturned(x) = IF x < 0 THEN x + 65536 ELSE x
BY DEF AsReturned

\* A result other than that the time is up ends the lookup.
LEMMA WaitEnds ==
  ASSUME NEW ret \in {InvalidServer, -4, -5, -6, -10, Success}, NEW address,
         EndWait(AsReturned(ret), address)
  PROVE  /\ EthernetUDP_stop /\ Return(dns.name, AsReturned(ret), address)
         /\ AsReturned(ret) = Success <=> ret = Success
<1>1. AsReturned(ret) \in Nat /\ (AsReturned(ret) = Success <=> ret = Success)
  <2>2. ret \in Int /\ -10 <= ret /\ ret <= 1
    BY DEF InvalidServer, Success
  <2>3. AsReturned(ret) = IF ret < 0 THEN ret + 65536 ELSE ret
    BY <2>2, Unsigned
  <2> QED BY <2>2, <2>3 DEF Success
<1>2. AsReturned(ret) # TimedOut
  BY <1>1 DEF TimedOut
<1> QED BY <1>1, <1>2 DEF EndWait

\* What one datagram makes of the lookup that waits.
DatagramTaken(m) ==
  LET res == DNSClient_ProcessResponse(dns, m)
  IN  /\ res.ret \in {InvalidServer, -4, -5, -6, -10, Success}
      /\ m.from = DnsServer =>
           \E q \in requests :
             /\ q.port = dns.port /\ m.id = q.id /\ m.question = q.question
             /\ m.id # dns.id => res.ret = -4
             /\ m.id = dns.id => Taken(res, LabelsOf(q.question))
      /\ m.from # DnsServer => res.ret = InvalidServer

LEMMA DatagramTakes ==
  ASSUME DnsInv, pc = "waiting", rx # <<>>
  PROVE  DatagramTaken(Head(rx))
<1> DEFINE m == Head(rx)
           res == DNSClient_ProcessResponse(dns, m)
<1>1. dns.server = DnsServer
  BY DEF DnsInv, LookupOK
<1>2. CASE m.from # DnsServer
  <2>1. res = Gives(InvalidServer, NoAddress)
    BY <1>1, <1>2 DEF DNSClient_ProcessResponse
  <2>2. res.ret = InvalidServer
    BY <2>1 DEF Gives
  <2> QED BY <1>2, <2>2 DEF DatagramTaken
<1>3. CASE m.from = DnsServer
  <2> HIDE DEF m
  <2>1. PICK q \in requests, short \in BOOLEAN : m = Answer(q, short) /\ q.port = dns.port
    BY <1>3, FirstDatagram DEF m
  <2>2. IsQuestion(q.question)
    BY RequestOK DEF RequestFor
  <2>3. /\ m.id = q.id /\ m.question = q.question
        /\ dns.id # m.id => DNSClient_ProcessResponse(dns, m).ret = -4
        /\ dns.id = m.id => Taken(DNSClient_ProcessResponse(dns, m), LabelsOf(q.question))
    BY <1>1, <2>1, <2>2, AnswerTaken
  <2> HIDE DEF res
  <2>4. res.ret \in {InvalidServer, -4, -5, -6, -10, Success}
    BY <2>3 DEF res, Taken
  <2>5. DatagramTaken(m)
    BY <1>3, <2>1, <2>3, <2>4 DEF DatagramTaken, res
  <2> QED BY <2>5 DEF m
<1> QED BY <1>2, <1>3

LEMMA TakeEnds ==
  ASSUME DnsInv, TakeDatagram,
         NEW res, res = DNSClient_ProcessResponse(dns, Head(rx))
  PROVE  /\ EthernetUDP_stop /\ Return(dns.name, AsReturned(res.ret), res.address)
         /\ AsReturned(res.ret) = Success <=> res.ret = Success
<1>1. pc = "waiting" /\ rx # <<>>
  BY DEF TakeDatagram
<1>2. res.ret \in {InvalidServer, -4, -5, -6, -10, Success}
  BY <1>1, DatagramTakes DEF DatagramTaken
<1>3. res.ret # Never
  BY <1>2 DEF Never, InvalidServer, Success
<1>4. EndWait(AsReturned(res.ret), res.address)
  BY <1>3 DEF TakeDatagram
<1> QED BY <1>2, <1>4, WaitEnds

\* An answer to the request that waits gives the first address it holds, and no address
\* if it holds none: for every name, zone and form of the answer's names.
THEOREM TakesAnswersApartAlways == Spec => TakesAnswersApart
<1> DEFINE labels == LabelsOf(Head(rx).question)
           A == pc = "waiting" /\ pc' # "waiting" /\ rx # <<>> =>
                  (Head(rx).from = dns.server /\ Head(rx).id = dns.id =>
                     IF HasAddress(labels)
                     THEN returned'.ret = Success /\ IsAddress(labels, returned'.address)
                     ELSE returned'.ret # Success)
<1>1. DnsInv /\ [Next]_vars => [A]_vars
  <2> SUFFICES ASSUME DnsInv, Next, pc = "waiting", pc' # "waiting", rx # <<>>,
                      Head(rx).from = dns.server, Head(rx).id = dns.id
               PROVE  IF HasAddress(labels)
                      THEN returned'.ret = Success /\ IsAddress(labels, returned'.address)
                      ELSE returned'.ret # Success
    OBVIOUS
  <2>1. TakeDatagram
    BY DEF Next, Wait, LookupHere, DNSClient_getHostByName, GiveUp, Delay, ServerAnswers,
           Deliver, Stray, Client, Return
  <2> DEFINE res == DNSClient_ProcessResponse(dns, Head(rx))
  <2>2. /\ Return(dns.name, AsReturned(res.ret), res.address)
        /\ AsReturned(res.ret) = Success <=> res.ret = Success
    BY <2>1, TakeEnds
  <2>3. Taken(res, labels)
    <3>1. dns.server = DnsServer
      BY DEF DnsInv, LookupOK
    <3> QED BY <3>1, DatagramTakes DEF DatagramTaken
  <2> HIDE DEF res, labels
  <2>4. CASE HasAddress(labels)
    <3>1. res.ret = Success /\ IsAddress(labels, res.address) /\ res.address # NoAddress
      BY <2>3, <2>4 DEF Taken
    <3>2. returned'.ret = Success /\ returned'.address = res.address
      BY <2>2, <3>1 DEF Return
    <3> QED BY <2>4, <3>1, <3>2
  <2>5. CASE ~HasAddress(labels)
    <3>1. res.ret # Success
      BY <2>3, <2>5 DEF Taken, Success
    <3>2. AsReturned(res.ret) # Success
      BY <2>2, <3>1
    <3>3. returned'.ret # Success
      BY <2>2, <3>2 DEF Return
    <3> QED BY <2>5, <3>3
  <2> QED BY <2>4, <2>5
<1>2. Spec => [][A]_vars
  BY <1>1, DnsInvariant, PTL DEF Spec
<1> QED BY <1>2 DEF TakesAnswersApart

-----------------------------------------------------------------------------
(* What a lookup returns *)

\* The address is the one the server has for the name.
OwnAddress(s, a) ==
  \E labels \in DOMAIN Zone : AreLabelsOf(labels, s) /\ IsAddress(labels, a)

\* DNSClient_inet_aton takes nothing but digits and dots for an address.  Its loop that
\* should see to that does not, so it is a matter of what names are looked up: "a" is not
\* one of them, "example" and "a.b.c.d.e" may be.
NumbersOnly == \A s \in HostNames : DNSClient_inet_aton[s].ok => s \in Numeric

\* Ambiguous, of the lookups in h.
AmbiguousIn(h, s) ==
  \E i, j \in DOMAIN h :
    /\ h[i].name = s /\ h[j].name # s
    /\ h[i].id = h[j].id /\ h[i].port = h[j].port

\* Requests that cannot be told apart stay so.
LEMMA AmbiguousStays ==
  ASSUME DnsInv, [Next]_vars, NEW s, AmbiguousIn(asked, s)
  PROVE  AmbiguousIn(asked', s)
<1>1. asked' = asked \/ \E a : asked' = Append(asked, a)
  BY DEF Next, LookupHere, DNSClient_getHostByName, Wait, TakeDatagram, GiveUp, Delay,
         ServerAnswers, Deliver, Stray, Client, vars
<1>2. CASE asked' = asked
  BY <1>2
<1>3. ASSUME NEW a, asked' = Append(asked, a)
      PROVE  AmbiguousIn(asked', s)
  <2>1. asked \in Seq(Asked)
    BY DEF DnsInv, TypeOK, Asked
  <2>2. /\ Len(asked) \in Nat /\ DOMAIN asked = 1 .. Len(asked)
        /\ DOMAIN asked' = 1 .. Len(asked) + 1
        /\ \A i \in 1 .. Len(asked) : asked'[i] = asked[i]
    <3>1. asked \in Seq(Asked \cup {a}) /\ a \in Asked \cup {a}
      BY <2>1
    <3> QED BY <1>3, <3>1, AppendProperties, LenProperties
  <2>3. DOMAIN asked \subseteq DOMAIN asked' /\ \A i \in DOMAIN asked : asked'[i] = asked[i]
    BY <2>2
  <2>4. PICK i, j \in DOMAIN asked :
          /\ asked[i].name = s /\ asked[j].name # s
          /\ asked[i].id = asked[j].id /\ asked[i].port = asked[j].port
    BY DEF AmbiguousIn
  <2>5. i \in DOMAIN asked' /\ j \in DOMAIN asked' /\ asked'[i] = asked[i] /\ asked'[j] = asked[j]
    BY <2>3
  <2> QED BY <2>4, <2>5 DEF AmbiguousIn
<1> QED BY <1>1, <1>2, <1>3

\* A datagram that ends a lookup with an address is the server's, and either its request
\* was for the same name, or its request was one that cannot be told from ours.
LEMMA TakenIsOwn ==
  ASSUME DnsInv, TakeDatagram, returned'.ret = Success
  PROVE  AmbiguousIn(asked', returned'.name) \/ OwnAddress(returned'.name, returned'.address)
<1> DEFINE m == Head(rx)
           res == DNSClient_ProcessResponse(dns, m)
<1>1. /\ Return(dns.name, AsReturned(res.ret), res.address)
      /\ AsReturned(res.ret) = Success <=> res.ret = Success
  BY TakeEnds
<1>2. pc = "waiting" /\ rx # <<>> /\ UNCHANGED asked
  BY DEF TakeDatagram
<1>3. DatagramTaken(m)
  BY <1>2, DatagramTakes
<1>4. res.ret = Success /\ returned'.name = dns.name /\ returned'.address = res.address
  <2> HIDE DEF res
  <2>1. AsReturned(res.ret) = Success /\ ~(AsReturned(res.ret) = Success /\ res.address = NoAddress)
    BY <1>1 DEF Return, Success
  <2> QED BY <1>1, <2>1 DEF Return
<1>5. m.from = DnsServer
  BY <1>3, <1>4 DEF DatagramTaken, InvalidServer, Success
<1> HIDE DEF m
<1>6. PICK q \in requests :
        /\ q.port = dns.port
        /\ m.id # dns.id => res.ret = -4
        /\ m.id = q.id
        /\ m.id = dns.id => Taken(res, LabelsOf(q.question))
  BY <1>3, <1>5 DEF DatagramTaken
<1>7. q.id = dns.id /\ Taken(res, LabelsOf(q.question))
  BY <1>4, <1>6 DEF Success
<1> HIDE DEF res
<1>8. IsAddress(LabelsOf(q.question), res.address)
  BY <1>4, <1>7 DEF Taken, Success
<1>9. PICK j \in DOMAIN asked : RequestFor(q, j)
  BY RequestOK
<1>10. PICK i \in DOMAIN asked :
         asked[i].id = dns.id /\ asked[i].port = dns.port /\ asked[i].name = dns.name
  BY <1>2 DEF DnsInv, LookupOK
<1>11. asked[j].id = asked[i].id /\ asked[j].port = asked[i].port
  BY <1>6, <1>7, <1>9, <1>10 DEF RequestFor
<1>12. CASE asked[j].name = dns.name
  <2>1. AreLabelsOf(LabelsOf(q.question), returned'.name)
    BY <1>4, <1>9, <1>12 DEF RequestFor
  <2>2. LabelsOf(q.question) \in DOMAIN Zone
    BY <1>8 DEF IsAddress
  <2> QED BY <1>4, <1>8, <2>1, <2>2 DEF OwnAddress
<1>13. CASE asked[j].name # dns.name
  BY <1>2, <1>4, <1>10, <1>11, <1>13 DEF AmbiguousIn
<1> QED BY <1>12, <1>13

\* What the caller gets changes with an address of a number, with a failure, or with an
\* answer of the server.
LEMMA LookupReturns ==
  ASSUME DnsInv, NumbersOnly, Next
  PROVE  \/ UNCHANGED returned
         \/ returned'.ret # Success
         \/ returned'.name \in Numeric
         \/ AmbiguousIn(asked', returned'.name)
         \/ OwnAddress(returned'.name, returned'.address)
<1>1. ASSUME NEW s \in HostNames, LookupHere(s)
      PROVE  returned'.ret # Success \/ returned'.name \in Numeric
  <2>1. CASE LookupNumber(s)
    <3>1. s \in Numeric
      BY <2>1 DEF LookupNumber, NumbersOnly
    <3>2. returned'.ret # Success \/ returned'.name = s
      BY <2>1 DEF LookupNumber, Return, Success
    <3> QED BY <3>1, <3>2
  <2>2. CASE Return(s, InvalidServer, NoAddress) \/ Return(s, 0, NoAddress)
    BY <2>2 DEF Return, InvalidServer, Success
  <2> QED BY <1>1, <2>1, <2>2 DEF LookupHere
<1>2. ASSUME NEW s \in HostNames, DNSClient_getHostByName(s)
      PROVE  UNCHANGED returned \/ returned'.ret # Success
  <2>1. UNCHANGED returned \/ Return(s, 0, NoAddress)
    BY <1>2 DEF DNSClient_getHostByName
  <2> QED BY <2>1 DEF Return, Success
<1>3. CASE TakeDatagram
  BY <1>3, TakenIsOwn
<1>4. CASE GiveUp
  <2>1. AsReturned(TimedOut) # Success
    <3>1. ASSUME NEW x \in Int, -10 <= x, x < 0
          PROVE  AsReturned(x) # 1
      <4>1. -65536 <= x /\ x < 65536
        BY <3>1
      <4>2. AsReturned(x) = x + 65536
        BY <3>1, <4>1, Unsigned
      <4> QED BY <3>1, <4>2
    <3>2. TimedOut \in Int /\ -10 <= TimedOut /\ TimedOut < 0
      BY DEF TimedOut
    <3> QED BY <3>1, <3>2 DEF Success
  <2>2. UNCHANGED returned \/ Return(dns.name, AsReturned(TimedOut), NoAddress)
    BY <1>4 DEF GiveUp, EndWait
  <2> QED BY <2>1, <2>2 DEF Return
<1>5. CASE Delay \/ ServerAnswers \/ Deliver \/ Stray
  BY <1>5 DEF Delay, ServerAnswers, Deliver, Stray, Client
<1> QED BY <1>1, <1>2, <1>3, <1>4, <1>5 DEF Next, Wait

\* If only numbers are taken for numbers, a name is resolved to the address that the
\* server has for it: for all names, zones and strangers, however many lookups there are
\* and however answers are lost, late, doubled or out of order; but for a name that was
\* asked with the id and the port of another one.
THEOREM ResolvesToItsAddressAlways ==
  ASSUME NumbersOnly PROVE Spec => []ResolvesToItsAddress
<1>1. Init => ResolvesToItsAddress
  BY DEF Init, ResolvesToItsAddress, Success
<1>2. DnsInv /\ ResolvesToItsAddress /\ [Next]_vars => ResolvesToItsAddress'
  <2> SUFFICES ASSUME DnsInv, ResolvesToItsAddress, [Next]_vars,
                      returned'.ret = Success, returned'.name \notin Numeric,
                      ~AmbiguousIn(asked', returned'.name)
               PROVE  OwnAddress(returned'.name, returned'.address)
    BY DEF ResolvesToItsAddress, OwnAddress, Ambiguous, AmbiguousIn
  <2>1. CASE UNCHANGED returned
    <3>1. ~AmbiguousIn(asked, returned.name)
      BY <2>1, AmbiguousStays
    <3>2. ~Ambiguous(returned.name)
      BY <3>1 DEF Ambiguous, AmbiguousIn
    <3> QED BY <2>1, <3>2 DEF ResolvesToItsAddress, OwnAddress
  <2>2. CASE Next /\ ~UNCHANGED returned
    BY <2>2, LookupReturns
  <2>3. UNCHANGED vars => UNCHANGED returned
    BY DEF vars
  <2> QED BY <2>1, <2>2, <2>3
<1> QED BY <1>1, <1>2, DnsInvariant, PTL DEF Spec
=============================================================================
