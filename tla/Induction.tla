------------------------------- MODULE Induction -------------------------------
(***************************************************************************)
(* Induction over the natural numbers, stated with sets instead of         *)
(* predicates, and what it gives for the folds of the community modules:   *)
(* a fold from the left is the last of a run of values, each the step from *)
(* the one before it.  At the end, numbers that wrap around.               *)
(***************************************************************************)
EXTENDS Integers, Sequences, FiniteSetsExt, WellFoundedInduction, TLAPS

\* A set of natural numbers has a least one.
LEMMA LeastNatural ==
  ASSUME NEW T, T \subseteq Nat, T # {}
  PROVE  \E x \in T : \A y \in T : x <= y
<1> DEFINE R == OpToRel(<, Nat)
<1>1. IsWellFoundedOn(R, Nat)
  BY NatLessThanWellFounded
<1>2. \A x, y \in Nat : y < x => <<y, x>> \in R
  BY DEF OpToRel
<1> HIDE DEF R
<1>3. \E x \in T : \A y \in T : ~(<<y, x>> \in R)
  BY <1>1, WFMin
<1>4. PICK x \in T : \A y \in T : ~(<<y, x>> \in R)
  BY <1>3
<1>5. ASSUME NEW y \in T PROVE x <= y
  <2>1. x \in Nat /\ y \in Nat /\ ~(y < x)
    BY <1>2, <1>4
  <2> QED BY <2>1
<1> QED BY <1>5

\* Induction.
LEMMA Inductive ==
  ASSUME NEW S, 0 \in S, \A n \in Nat : n \in S => n + 1 \in S
  PROVE  Nat \subseteq S
<1> DEFINE T == Nat \ S
<1> SUFFICES ASSUME T # {} PROVE FALSE
  OBVIOUS
<1>1. T \subseteq Nat
  OBVIOUS
<1> HIDE DEF T
<1>2. PICK x \in T : \A y \in T : x <= y
  BY <1>1, LeastNatural
<1>3. x # 0 /\ x - 1 \in Nat /\ x - 1 \notin T
  BY <1>1, <1>2 DEF T
<1>4. (x - 1) + 1 \in S
  BY <1>3 DEF T
<1> QED BY <1>1, <1>2, <1>3, <1>4 DEF T

\* Induction up to n.
LEMMA InductiveUpTo ==
  ASSUME NEW n \in Nat, NEW S, 0 \in S, \A i \in 0 .. n - 1 : i \in S => i + 1 \in S
  PROVE  0 .. n \subseteq S
<1> DEFINE U == S \cup {i \in Nat : i > n}
<1>1. 0 \in U /\ \A i \in Nat : i \in U => i + 1 \in U
  OBVIOUS
<1> HIDE DEF U
<1>2. Nat \subseteq U
  BY <1>1, Inductive
<1> QED BY <1>2 DEF U

\* A set of numbers up to n has a greatest one.
LEMMA Greatest ==
  ASSUME NEW n \in Nat, NEW u, u \subseteq 1 .. n, u # {}
  PROVE  Max(u) \in u /\ \A y \in u : y <= Max(u)
<1> DEFINE T == {n - y : y \in u}
<1>1. T \subseteq Nat /\ T # {}
  <2>1. \A y \in u : n - y \in Nat
    OBVIOUS
  <2> QED BY <2>1
<1>2. \A y \in u : n - y \in T /\ y \in Int
  OBVIOUS
<1>3. \A t \in T : t \in Nat /\ n - t \in u
  OBVIOUS
<1> HIDE DEF T
<1>4. PICK x \in T : \A y \in T : x <= y
  BY <1>1, LeastNatural
<1>5. n - x \in u /\ \A y \in u : n - x >= y
  BY <1>2, <1>3, <1>4
<1> QED BY <1>2, <1>5 DEF Max

\* What defines the function that a fold from the left is made of: from the positions
\* of s that it is given it takes the last.
IsFold(f, base, step, s, n) ==
  \A u \in SUBSET (1 .. n) :
    f[u] = IF u = {} THEN base ELSE step[<<f[u \ {Max(u)}], s[Max(u)]>>]

\* The same where the step starts from a member of X.
IsFoldIn(f, X, base, step, s, n) ==
  /\ f[{}] = base
  /\ \A u \in SUBSET (1 .. n) :
       u # {} /\ f[u \ {Max(u)}] \in X =>
         f[u] = step[<<f[u \ {Max(u)}], s[Max(u)]>>]

\* The values r[0] to r[n] lead from base to last, each made by the step from the one
\* before it and s.
IsRun(r, base, last, step, s, n) ==
  /\ r[0] = base /\ r[n] = last
  /\ \A i \in 1 .. n : r[i] = step[<<r[i - 1], s[i]>>]

\* The function that a fold from the left is defined by exists: on the sets of
\* positions up to k, and so on those of a sequence.
LEMMA FoldExists ==
  ASSUME NEW X, NEW T, NEW base \in X, NEW step \in [X \X T -> X],
         NEW n \in Nat, NEW s \in [1 .. n -> T]
  PROVE  \E f \in [SUBSET (1 .. n) -> X] : IsFold(f, base, step, s, n)
<1> DEFINE Folds(f, k) ==
             /\ f \in [SUBSET (1 .. k) -> X]
             /\ \A u \in SUBSET (1 .. k) :
                  f[u] = IF u = {} THEN base ELSE step[<<f[u \ {Max(u)}], s[Max(u)]>>]
           P == {k \in 0 .. n : \E f : Folds(f, k)}
<1>1. 0 \in P
  <2> DEFINE f == [u \in SUBSET (1 .. 0) |-> base]
  <2>1. Folds(f, 0)
    OBVIOUS
  <2> HIDE DEF f, Folds
  <2> QED BY <2>1
<1>2. ASSUME NEW k \in 0 .. n - 1, k \in P
      PROVE  k + 1 \in P
  <2>1. PICK f : Folds(f, k)
    BY <1>2
  <2> DEFINE g == [u \in SUBSET (1 .. k + 1) |->
                     IF k + 1 \in u THEN step[<<f[u \ {k + 1}], s[k + 1]>>] ELSE f[u]]
  <2>2. \A u \in SUBSET (1 .. k + 1) :
          u \ {k + 1} \in SUBSET (1 .. k) /\ (k + 1 \notin u => u \in SUBSET (1 .. k))
    OBVIOUS
  <2>3. s[k + 1] \in T
    OBVIOUS
  <2>4. g \in [SUBSET (1 .. k + 1) -> X]
    BY <2>1, <2>2, <2>3
  <2>5. ASSUME NEW u \in SUBSET (1 .. k), u # {}
        PROVE  Max(u) \in 1 .. k /\ u \ {Max(u)} \in SUBSET (1 .. k)
    <3>1. Max(u) \in u
      <4>1. k \in Nat /\ u \subseteq 1 .. k
        OBVIOUS
      <4> QED BY <2>5, <4>1, Greatest
    <3> QED BY <3>1
  <2>6. ASSUME NEW u \in SUBSET (1 .. k + 1), k + 1 \in u
        PROVE  Max(u) = k + 1
    <3>1. Max(u) \in u /\ \A y \in u : y <= Max(u)
      <4>1. k + 1 \in Nat /\ u \subseteq 1 .. k + 1 /\ u # {}
        BY <2>6
      <4> QED BY <4>1, Greatest
    <3>2. Max(u) \in 1 .. k + 1 /\ k + 1 <= Max(u)
      BY <2>6, <3>1
    <3> QED BY <3>2
  <2>7. \A u \in SUBSET (1 .. k) : g[u] = f[u]
    OBVIOUS
  <2>8. ASSUME NEW u \in SUBSET (1 .. k + 1)
        PROVE  g[u] = IF u = {} THEN base ELSE step[<<g[u \ {Max(u)}], s[Max(u)]>>]
    <3>1. CASE k + 1 \in u
      BY <2>2, <2>6, <2>7, <3>1
    <3>2. CASE k + 1 \notin u
      <4>1. u \in SUBSET (1 .. k) /\ g[u] = f[u]
        BY <2>2, <2>7, <3>2
      <4>2. f[u] = IF u = {} THEN base ELSE step[<<f[u \ {Max(u)}], s[Max(u)]>>]
        BY <2>1, <4>1
      <4>3. u # {} => g[u \ {Max(u)}] = f[u \ {Max(u)}]
        BY <2>5, <2>7, <4>1
      <4> HIDE DEF g
      <4> QED BY <4>1, <4>2, <4>3
    <3> QED BY <3>1, <3>2
  <2> HIDE DEF g
  <2>9. Folds(g, k + 1)
    BY <2>4, <2>8
  <2> HIDE DEF Folds
  <2> QED BY <2>9
<1> HIDE DEF P, Folds
<1>3. n \in P
  <2>1. \A k \in 0 .. n - 1 : k \in P => k + 1 \in P
    BY <1>2
  <2>2. 0 .. n \subseteq P
    BY <1>1, <2>1, InductiveUpTo
  <2> QED BY <2>2
<1> QED BY <1>3 DEF P, Folds, IsFold

\* The values of such a function on the first positions, one after the other, are
\* a run of the step.  It need be the step only where what it starts from is typed.
LEMMA FoldRun ==
  ASSUME NEW X, NEW T, NEW base \in X, NEW step \in [X \X T -> X],
         NEW n \in Nat, NEW s \in [1 .. n -> T],
         NEW f, IsFoldIn(f, X, base, step, s, n)
  PROVE  \E r \in [0 .. n -> X] : IsRun(r, base, f[1 .. n], step, s, n)
<1> DEFINE P == {i \in 0 .. n : f[1 .. i] \in X}
<1>1. 1 .. 0 = {}
  OBVIOUS
<1>2. ASSUME NEW i \in 0 .. n - 1
      PROVE  /\ 1 .. i + 1 \in SUBSET (1 .. n) /\ 1 .. i + 1 # {}
             /\ Max(1 .. i + 1) = i + 1 /\ (1 .. i + 1) \ {i + 1} = 1 .. i
             /\ s[i + 1] \in T
  <2> DEFINE u == 1 .. i + 1
  <2>1. i + 1 \in u /\ u \subseteq 1 .. n /\ u # {} /\ i + 1 \in 1 .. n
    <3>1. i + 1 \in 1 .. n /\ i + 1 \in 1 .. i + 1
      OBVIOUS
    <3>2. \A y \in u : y \in 1 .. n
      OBVIOUS
    <3> QED BY <3>1, <3>2
  <2>2. Max(u) \in u /\ \A y \in u : y <= Max(u)
    <3>1. n \in Nat
      OBVIOUS
    <3> HIDE DEF u
    <3> QED BY <2>1, <3>1, Greatest
  <2>3. Max(u) = i + 1
    <3>1. Max(u) \in 1 .. i + 1 /\ i + 1 <= Max(u)
      BY <2>1, <2>2
    <3> HIDE DEF u
    <3> QED BY <3>1
  <2>4. u \ {i + 1} = 1 .. i
    OBVIOUS
  <2> QED BY <2>1, <2>3, <2>4
<1>3. ASSUME NEW i \in 0 .. n - 1, f[1 .. i] \in X
      PROVE  f[1 .. i + 1] = step[<<f[1 .. i], s[i + 1]>>] /\ f[1 .. i + 1] \in X
  <2> DEFINE u == 1 .. i + 1
  <2>1. /\ u \in SUBSET (1 .. n) /\ u # {} /\ Max(u) = i + 1 /\ u \ {i + 1} = 1 .. i
        /\ s[i + 1] \in T
    BY <1>2
  <2> HIDE DEF u
  <2>2. f[u] = step[<<f[1 .. i], s[i + 1]>>]
    BY <1>3, <2>1 DEF IsFoldIn
  <2>3. f[u] \in X
    BY <1>3, <2>1, <2>2
  <2> QED BY <2>2, <2>3 DEF u
<1>4. \A i \in 0 .. n : f[1 .. i] \in X
  <2>1. 0 \in P
    BY <1>1 DEF IsFoldIn
  <2>2. ASSUME NEW i \in 0 .. n - 1, i \in P PROVE i + 1 \in P
    <3>1. f[1 .. i + 1] \in X
      BY <1>3, <2>2
    <3>2. i + 1 \in 0 .. n
      OBVIOUS
    <3> QED BY <3>1, <3>2
  <2>3. 0 .. n \subseteq P
    <3> HIDE DEF P
    <3> QED BY <2>1, <2>2, InductiveUpTo
  <2> QED BY <2>3
<1> DEFINE r == [i \in 0 .. n |-> f[1 .. i]]
<1>5. r \in [0 .. n -> X] /\ r[0] = base /\ r[n] = f[1 .. n]
  BY <1>1, <1>4 DEF IsFoldIn
<1>6. ASSUME NEW i \in 1 .. n PROVE r[i] = step[<<r[i - 1], s[i]>>]
  <2> DEFINE j == i - 1
  <2>1. j \in 0 .. n - 1 /\ j + 1 = i /\ j \in 0 .. n
    OBVIOUS
  <2>2. f[1 .. j + 1] = step[<<f[1 .. j], s[j + 1]>>]
    <3> HIDE DEF j
    <3> QED BY <1>3, <1>4, <2>1
  <2>3. r[i] = f[1 .. i] /\ r[j] = f[1 .. j]
    <3> HIDE DEF j
    <3> QED BY <2>1
  <2> HIDE DEF r
  <2> QED BY <2>1, <2>2, <2>3
<1> HIDE DEF r
<1> QED BY <1>5, <1>6 DEF IsRun

\* A recursive function that goes from p to next[p] until p is in stop.
IsWalk(f, D, stop, value, next, join) ==
  \A p \in D : f[p] = IF p \in stop THEN value[p] ELSE join[<<p, f[next[p]]>>]

\* Every step of it leads to something smaller.
Descends(D, stop, next, size) ==
  \A p \in D : p \notin stop => next[p] \in D /\ size[next[p]] < size[p]

\* Such a function exists: on what is smaller than k, and so on all of D.
LEMMA WalkExists ==
  ASSUME NEW D, NEW V, NEW stop, NEW value \in [D -> V], NEW next,
         NEW join \in [D \X V -> V],
         NEW n \in Nat, NEW size \in [D -> 0 .. n], Descends(D, stop, next, size)
  PROVE  \E f \in [D -> V] : IsWalk(f, D, stop, value, next, join)
<1> DEFINE B(k) == {p \in D : size[p] < k}
           Walks(f, k) == f \in [B(k) -> V] /\ IsWalk(f, B(k), stop, value, next, join)
           P == {k \in 0 .. n + 1 : \E f : Walks(f, k)}
<1>1. 0 \in P
  <2> DEFINE f == [p \in {} |-> value[p]]
  <2>1. B(0) = {}
    OBVIOUS
  <2>2. Walks(f, 0)
    BY <2>1 DEF IsWalk
  <2> HIDE DEF f, Walks
  <2> QED BY <2>2
<1>2. ASSUME NEW k \in 0 .. n, k \in P PROVE k + 1 \in P
  <2>1. PICK f : Walks(f, k)
    BY <1>2
  <2> DEFINE g == [p \in B(k + 1) |-> IF p \in stop THEN value[p] ELSE join[<<p, f[next[p]]>>]]
  <2>2. ASSUME NEW p \in B(k + 1), p \notin stop
        PROVE  next[p] \in B(k) /\ next[p] \in B(k + 1)
    <3>1. p \in D /\ size[p] < k + 1
      OBVIOUS
    <3>2. next[p] \in D /\ size[next[p]] < size[p]
      BY <2>2, <3>1 DEF Descends
    <3> DEFINE a == size[p]
               c == size[next[p]]
    <3>3. a \in 0 .. n /\ c \in 0 .. n
      BY <3>1, <3>2
    <3> HIDE DEF a, c
    <3>4. c < k /\ c < k + 1
      BY <3>1, <3>2, <3>3 DEF a, c
    <3> QED BY <3>2, <3>4 DEF c
  <2>3. \A p \in B(k) : p \in B(k + 1)
    <3> SUFFICES ASSUME NEW p \in D, size[p] < k PROVE size[p] < k + 1
      OBVIOUS
    <3> DEFINE a == size[p]
    <3>1. a \in 0 .. n /\ a < k
      OBVIOUS
    <3> HIDE DEF a
    <3>2. a < k + 1
      BY <3>1
    <3> QED BY <3>2 DEF a
  <2> HIDE DEF B
  <2>4. \A p \in B(k) : g[p] = f[p]
    BY <2>1, <2>3 DEF IsWalk
  <2>5. g \in [B(k + 1) -> V]
    <3> SUFFICES ASSUME NEW p \in B(k + 1)
                 PROVE  (IF p \in stop THEN value[p] ELSE join[<<p, f[next[p]]>>]) \in V
      OBVIOUS
    <3>1. p \in D
      BY DEF B
    <3>2. p \notin stop => f[next[p]] \in V
      BY <2>1, <2>2
    <3> QED BY <3>1, <3>2
  <2>6. \A p \in B(k + 1) :
          g[p] = IF p \in stop THEN value[p] ELSE join[<<p, g[next[p]]>>]
    BY <2>2, <2>4
  <2> HIDE DEF g
  <2>7. Walks(g, k + 1)
    BY <2>5, <2>6 DEF IsWalk
  <2> HIDE DEF Walks
  <2>8. k + 1 \in 0 .. n + 1
    OBVIOUS
  <2> QED BY <2>7, <2>8
<1>3. B(n + 1) = D
  <2> SUFFICES ASSUME NEW p \in D PROVE size[p] < n + 1
    OBVIOUS
  <2> DEFINE a == size[p]
  <2>1. a \in 0 .. n
    OBVIOUS
  <2> HIDE DEF a
  <2>2. a < n + 1
    BY <2>1
  <2> QED BY <2>2 DEF a
<1> HIDE DEF P, Walks, B
<1>4. n + 1 \in P
  <2> DEFINE m == n + 1
  <2>1. m \in Nat /\ \A k \in 0 .. m - 1 : k \in P => k + 1 \in P
    BY <1>2
  <2> HIDE DEF m
  <2>2. 0 .. m \subseteq P
    BY <1>1, <2>1, InductiveUpTo
  <2> QED BY <2>1, <2>2 DEF m
<1> QED BY <1>3, <1>4 DEF P, Walks

\* The same where what it goes on to is in V.
IsWalkIn(f, D, V, stop, value, next, join) ==
  \A p \in D :
    IF p \in stop THEN f[p] = value[p]
    ELSE f[next[p]] \in V => f[p] = join[<<p, f[next[p]]>>]

\* Then all that it gives is in V.
LEMMA WalkTyped ==
  ASSUME NEW D, NEW V, NEW stop, NEW value \in [D -> V], NEW next,
         NEW join \in [D \X V -> V],
         NEW n \in Nat, NEW size \in [D -> 0 .. n], Descends(D, stop, next, size),
         NEW f, IsWalkIn(f, D, V, stop, value, next, join)
  PROVE  \A p \in D : f[p] \in V
<1> DEFINE P == {k \in 0 .. n + 1 : \A p \in D : size[p] < k => f[p] \in V}
<1>1. 0 \in P
  <2> SUFFICES ASSUME NEW p \in D PROVE ~(size[p] < 0)
    OBVIOUS
  <2> DEFINE a == size[p]
  <2>1. a \in 0 .. n
    OBVIOUS
  <2> HIDE DEF a
  <2>2. ~(a < 0)
    BY <2>1
  <2> QED BY <2>2 DEF a
<1>2. ASSUME NEW k \in 0 .. n, k \in P PROVE k + 1 \in P
  <2>1. ASSUME NEW p \in D, size[p] < k + 1 PROVE f[p] \in V
    <3>1. /\ p \in stop => f[p] = value[p]
          /\ p \notin stop /\ f[next[p]] \in V => f[p] = join[<<p, f[next[p]]>>]
      BY DEF IsWalkIn
    <3>2. ASSUME p \notin stop PROVE f[next[p]] \in V
      <4>1. next[p] \in D /\ size[next[p]] < size[p]
        BY <3>2 DEF Descends
      <4> DEFINE a == size[p]
                 c == size[next[p]]
      <4>2. a \in 0 .. n /\ c \in 0 .. n
        BY <4>1
      <4> HIDE DEF a, c
      <4>3. c < k
        BY <2>1, <4>1, <4>2 DEF a, c
      <4> QED BY <1>2, <4>1, <4>3 DEF c
    <3> QED BY <3>1, <3>2
  <2>2. k + 1 \in 0 .. n + 1
    OBVIOUS
  <2> QED BY <2>1, <2>2
<1>3. n + 1 \in P
  <2> DEFINE m == n + 1
  <2> HIDE DEF P
  <2>1. m \in Nat /\ \A k \in 0 .. m - 1 : k \in P => k + 1 \in P
    BY <1>2
  <2> HIDE DEF m
  <2>2. 0 .. m \subseteq P
    BY <1>1, <2>1, InductiveUpTo
  <2> QED BY <2>1, <2>2 DEF m
<1> SUFFICES ASSUME NEW p \in D PROVE f[p] \in V
  OBVIOUS
<1> DEFINE a == size[p]
<1>4. a \in 0 .. n
  OBVIOUS
<1> HIDE DEF a
<1>5. a < n + 1
  BY <1>4
<1> QED BY <1>3, <1>5 DEF a

-----------------------------------------------------------------------------
(* Arithmetic modulo n *)

\* A positive multiple of n is at least n.
LEMMA MultipleAtLeast ==
    ASSUME NEW n \in Nat \ {0}, NEW k \in Int, k >= 1
    PROVE  n * k >= n
OBVIOUS

\* A product with a difference.
LEMMA ProductOfDifference ==
    ASSUME NEW n \in Int, NEW k \in Int, NEW l \in Int
    PROVE  n * (k - l) = n * k - n * l
OBVIOUS

\* What division and remainder are.
LEMMA DivisionAndRemainder ==
    ASSUME NEW n \in Nat \ {0}, NEW a \in Int
    PROVE  a \div n \in Int /\ a % n \in 0 .. n - 1 /\ a = (n * (a \div n)) + (a % n)
OBVIOUS

\* There is one way to write a number as a multiple of n and a remainder.
LEMMA RemainderIsUnique ==
    ASSUME NEW n \in Nat \ {0}, NEW a \in Int, NEW q \in Int, NEW r \in 0 .. n - 1,
           a = n * q + r
    PROVE  a % n = r
<1> DEFINE p == a \div n
           s == a % n
<1>1. p \in Int /\ s \in 0 .. n - 1 /\ a = n * p + s
  BY DivisionAndRemainder
<1>2. n * q \in Int /\ n * p \in Int
  BY <1>1
<1>3. n * (q - p) = s - r /\ n * (p - q) = r - s
  <2>1. n * (q - p) = n * q - n * p /\ n * (p - q) = n * p - n * q
    BY <1>1, ProductOfDifference
  <2> HIDE DEF p, s
  <2> QED BY <1>1, <1>2, <2>1
<1> HIDE DEF p, s
<1>4. ~(q - p >= 1)
  <2> SUFFICES ASSUME q - p >= 1 PROVE FALSE
    OBVIOUS
  <2>1. q - p \in Int BY <1>1
  <2>2. n * (q - p) >= n BY <2>1, MultipleAtLeast
  <2> QED BY <1>1, <1>3, <2>2
<1>5. ~(p - q >= 1)
  <2> SUFFICES ASSUME p - q >= 1 PROVE FALSE
    OBVIOUS
  <2>1. p - q \in Int BY <1>1
  <2>2. n * (p - q) >= n BY <2>1, MultipleAtLeast
  <2> QED BY <1>1, <1>3, <2>2
<1>6. p = q
  BY <1>1, <1>4, <1>5
<1>7. s = r
  BY <1>1, <1>2, <1>6
<1> QED
  BY <1>7 DEF s

\* Where numbers wrap around at n, one up to n past b is at its distance from b ...
LEMMA DistanceAhead ==
    ASSUME NEW n \in Nat \ {0}, NEW p \in Int, NEW b \in Int, p - b \in 0 .. n - 1
    PROVE  ((p % n) - b) % n = p - b
<1> DEFINE q == p \div n
           s == p % n
<1>1. q \in Int /\ s \in 0 .. n - 1 /\ p = n * q + s
  BY DivisionAndRemainder
<1>2. n * (0 - q) = n * 0 - n * q
  BY <1>1, ProductOfDifference
<1>3. n * 0 = 0 /\ n * q \in Int
  BY <1>1
<1> HIDE DEF q, s
<1>4. s - b = n * (0 - q) + (p - b)
  BY <1>1, <1>2, <1>3
<1>5. s - b \in Int /\ 0 - q \in Int
  BY <1>1
<1>6. (s - b) % n = p - b
  BY <1>4, <1>5, RemainderIsUnique
<1> QED
  BY <1>6 DEF s

\* ... and one up to n before b at the other end.
LEMMA DistanceBehind ==
    ASSUME NEW n \in Nat \ {0}, NEW p \in Int, NEW b \in Int, p - b \in -n .. -1
    PROVE  ((p % n) - b) % n = p - b + n
<1> DEFINE q == p \div n
           s == p % n
<1>1. q \in Int /\ s \in 0 .. n - 1 /\ p = n * q + s
  BY DivisionAndRemainder
<1>2. n * ((0 - 1) - q) = n * (0 - 1) - n * q
  BY <1>1, ProductOfDifference
<1>3. n * (0 - 1) = -n /\ n * q \in Int
  BY <1>1
<1> HIDE DEF q, s
<1>4. s - b = n * ((0 - 1) - q) + (p - b + n)
  BY <1>1, <1>2, <1>3
<1>5. s - b \in Int /\ (0 - 1) - q \in Int /\ p - b + n \in 0 .. n - 1
  BY <1>1
<1>6. (s - b) % n = p - b + n
  BY <1>4, <1>5, RemainderIsUnique
<1> QED
  BY <1>6 DEF s

\* A clock that starts again at n: while less than that goes by, the time since
\* b grows by what goes by.
LEMMA ClockGoesOn ==
    ASSUME NEW n \in Nat \ {0}, NEW a \in Int, NEW b \in Int, NEW d \in Nat,
           ((a - b) % n) + d < n
    PROVE  (((a + d) % n) - b) % n = ((a - b) % n) + d
<1> DEFINE q == (a + d) \div n
           s == (a + d) % n
           r == (a - b) \div n
           e == (a - b) % n
<1>1. q \in Int /\ s \in 0 .. n - 1 /\ a + d = n * q + s
  BY DivisionAndRemainder
<1>2. r \in Int /\ e \in 0 .. n - 1 /\ a - b = n * r + e
  BY DivisionAndRemainder
<1>3. e + d < n
  OBVIOUS
<1> HIDE DEF q, s, r, e
<1>4. n * (r - q) = n * r - n * q /\ n * r \in Int /\ n * q \in Int
  BY <1>1, <1>2, ProductOfDifference
<1>5. s - b = n * (r - q) + (e + d)
  BY <1>1, <1>2, <1>4
<1>6. s - b \in Int /\ r - q \in Int /\ e + d \in 0 .. n - 1
  BY <1>1, <1>2, <1>3
<1>7. (s - b) % n = e + d
  BY <1>5, <1>6, RemainderIsUnique
<1> QED
  BY <1>7 DEF s, e
=============================================================================
