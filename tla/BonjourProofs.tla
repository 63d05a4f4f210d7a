---------------------------- MODULE BonjourProofs ----------------------------
(***************************************************************************)
(* Proofs about Bonjour: that services stay known as long as run() is      *)
(* called often enough, that the callback for a name comes once, and that  *)
(* it tells what a packet answered, for all packets, services and names;   *)
(* and that questions are answered, if names are written as labels.        *)
(***************************************************************************)
EXTENDS Bonjour, Induction, SequenceTheorems

-----------------------------------------------------------------------------
(* The members of a sequence that are in a set *)

\* What Among has put together after each member.
Picks(r, s, T) ==
  /\ r[0] = <<>>
  /\ \A i \in 1 .. Len(s) : r[i] = IF s[i] \in T THEN Append(r[i - 1], s[i]) ELSE r[i - 1]

\* Among is the last of what it puts together, member by member.
LEMMA AmongRun ==
  ASSUME NEW A, NEW s \in Seq(A), NEW T
  PROVE  \E r \in [0 .. Len(s) -> Seq(A \cap T)] : Picks(r, s, T) /\ Among(s, T) = r[Len(s)]
<1> DEFINE n == Len(s)
           X == Seq(A \cap T)
           Pick(a, c) == IF c \in T THEN Append(a, c) ELSE a
           step == [p \in X \X A |-> Pick(p[1], p[2])]
           Eq(f) == f = [u \in SUBSET DOMAIN s |->
                           IF u = {} THEN <<>> ELSE Pick(f[u \ {Max(u)}], s[Max(u)])]
           it == CHOOSE f : Eq(f)
<1>1. n \in Nat /\ DOMAIN s = 1 .. n /\ s \in [1 .. n -> A]
  BY LenProperties
<1>2. Among(s, T) = it[DOMAIN s]
  BY Zenon DEF Among, FoldLeft, MapThenFoldSet
<1>3. <<>> \in X /\ \A a \in X, c \in A : Pick(a, c) \in X
  OBVIOUS
<1> HIDE DEF n, X, Pick
<1>4. step \in [X \X A -> X] /\ \A a \in X, c \in A : step[<<a, c>>] = Pick(a, c)
  BY <1>3
<1> HIDE DEF step
<1>5. \A u \in SUBSET (1 .. n) :
        u # {} => s[Max(u)] \in A /\ u \ {Max(u)} \in SUBSET (1 .. n)
  <2> SUFFICES ASSUME NEW u \in SUBSET (1 .. n), u # {}
               PROVE  s[Max(u)] \in A /\ u \ {Max(u)} \in SUBSET (1 .. n)
    OBVIOUS
  <2>1. Max(u) \in u
    BY <1>1, Greatest
  <2> QED BY <1>1, <2>1
<1>6. Eq(it)
  <2>1. PICK f \in [SUBSET (1 .. n) -> X] : IsFold(f, <<>>, step, s, n)
    BY <1>1, <1>3, <1>4, FoldExists
  <2>2. \A u \in SUBSET (1 .. n) :
          f[u] = IF u = {} THEN <<>> ELSE Pick(f[u \ {Max(u)}], s[Max(u)])
    BY <1>4, <1>5, <2>1 DEF IsFold
  <2>3. Eq(f)
    BY <1>1, <2>2
  <2> HIDE DEF Eq
  <2> QED BY <2>3
<1>7. /\ it[{}] = <<>>
      /\ \A u \in SUBSET (1 .. n) :
           u # {} => it[u] = Pick(it[u \ {Max(u)}], s[Max(u)])
  <2> HIDE DEF it
  <2> QED BY <1>1, <1>6
<1> HIDE DEF it
<1>8. IsFoldIn(it, X, <<>>, step, s, n)
  BY <1>4, <1>5, <1>7 DEF IsFoldIn
<1>9. PICK r \in [0 .. n -> X] : IsRun(r, <<>>, it[1 .. n], step, s, n)
  <2>1. \E r \in [0 .. n -> X] : IsRun(r, <<>>, it[1 .. n], step, s, n)
    BY <1>1, <1>3, <1>4, <1>8, FoldRun
  <2> QED BY <2>1
<1>10. ASSUME NEW i \in 1 .. n PROVE r[i] = Pick(r[i - 1], s[i])
  <2>1. i - 1 \in 0 .. n /\ s[i] \in A
    BY <1>1
  <2> QED BY <1>4, <1>9, <2>1 DEF IsRun
<1>11. Picks(r, s, T)
  BY <1>9, <1>10 DEF n, Pick, IsRun, Picks
<1>12. r[n] = it[DOMAIN s]
  BY <1>1, <1>9 DEF IsRun
<1> QED BY <1>2, <1>9, <1>11, <1>12 DEF n, X

\* Among leaves out what is not in the set, and nothing else.
LEMMA AmongMembers ==
  ASSUME NEW A, NEW s \in Seq(A), NEW T
  PROVE  Among(s, T) \in Seq(A \cap T) /\ ToSet(Among(s, T)) = ToSet(s) \cap T
<1> DEFINE n == Len(s)
<1>1. PICK r \in [0 .. n -> Seq(A \cap T)] : Picks(r, s, T) /\ Among(s, T) = r[n]
  BY AmongRun
<1>2. n \in Nat /\ DOMAIN s = 1 .. n /\ \A i \in 1 .. n : s[i] \in A
  BY LenProperties
<1> DEFINE P == {i \in 0 .. n : ToSet(r[i]) = {s[j] : j \in 1 .. i} \cap T}
<1> HIDE DEF n
<1>3. 0 \in P
  <2>1. 1 .. 0 = {} /\ ToSet(<<>>) = {}
    BY DEF ToSet
  <2> QED BY <1>1, <1>2, <2>1 DEF Picks
<1>4. ASSUME NEW i \in 0 .. n - 1, i \in P PROVE i + 1 \in P
  <2> DEFINE k == i + 1
             before == {s[j] : j \in 1 .. i}
  <2>1. k \in 1 .. n /\ k - 1 = i /\ i \in 0 .. n /\ k \in 0 .. n
    BY <1>2
  <2>2. {s[j] : j \in 1 .. k} = before \cup {s[k]}
    <3>1. 1 .. k = (1 .. i) \cup {k}
      BY <2>1
    <3> QED BY <3>1
  <2>3. ToSet(r[i]) = before \cap T /\ r[i] \in Seq(A \cap T)
    BY <1>4, <2>1
  <2> HIDE DEF k, before
  <2>4. r[k] = IF s[k] \in T THEN Append(r[i], s[k]) ELSE r[i]
    BY <1>1, <2>1 DEF Picks, n
  <2>5. CASE s[k] \in T
    <3>1. ToSet(Append(r[i], s[k])) = ToSet(r[i]) \cup {s[k]}
      <4> DEFINE a == r[i]
                 m == Len(a)
                 B == A \cap T
      <4>1. a \in Seq(B)
        BY <2>3
      <4> HIDE DEF a, B
      <4>2. m \in Nat /\ DOMAIN a = 1 .. m
        BY <4>1, LenProperties
      <4>3. /\ DOMAIN Append(a, s[k]) = 1 .. m + 1
            /\ \A j \in 1 .. m : Append(a, s[k])[j] = a[j]
            /\ Append(a, s[k])[m + 1] = s[k]
        BY <4>1, AppendProperties
      <4>4. 1 .. m + 1 = (1 .. m) \cup {m + 1}
        BY <4>2
      <4> HIDE DEF m
      <4>5. ToSet(Append(a, s[k])) = ToSet(a) \cup {s[k]}
        BY <4>2, <4>3, <4>4 DEF ToSet
      <4> QED BY <4>5 DEF a
    <3> QED BY <2>1, <2>2, <2>3, <2>4, <2>5, <3>1 DEF k
  <2>6. CASE s[k] \notin T
    BY <2>1, <2>2, <2>3, <2>4, <2>6 DEF k
  <2> QED BY <2>5, <2>6
<1> HIDE DEF P
<1>5. n \in P
  <2>1. \A i \in 0 .. n - 1 : i \in P => i + 1 \in P
    BY <1>4
  <2>2. 0 .. n \subseteq P
    BY <1>2, <1>3, <2>1, InductiveUpTo
  <2> QED BY <1>2, <2>2
<1>6. ToSet(r[n]) = {s[j] : j \in 1 .. n} \cap T /\ n \in 0 .. n
  BY <1>2, <1>5 DEF P
<1>7. {s[j] : j \in 1 .. n} = ToSet(s)
  BY <1>2 DEF ToSet
<1>8. r[n] \in Seq(A \cap T)
  BY <1>6
<1> QED BY <1>1, <1>6, <1>7, <1>8

-----------------------------------------------------------------------------
(* The device while it handles packets and timers *)

\* A device is a record of these five fields.
IsDevice(d) ==
  d = [query |-> d.query, sent |-> d.sent, told |-> d.told, found |-> d.found, begun |-> d.begun]

Clock == 0 .. ClockSpace - 1
QueryNames(i) == {<<>>} \cup {c.name : c \in {d \in Calls : d.i = i}}
Queries ==
  {q \in [{0, 1} -> [name : QueryNames(0) \cup QueryNames(1), timeout : Clock, last : Clock]] :
     \A i \in {0, 1} : q[i].name \in QueryNames(i)}

\* The messages a run may send: about a service, only that it is there, and only if
\* it is.
IsRegistered(s) == \E k \in Slots : serviceRecords[k] = s
Sendable ==
  {m \in [type : Messages, service : Services \cup {NoService},
          name : QueryNames(0) \cup QueryNames(1)] :
     m.service # NoService => m.type = "ServiceRecord" /\ IsRegistered(m.service)}

\* Those it sends without having been asked for them.
Unasked == {m \in Sendable : m.type \in {"NameQuery", "ServiceQuery", "ServiceRecord"}}
SaysMore(said, before) == \E ms \in Seq(Unasked) : said = before \o ms

\* An answer of the packet with this address, to the query for a name that was open.
IsAnswer(p, address) ==
  \E k \in DOMAIN p.answers :
    LET r == p.answers[k] IN
    /\ r.type = "A" /\ r.data.address = address
    /\ r.name.ptr # 0 \/ Unmatched(query[0].name, r.name.labels) = <<>>

ToldOf(address) == <<[name |-> BeforeLastDot(query[0].name), address |-> address]>>

\* The callback for a name has been called once, and then none is looked for any more,
\* or it has not been, and the name looked for is the same.
ToldOnce(d, p) ==
  \/ d.told = <<>> /\ d.query[0].name = query[0].name
  \/ /\ IsOpen(query[0]) /\ ~IsOpen(d.query[0])
     /\ \E a \in Nat : d.told = ToldOf(a) /\ (a # 0 => IsAnswer(p, a))

Typed(d) ==
  IsDevice(d) /\ d.query \in Queries /\ d.sent \in Seq(Sendable) /\ d.begun \subseteq {0, 1}

Handled(d, p) == Typed(d) /\ ToldOnce(d, p)

\* The constants of the clock and the calls.
LEMMA Sizes ==
  /\ ClockSpace \in Nat \ {0} /\ Clock \subseteq Nat /\ 0 \in Clock
  /\ \A a \in Int : a % ClockSpace \in Clock
  /\ NumMDNSServiceRecords \in Nat /\ Slots \subseteq Nat
  /\ MaxPause \in Nat /\ MaxCalls \in Nat /\ MDNS_RESPONSE_TTL \in Nat
<1>1. /\ ClockSpace \in Nat /\ NumMDNSServiceRecords \in Nat /\ MaxPause \in Nat
      /\ MaxCalls \in Nat /\ MDNS_RESPONSE_TTL \in Nat
  BY BonjourAssumption
<1>2. ClockSpace # 0
  BY <1>1, BonjourAssumption
<1>3. \A a \in Int : a % ClockSpace \in Clock
  BY <1>1, <1>2, DivisionAndRemainder DEF Clock
<1> QED BY <1>1, <1>2, <1>3 DEF Clock, Slots

\* What a call is made of.
LEMMA CallsTyped ==
  ASSUME NEW c \in Calls
  PROVE  c.i \in {0, 1} /\ c.name \in QueryNames(c.i) /\ c.timeout \in Nat
<1>1. Timeouts \subseteq Nat
  BY BonjourAssumption
<1>2. c.i \in {0, 1} /\ c.timeout \in Timeouts
  BY DEF Calls
<1> HIDE DEF Calls
<1> QED BY <1>1, <1>2 DEF QueryNames

\* A query that is begun or closed is of its type.
LEMMA QueryReplaced ==
  ASSUME NEW qs \in Queries, NEW i \in {0, 1}, NEW n \in QueryNames(i),
         NEW t \in Clock, NEW l \in Clock
  PROVE  [qs EXCEPT ![i] = [name |-> n, timeout |-> t, last |-> l]] \in Queries
<1> DEFINE N == QueryNames(0) \cup QueryNames(1)
           Q == [name : N, timeout : Clock, last : Clock]
<1>1. /\ qs \in [{0, 1} -> Q] /\ n \in N
      /\ \A j \in {0, 1} : qs[j].name \in QueryNames(j)
  BY DEF Queries
<1>2. \A q : q \in [{0, 1} -> Q] /\ (\A j \in {0, 1} : q[j].name \in QueryNames(j)) => q \in Queries
  BY DEF Queries
<1> HIDE DEF N
<1>3. [name |-> n, timeout |-> t, last |-> l] \in Q
  BY <1>1
<1> QED BY <1>1, <1>2, <1>3

\* One that is sent again keeps its name, and the other one is as it was.
LEMMA QueryRepeated ==
  ASSUME NEW qs \in Queries, NEW i \in {0, 1}, NEW l \in Clock
  PROVE  /\ [qs EXCEPT ![i].last = l] \in Queries
         /\ \A j \in {0, 1} : [qs EXCEPT ![i].last = l][j].name = qs[j].name
<1> DEFINE N == QueryNames(0) \cup QueryNames(1)
           Q == [name : N, timeout : Clock, last : Clock]
<1>1. qs \in [{0, 1} -> Q] /\ \A j \in {0, 1} : qs[j].name \in QueryNames(j)
  BY DEF Queries
<1>2. \A q : q \in [{0, 1} -> Q] /\ (\A j \in {0, 1} : q[j].name \in QueryNames(j)) => q \in Queries
  BY DEF Queries
<1> HIDE DEF N
<1>3. qs[i] \in Q /\ [qs[i] EXCEPT !.last = l] \in Q /\ [qs[i] EXCEPT !.last = l].name = qs[i].name
  BY <1>1
<1>4. \A j \in {0, 1} : [qs EXCEPT ![i].last = l][j].name = qs[j].name
  BY <1>1, <1>3
<1> QED BY <1>1, <1>2, <1>3, <1>4

\* What is asked for when a query is sent may be sent.
LEMMA QuerySendable ==
  ASSUME NEW i \in {0, 1}, NEW n \in QueryNames(i)
  PROVE  QueryFor(i, n) \in Sendable /\ QueryFor(i, n) \in Unasked
<1> DEFINE t == <<"NameQuery", "ServiceQuery">>[i + 1]
<1>1. QueryFor(i, n) = [type |-> t, service |-> NoService, name |-> n]
  BY DEF QueryFor, Message
<1>2. t \in {"NameQuery", "ServiceQuery"} /\ t \in Messages
  BY DEF Messages
<1> HIDE DEF t
<1>3. n \in QueryNames(0) \cup QueryNames(1)
  OBVIOUS
<1>4. QueryFor(i, n) \in Sendable
  BY <1>1, <1>2, <1>3 DEF Sendable
<1> QED BY <1>1, <1>2, <1>4 DEF Unasked

\* To say nothing, or more than more, is to say more.
LEMMA MoreIsMore ==
  /\ \A s \in Seq(Sendable) : SaysMore(s, s)
  /\ \A s \in Seq(Sendable) : \A t, u : SaysMore(t, s) /\ SaysMore(u, t) => SaysMore(u, s)
<1>1. Seq(Unasked) \subseteq Seq(Sendable)
  <2>1. Unasked \subseteq Sendable
    BY DEF Unasked
  <2> QED BY <2>1, SeqMonotonic
<1>2. ASSUME NEW s \in Seq(Sendable) PROVE SaysMore(s, s)
  <2>1. <<>> \in Seq(Unasked)
    BY EmptySeq
  <2>2. s \o <<>> = s
    BY ConcatEmptySeq
  <2> QED BY <2>1, <2>2 DEF SaysMore
<1>3. ASSUME NEW s \in Seq(Sendable), NEW t, NEW u, SaysMore(t, s), SaysMore(u, t)
      PROVE  SaysMore(u, s)
  <2>1. PICK a \in Seq(Unasked) : t = s \o a
    BY <1>3 DEF SaysMore
  <2>2. PICK b \in Seq(Unasked) : u = t \o b
    BY <1>3 DEF SaysMore
  <2>3. a \in Seq(Sendable) /\ b \in Seq(Sendable)
    BY <1>1
  <2>4. (s \o a) \o b = s \o (a \o b)
    <3> DEFINE S == Sendable
    <3> HIDE DEF S
    <3>1. s \in Seq(S) /\ a \in Seq(S) /\ b \in Seq(S)
      BY <2>3 DEF S
    <3> QED BY <3>1, ConcatAssociative
  <2>5. a \o b \in Seq(Unasked)
    BY ConcatProperties
  <2> QED BY <2>1, <2>2, <2>4, <2>5 DEF SaysMore
<1> QED BY <1>2, <1>3

\* Messages are sent.
LEMMA MessagesSent ==
  ASSUME NEW d, Typed(d), NEW ms \in Seq(Sendable)
  PROVE  /\ Typed(Sends(d, ms)) /\ Sends(d, ms).sent = d.sent \o ms
         /\ Sends(d, ms).query = d.query /\ Sends(d, ms).told = d.told
         /\ Sends(d, ms).found = d.found /\ Sends(d, ms).begun = d.begun
<1> DEFINE e == [query |-> d.query, sent |-> d.sent \o ms, told |-> d.told, found |-> d.found,
                 begun |-> d.begun]
<1>1. Sends(d, ms) = e
  <2> DEFINE q == d.query
             s == d.sent
             t == d.told
             f == d.found
             b == d.begun
             v == s \o ms
  <2>1. d = [query |-> q, sent |-> s, told |-> t, found |-> f, begun |-> b]
    BY DEF Typed, IsDevice
  <2>2. Sends(d, ms) = [d EXCEPT !.sent = v]
    BY DEF Sends
  <2> HIDE DEF q, s, t, f, b, v
  <2>3. [d EXCEPT !.sent = v] =
          [query |-> q, sent |-> v, told |-> t, found |-> f, begun |-> b]
    BY <2>1
  <2> QED BY <2>2, <2>3 DEF q, s, t, f, b, v
<1>2. d.sent \o ms \in Seq(Sendable)
  BY ConcatProperties DEF Typed
<1> QED BY <1>1, <1>2 DEF Typed, IsDevice

\* A query is sent, for the first time or again.
LEMMA QuerySent ==
  ASSUME NEW d, Typed(d), NEW i \in {0, 1}, NEW at \in Clock
  PROVE  /\ Typed(SendQuery(d, i, at))
         /\ SendQuery(d, i, at).told = d.told /\ SendQuery(d, i, at).found = d.found
         /\ SendQuery(d, i, at).begun = d.begun
         /\ SaysMore(SendQuery(d, i, at).sent, d.sent)
         /\ \A j \in {0, 1} : SendQuery(d, i, at).query[j].name = d.query[j].name
<1> DEFINE qs == d.query
           ms == <<QueryFor(i, d.query[i].name)>>
           s  == Sends(d, ms)
           q  == [qs EXCEPT ![i].last = at]
           e  == [query |-> q, sent |-> s.sent, told |-> d.told, found |-> d.found,
                  begun |-> d.begun]
<1>1. qs \in Queries /\ qs[i].name \in QueryNames(i)
  BY DEF Typed, Queries
<1>2. ms \in Seq(Sendable) /\ ms \in Seq(Unasked)
  BY <1>1, QuerySendable
<1> HIDE DEF qs, ms
<1>3. Typed(s) /\ s.query = d.query /\ s.told = d.told /\ s.found = d.found /\ s.begun = d.begun
  BY <1>2, MessagesSent
<1>6. SaysMore(s.sent, d.sent)
  <2>1. s.sent = d.sent \o ms
    BY <1>2, MessagesSent
  <2> QED BY <1>2, <2>1 DEF SaysMore
<1> HIDE DEF s
<1>4. [s EXCEPT !.query[i].last = at] = e
  <2> DEFINE t == s.sent
             x == d.told
             f == d.found
             b == d.begun
  <2>1. s = [query |-> s.query, sent |-> s.sent, told |-> s.told, found |-> s.found, begun |-> s.begun]
    BY <1>3 DEF Typed, IsDevice
  <2>2. s = [query |-> qs, sent |-> t, told |-> x, found |-> f, begun |-> b]
    BY <1>3, <2>1 DEF qs
  <2> HIDE DEF t, x, f, b
  <2>3. [s EXCEPT !.query[i].last = at] =
          [query |-> q, sent |-> t, told |-> x, found |-> f, begun |-> b]
    BY <2>2
  <2> QED BY <2>3 DEF t, x, f, b
<1>5. SendQuery(d, i, at) = e
  BY <1>4 DEF SendQuery, s, ms
<1>7. q \in Queries /\ \A j \in {0, 1} : q[j].name = qs[j].name
  BY <1>1, QueryRepeated
<1> HIDE DEF q
<1>8. /\ e.query = q /\ e.sent = s.sent /\ e.told = d.told /\ e.found = d.found
      /\ e.begun = d.begun /\ IsDevice(e)
  BY DEF IsDevice
<1> HIDE DEF e
<1>9. Typed(e)
  BY <1>3, <1>7, <1>8 DEF Typed
<1> QED BY <1>5, <1>6, <1>7, <1>8, <1>9 DEF qs

\* A query is begun by a call, if there is one.
LEMMA QueryBegun ==
  ASSUME NEW d, Typed(d), NEW c \in Calls \cup {NoCall}, NEW at \in Clock
  PROVE  /\ Typed(DoCall(d, c, at))
         /\ DoCall(d, c, at).told = d.told /\ DoCall(d, c, at).found = d.found
         /\ SaysMore(DoCall(d, c, at).sent, d.sent)
<1>1. CASE c = NoCall
  BY <1>1, MoreIsMore DEF DoCall, Typed
<1>2. CASE c # NoCall
  <2>1. c \in Calls /\ DoCall(d, c, at) = initQuery(d, c.i, c.name, c.timeout, at)
    BY <1>2 DEF DoCall
  <2>2. c.i \in {0, 1} /\ c.name \in QueryNames(c.i) /\ c.timeout \in Nat
    BY <2>1, CallsTyped
  <2> DEFINE i == c.i
             n == c.name
             t == c.timeout
             deadline == IF t = 0 THEN 0 ELSE (at + t) % ClockSpace
             one == [name |-> n, timeout |-> deadline, last |-> at]
             qs == d.query
             q == [qs EXCEPT ![i] = one]
             e == [query |-> q, sent |-> d.sent, told |-> d.told, found |-> d.found,
                   begun |-> d.begun \cup {i}]
  <2> HIDE DEF i, n, t
  <2>3. i \in {0, 1} /\ n \in QueryNames(i) /\ t \in Nat
    BY <2>2 DEF i, n, t
  <2>4. deadline \in Clock
    <3>1. at + t \in Int /\ 0 \in Clock
      BY <2>3, Sizes
    <3> QED BY <3>1, Sizes
  <2> HIDE DEF deadline
  <2>5. [d EXCEPT !.query[i] = one, !.begun = @ \cup {i}] = e
    <3> DEFINE s == d.sent
               u == d.told
               f == d.found
               b == d.begun
               v == b \cup {i}
    <3>1. d = [query |-> qs, sent |-> s, told |-> u, found |-> f, begun |-> b]
      BY DEF Typed, IsDevice
    <3> HIDE DEF qs, s, u, f, b, one, v
    <3>2. [d EXCEPT !.query[i] = one, !.begun = v] =
            [query |-> q, sent |-> s, told |-> u, found |-> f, begun |-> v]
      <4>1. d.query = qs
        BY <3>1
      <4>2. [d EXCEPT !.query = q, !.begun = v] =
              [query |-> q, sent |-> s, told |-> u, found |-> f, begun |-> v]
        <5> DEFINE a == [d EXCEPT !.query = q]
        <5>1. [d EXCEPT !.query = q, !.begun = v] = [a EXCEPT !.begun = v]
          OBVIOUS
        <5> HIDE DEF q
        <5>2. a = [query |-> q, sent |-> s, told |-> u, found |-> f, begun |-> b]
          BY <3>1
        <5> HIDE DEF a
        <5>3. [a EXCEPT !.begun = v] =
                [query |-> q, sent |-> s, told |-> u, found |-> f, begun |-> v]
          BY <5>2
        <5> QED BY <5>1, <5>3
      <4>3. [d EXCEPT !.query[i] = one, !.begun = v] = [d EXCEPT !.query = q, !.begun = v]
        BY <4>1
      <4> QED BY <4>2, <4>3
    <3> QED BY <3>2 DEF qs, s, u, f, b, v
  <2>6. initQuery(d, i, n, t, at) = SendQuery(e, i, at)
    BY <2>5 DEF initQuery, deadline
  <2>7. qs \in Queries
    BY DEF Typed
  <2> HIDE DEF qs
  <2>8. q \in Queries
    BY <2>3, <2>4, <2>7, QueryReplaced
  <2> HIDE DEF q
  <2>9. /\ e.query = q /\ e.sent = d.sent /\ e.told = d.told /\ e.found = d.found
        /\ e.begun = d.begun \cup {i} /\ IsDevice(e)
    BY DEF IsDevice
  <2> HIDE DEF e
  <2>10. Typed(e)
    BY <2>3, <2>8, <2>9 DEF Typed
  <2>11. /\ Typed(SendQuery(e, i, at)) /\ SendQuery(e, i, at).told = e.told
         /\ SendQuery(e, i, at).found = e.found /\ SaysMore(SendQuery(e, i, at).sent, e.sent)
    BY <2>3, <2>10, QuerySent
  <2> QED BY <2>1, <2>6, <2>9, <2>11 DEF i, n, t
<1> QED BY <1>1, <1>2

\* A query is closed.
LEMMA QueryCancelled ==
  ASSUME NEW d, Typed(d), NEW i \in {0, 1}
  PROVE  /\ Typed(cancelQuery(d, i))
         /\ cancelQuery(d, i).told = d.told /\ cancelQuery(d, i).found = d.found
         /\ cancelQuery(d, i).sent = d.sent
         /\ ~IsOpen(cancelQuery(d, i).query[i])
         /\ \A j \in {0, 1} \ {i} : cancelQuery(d, i).query[j] = d.query[j]
<1> DEFINE qs == d.query
           q == [qs EXCEPT ![i] = Closed]
           e == [query |-> q, sent |-> d.sent, told |-> d.told, found |-> d.found,
                 begun |-> d.begun]
<1>1. cancelQuery(d, i) = e
  BY DEF cancelQuery, Typed, IsDevice
<1>2. qs \in Queries /\ <<>> \in QueryNames(i) /\ 0 \in Clock
  BY Sizes DEF Typed, QueryNames
<1>3. DOMAIN qs = {0, 1}
  BY <1>2 DEF Queries
<1> HIDE DEF qs
<1>4. q \in Queries
  BY <1>2, QueryReplaced DEF Closed
<1>5. q[i] = Closed /\ \A j \in {0, 1} \ {i} : q[j] = qs[j]
  BY <1>3
<1> HIDE DEF q
<1>6. /\ e.query = q /\ e.sent = d.sent /\ e.told = d.told /\ e.found = d.found
      /\ e.begun = d.begun /\ IsDevice(e)
  BY DEF IsDevice
<1> HIDE DEF e
<1>7. Typed(e)
  BY <1>4, <1>6 DEF Typed
<1>8. ~IsOpen(Closed)
  BY DEF Closed, IsOpen
<1> QED BY <1>1, <1>5, <1>6, <1>7, <1>8 DEF qs

\* The callback for a name: it tells of the name that was looked for, and no name is
\* looked for any more.
LEMMA NameTold ==
  ASSUME NEW d, Typed(d), d.told = <<>>, d.query[0].name = query[0].name, IsOpen(d.query[0]),
         NEW p, NEW a \in Nat, a # 0 => IsAnswer(p, a),
         NEW c \in Calls \cup {NoCall}, NEW at \in Clock
  PROVE  /\ Handled(finishedResolvingName(d, a, c, at), p)
         /\ finishedResolvingName(d, a, c, at).found = d.found
         /\ finishedResolvingName(d, a, c, at).told # <<>>
         /\ SaysMore(finishedResolvingName(d, a, c, at).sent, d.sent)
<1> DEFINE e == [query |-> d.query, sent |-> d.sent, told |-> ToldOf(a), found |-> d.found,
                 begun |-> d.begun]
           f == DoCall(e, c, at)
           g == cancelQuery(f, 0)
<1>1. [d EXCEPT !.told = Append(@, [name |-> BeforeLastDot(d.query[0].name), address |-> a])] = e
  BY DEF Typed, IsDevice, ToldOf
<1>2. finishedResolvingName(d, a, c, at) = g
  BY <1>1 DEF finishedResolvingName
<1>3. Typed(e) /\ e.told = ToldOf(a) /\ e.found = d.found /\ e.sent = d.sent
  BY DEF Typed, IsDevice
<1> HIDE DEF e
<1>4. Typed(f) /\ f.told = e.told /\ f.found = e.found /\ SaysMore(f.sent, e.sent)
  BY <1>3, QueryBegun
<1> HIDE DEF f
<1>5. Typed(g) /\ g.told = f.told /\ g.found = f.found /\ g.sent = f.sent /\ ~IsOpen(g.query[0])
  BY <1>4, QueryCancelled
<1> HIDE DEF g
<1>6. IsOpen(query[0])
  BY DEF IsOpen
<1>7. ToldOnce(g, p)
  BY <1>3, <1>4, <1>5, <1>6 DEF ToldOnce
<1>8. ToldOf(a) # <<>>
  BY DEF ToldOf
<1> QED BY <1>2, <1>3, <1>4, <1>5, <1>7, <1>8 DEF Handled

-----------------------------------------------------------------------------
(* The records of a packet *)

Tolds == {<<>>} \cup {ToldOf(a) : a \in Nat}
Devices(p) ==
  {d \in [query : Queries, sent : Seq(Sendable), told : Tolds, found : {<<>>},
          begun : SUBSET {0, 1}] : Handled(d, p) /\ d.sent \in Seq(Unasked)}

\* The services found in a packet, and the addresses.
FoundServices(p) ==
  [name : {ptrName(p.answers[k].data.name) : k \in DOMAIN p.answers}, at : Nat, port : Nat,
   ip : Nat, text : Seq(STRING)]
FoundAddresses == [at : Nat, address : Nat]

\* What is known after some of the records; a name that has been told was found.
Handling(p) ==
  {st \in [dev : Devices(p), servNamePos : [{0, 1} -> Nat], recordsFound : SUBSET {0, 1},
           ptrs : Seq(FoundServices(p)), ips : Seq(FoundAddresses)] :
     st.dev.told = <<>> => 0 \notin st.recordsFound}

\* A device that has reported no service and answered no question yet is one of these.
LEMMA IsInDevices ==
  ASSUME NEW p, NEW d, Handled(d, p), d.found = <<>>, d.sent \in Seq(Unasked)
  PROVE  d \in Devices(p)
<1>1. d.told \in Tolds
  BY DEF Handled, ToldOnce, Tolds
<1> DEFINE q == d.query
           s == d.sent
           t == d.told
           f == d.found
           b == d.begun
<1>2. d = [query |-> q, sent |-> s, told |-> t, found |-> f, begun |-> b]
  BY DEF Handled, Typed, IsDevice
<1>3. q \in Queries /\ s \in Seq(Sendable) /\ t \in Tolds /\ f \in {<<>>} /\ b \in SUBSET {0, 1}
  BY <1>1 DEF Handled, Typed
<1> HIDE DEF q, s, t, f, b
<1>4. d \in [query : Queries, sent : Seq(Sendable), told : Tolds, found : {<<>>},
             begun : SUBSET {0, 1}]
  BY <1>2, <1>3
<1> QED BY <1>4 DEF Devices

\* The first record that answers the query for a name spells it, or ends in a pointer.
LEMMA FirstAnswer ==
  ASSUME NEW st, NEW r, Answers(st, 0, r), 0 \notin st.recordsFound
  PROVE  r.name.ptr # 0 \/ Unmatched(st.dev.query[0].name, r.name.labels) = <<>>
BY DEF Answers

\* Only a query that is open is answered.
LEMMA AnswersOpen ==
  ASSUME NEW st, NEW j, NEW r, Answers(st, j, r)
  PROVE  IsOpen(st.dev.query[j])
BY DEF Answers, IsOpen

\* The fields of what is known, one by one.
LEMMA HandlingFields ==
  ASSUME NEW p, NEW st
  PROVE  st \in Handling(p) <=>
           \E d \in Devices(p), q \in [{0, 1} -> Nat], f \in SUBSET {0, 1},
              s \in Seq(FoundServices(p)), a \in Seq(FoundAddresses) :
             /\ st = [dev |-> d, servNamePos |-> q, recordsFound |-> f, ptrs |-> s, ips |-> a]
             /\ d.told = <<>> => 0 \notin f
<1> DEFINE D == Devices(p)
           S == Seq(FoundServices(p))
           A == Seq(FoundAddresses)
           T == [dev : D, servNamePos : [{0, 1} -> Nat], recordsFound : SUBSET {0, 1},
                 ptrs : S, ips : A]
<1>1. st \in Handling(p) <=> st \in T /\ (st.dev.told = <<>> => 0 \notin st.recordsFound)
  BY DEF Handling
<1> HIDE DEF D, S, A
<1>2. ASSUME st \in T, st.dev.told = <<>> => 0 \notin st.recordsFound
      PROVE  \E d \in D, q \in [{0, 1} -> Nat], f \in SUBSET {0, 1}, s \in S, a \in A :
               /\ st = [dev |-> d, servNamePos |-> q, recordsFound |-> f, ptrs |-> s, ips |-> a]
               /\ d.told = <<>> => 0 \notin f
  BY <1>2
<1>3. ASSUME NEW d \in D, NEW q \in [{0, 1} -> Nat], NEW f \in SUBSET {0, 1}, NEW s \in S,
             NEW a \in A, d.told = <<>> => 0 \notin f,
             st = [dev |-> d, servNamePos |-> q, recordsFound |-> f, ptrs |-> s, ips |-> a]
      PROVE  st \in T /\ (st.dev.told = <<>> => 0 \notin st.recordsFound)
  BY <1>3
<1> QED BY <1>1, <1>2, <1>3 DEF D, S, A

\* One answer.
LEMMA AnswerHandled ==
  ASSUME NEW p \in MDNSPackets, NEW st \in Handling(p), NEW k \in DOMAIN p.answers, NEW i \in Nat,
         NEW c \in Calls \cup {NoCall}, NEW at \in Clock, NEW junk \in Nat
  PROVE  HandleAnswer(st, p.answers[k], i, c, at, junk) \in Handling(p)
<1> DEFINE r == p.answers[k]
           byName   == Answers(st, 0, r) /\ r.type = "A"
           Place(j) == IF st.servNamePos[j] # 0 THEN st.servNamePos[j]
                       ELSE IF j = 1 /\ byName THEN SkewedPos(i) ELSE NamePos(i)
           place    == [j \in {0, 1} |-> Place(j)]
           placed   == [st EXCEPT !.servNamePos = place]
           byService == Answers(st, 1, r) /\ r.type = "PTR"
<1>1. PICK d \in Devices(p), q \in [{0, 1} -> Nat], f \in SUBSET {0, 1},
           s \in Seq(FoundServices(p)), a \in Seq(FoundAddresses) :
        /\ st = [dev |-> d, servNamePos |-> q, recordsFound |-> f, ptrs |-> s, ips |-> a]
        /\ d.told = <<>> => 0 \notin f
  BY HandlingFields
<1>2. r \in Records
  <2>1. p.answers \in Seq(Records)
    BY DEF MDNSPackets
  <2> QED BY <2>1
<1>3. r.data.address \in Nat
  BY <1>2 DEF Records
<1>4. place \in [{0, 1} -> Nat]
  <2>1. NamePos(i) \in Nat /\ SkewedPos(i) \in Nat /\ \A j \in {0, 1} : st.servNamePos[j] \in Nat
    BY <1>1 DEF NamePos, SkewedPos
  <2> HIDE DEF byName
  <2> QED BY <2>1
<1>5. HandleAnswer(st, r, i, c, at, junk) =
        IF byName
        THEN [placed EXCEPT !.recordsFound = @ \union {0},
                            !.dev = finishedResolvingName(@, r.data.address, c, at)]
        ELSE IF byService
        THEN HandlePTR([placed EXCEPT !.recordsFound = @ \union {1}], r, i, junk)
        ELSE placed
  BY DEF HandleAnswer
<1> HIDE DEF place
<1>6. placed = [dev |-> d, servNamePos |-> place, recordsFound |-> f, ptrs |-> s, ips |-> a]
  BY <1>1
<1>7. CASE byName
  <2> DEFINE e == finishedResolvingName(d, r.data.address, c, at)
             g == f \cup {0}
  <2>1. IsOpen(d.query[0])
    BY <1>1, <1>7, AnswersOpen
  <2>2. Handled(d, p) /\ d.found = <<>> /\ d.sent \in Seq(Unasked)
    BY DEF Devices
  <2>3. d.told = <<>> /\ d.query[0].name = query[0].name
    BY <2>1, <2>2 DEF Handled, ToldOnce
  <2>4. r.name.ptr # 0 \/ Unmatched(query[0].name, r.name.labels) = <<>>
    BY <1>1, <1>7, <2>3, FirstAnswer
  <2>5. IsAnswer(p, r.data.address)
    BY <1>7, <2>4 DEF IsAnswer
  <2>6. Handled(e, p) /\ e.found = <<>> /\ e.told # <<>> /\ SaysMore(e.sent, d.sent)
    BY <1>3, <2>1, <2>2, <2>3, <2>5, NameTold DEF Handled
  <2>7. e \in Devices(p)
    <3>1. e.sent \in Seq(Unasked)
      BY <2>2, <2>6, ConcatProperties DEF SaysMore
    <3> QED BY <2>6, <3>1, IsInDevices
  <2>8. placed.dev = d /\ placed.recordsFound = f
    BY <1>6
  <2>9. HandleAnswer(st, r, i, c, at, junk)
          = [placed EXCEPT !.recordsFound = g, !.dev = e]
    <3> HIDE DEF byName, placed
    <3> QED BY <1>5, <1>7, <2>8, SMTT(20)
  <2>10. g \in SUBSET {0, 1}
    OBVIOUS
  <2> HIDE DEF e, g, placed
  <2>11. HandleAnswer(st, r, i, c, at, junk) =
           [dev |-> e, servNamePos |-> place, recordsFound |-> g, ptrs |-> s, ips |-> a]
    BY <1>6, <2>9
  <2>12. e.told = <<>> => 0 \notin g
    BY <2>6
  <2> HIDE DEF byName
  <2> QED BY <1>4, <2>7, <2>10, <2>11, <2>12, HandlingFields
<1>8. CASE ~byName /\ byService
  <2> DEFINE g == f \cup {1}
             h == [placed EXCEPT !.recordsFound = g]
             one == [name |-> ptrName(r.data.name), at |-> DataPos(i), port |-> junk,
                     ip |-> junk, text |-> <<>>]
             t == Append(s, one)
  <2>1. HandleAnswer(st, r, i, c, at, junk) = HandlePTR(h, r, i, junk)
    BY <1>5, <1>6, <1>8
  <2>2. g \in SUBSET {0, 1} /\ (d.told = <<>> => 0 \notin g)
    BY <1>1
  <2> HIDE DEF g, placed
  <2>3. h = [dev |-> d, servNamePos |-> place, recordsFound |-> g, ptrs |-> s, ips |-> a]
    BY <1>6
  <2> HIDE DEF h
  <2>4. h \in Handling(p)
    BY <1>4, <2>2, <2>3, HandlingFields
  <2>5. one \in FoundServices(p)
    <3>1. ptrName(r.data.name) \in {ptrName(p.answers[l].data.name) : l \in DOMAIN p.answers}
      OBVIOUS
    <3>2. DataPos(i) \in Nat /\ <<>> \in Seq(STRING)
      BY DEF DataPos
    <3> QED BY <3>1, <3>2 DEF FoundServices
  <2>6. t \in Seq(FoundServices(p))
    <3> HIDE DEF one
    <3> QED BY <2>5, AppendProperties
  <2>7. HandlePTR(h, r, i, junk) \in {h, [h EXCEPT !.ptrs = t]}
    BY <2>3 DEF HandlePTR
  <2> HIDE DEF t
  <2>8. [h EXCEPT !.ptrs = t] =
          [dev |-> d, servNamePos |-> place, recordsFound |-> g, ptrs |-> t, ips |-> a]
    BY <2>3
  <2>9. [h EXCEPT !.ptrs = t] \in Handling(p)
    BY <1>4, <2>2, <2>6, <2>8, HandlingFields
  <2> QED BY <2>1, <2>4, <2>7, <2>9
<1>9. CASE ~byName /\ ~byService
  BY <1>1, <1>4, <1>5, <1>6, <1>9, HandlingFields
<1> QED BY <1>7, <1>8, <1>9

\* One additional record.
LEMMA AdditionalHandled ==
  ASSUME NEW p, NEW st \in Handling(p), NEW r \in Records, NEW i \in Nat
  PROVE  HandleAdditional(st, r, i) \in Handling(p)
<1> DEFINE ks == {k \in DOMAIN st.ptrs : Describes(st.ptrs[k], r, i)}
           k == Min(ks)
           target == r.data.name
           first == IF r.name.labels # <<>> THEN NamePos(i) ELSE r.name.ptr
           ip == IF target.labels = <<>> THEN target.ptr ELSE TargetPos(i)
<1>1. PICK d \in Devices(p), q \in [{0, 1} -> Nat], f \in SUBSET {0, 1},
           s \in Seq(FoundServices(p)), a \in Seq(FoundAddresses) :
        /\ st = [dev |-> d, servNamePos |-> q, recordsFound |-> f, ptrs |-> s, ips |-> a]
        /\ d.told = <<>> => 0 \notin f
  BY HandlingFields
<1>2. first \in Nat /\ ip \in Nat
  <2>1. NamePos(i) \in Nat /\ TargetPos(i) \in Nat
    BY DEF NamePos, TargetPos
  <2>2. r.name.ptr \in Nat /\ target.ptr \in Nat
    BY DEF Records, Names
  <2> HIDE DEF target
  <2> QED BY <2>1, <2>2
<1>3. r.data.port \in Nat /\ r.data.address \in Nat /\ r.data.text \in Seq(STRING)
  BY DEF Records
<1> DEFINE typed == r.type = "SRV" /\ ks # {}
           text == r.type = "TXT" /\ ks # {}
           address == r.type = "A" /\ Len(st.ips) < MDNS_MAX_SERVICES_PER_PACKET
<1>4. HandleAdditional(st, r, i) =
        CASE typed -> [st EXCEPT !.ptrs[k].port = r.data.port, !.ptrs[k].ip = ip]
          [] text -> [st EXCEPT !.ptrs[k].text = IF @ = <<>> THEN r.data.text ELSE @]
          [] address -> [st EXCEPT !.ips = Append(@, [at |-> first, address |-> r.data.address])]
          [] OTHER -> st
  BY DEF HandleAdditional
<1>5. ks \subseteq DOMAIN s
  BY <1>1
<1>6. ks # {} => k \in DOMAIN s
  <2> SUFFICES ASSUME ks # {} PROVE k \in DOMAIN s
    OBVIOUS
  <2>1. ks \subseteq Nat
    BY <1>1, <1>5
  <2> HIDE DEF ks
  <2>2. \E x \in ks : \A y \in ks : x <= y
    BY <2>1, LeastNatural
  <2>3. k \in ks
    BY <2>2 DEF Min
  <2> QED BY <1>5, <2>3
<1> HIDE DEF ks, k, first, ip
<1>7. ASSUME NEW t \in Seq(FoundServices(p))
      PROVE  [st EXCEPT !.ptrs = t] \in Handling(p)
  <2>1. [st EXCEPT !.ptrs = t] =
          [dev |-> d, servNamePos |-> q, recordsFound |-> f, ptrs |-> t, ips |-> a]
    BY <1>1
  <2> QED BY <1>1, <2>1, HandlingFields
<1>8. ASSUME NEW one \in FoundServices(p), k \in DOMAIN s
      PROVE  [s EXCEPT ![k] = one] \in Seq(FoundServices(p))
  BY <1>8, ExceptSeq
<1>9. CASE typed
  <2>1. s[k] \in FoundServices(p) /\ k \in DOMAIN s
    BY <1>6, <1>9
  <2> DEFINE one == [s[k] EXCEPT !.port = r.data.port, !.ip = ip]
             t == [s EXCEPT ![k] = one]
  <2>2. one \in FoundServices(p)
    BY <1>2, <1>3, <2>1 DEF FoundServices
  <2>3. [st EXCEPT !.ptrs[k].port = r.data.port, !.ptrs[k].ip = ip] = [st EXCEPT !.ptrs = t]
    BY <1>1, <2>1
  <2>4. t \in Seq(FoundServices(p))
    <3> HIDE DEF one
    <3> QED BY <1>8, <2>1, <2>2
  <2> HIDE DEF t
  <2>5. [st EXCEPT !.ptrs = t] \in Handling(p)
    BY <1>7, <2>4
  <2> QED BY <1>4, <1>9, <2>3, <2>5
<1>10. CASE ~typed /\ text
  <2>1. s[k] \in FoundServices(p) /\ k \in DOMAIN s
    BY <1>6, <1>10
  <2> DEFINE one == [s[k] EXCEPT !.text = IF @ = <<>> THEN r.data.text ELSE @]
             t == [s EXCEPT ![k] = one]
  <2>2. one \in FoundServices(p)
    BY <1>3, <2>1 DEF FoundServices
  <2>3. [st EXCEPT !.ptrs[k].text = IF @ = <<>> THEN r.data.text ELSE @] = [st EXCEPT !.ptrs = t]
    BY <1>1, <2>1
  <2>4. t \in Seq(FoundServices(p))
    <3> HIDE DEF one
    <3> QED BY <1>8, <2>1, <2>2
  <2> HIDE DEF t
  <2>5. [st EXCEPT !.ptrs = t] \in Handling(p)
    BY <1>7, <2>4
  <2> QED BY <1>4, <1>10, <2>3, <2>5
<1>11. CASE ~typed /\ ~text /\ address
  <2> DEFINE one == [at |-> first, address |-> r.data.address]
             b == Append(a, one)
  <2>1. one \in FoundAddresses
    BY <1>2, <1>3 DEF FoundAddresses
  <2>2. b \in Seq(FoundAddresses)
    <3> HIDE DEF one
    <3> QED BY <2>1, AppendProperties
  <2>3. [st EXCEPT !.ips = Append(@, one)] = [st EXCEPT !.ips = b]
    BY <1>1
  <2> HIDE DEF b
  <2>4. [st EXCEPT !.ips = b] =
          [dev |-> d, servNamePos |-> q, recordsFound |-> f, ptrs |-> s, ips |-> b]
    BY <1>1
  <2>5. [st EXCEPT !.ips = b] \in Handling(p)
    BY <1>1, <2>2, <2>4, HandlingFields
  <2> QED BY <1>4, <1>11, <2>3, <2>5
<1>12. CASE ~typed /\ ~text /\ ~address
  BY <1>4, <1>12
<1> QED BY <1>9, <1>10, <1>11, <1>12

\* The answers in turn.
LEMMA AnswersHandled ==
  ASSUME NEW p \in MDNSPackets, NEW start \in Handling(p), NEW before \in Nat,
         NEW c \in Calls \cup {NoCall}, NEW at \in Clock, NEW junk \in Nat
  PROVE  FoldLeftDomain(LAMBDA st, i : HandleAnswer(st, p.answers[i], before + i, c, at, junk),
                        start, p.answers) \in Handling(p)
<1> DEFINE s == [i \in DOMAIN p.answers |-> i]
           n == Len(p.answers)
           X == Handling(p)
           T == 1 .. n
           H(st, i) == HandleAnswer(st, p.answers[i], before + i, c, at, junk)
           step == [x \in X \X T |-> H(x[1], x[2])]
           Eq(f) == f = [u \in SUBSET DOMAIN s |->
                           IF u = {} THEN start ELSE H(f[u \ {Max(u)}], s[Max(u)])]
           it == CHOOSE f : Eq(f)
<1>1. n \in Nat /\ DOMAIN p.answers = 1 .. n
  <2>1. p.answers \in Seq(Records)
    BY DEF MDNSPackets
  <2> QED BY <2>1, LenProperties
<1>2. FoldLeftDomain(LAMBDA st, i : HandleAnswer(st, p.answers[i], before + i, c, at, junk),
                     start, p.answers) = it[DOMAIN s]
  BY Zenon DEF FoldLeftDomain, FoldLeft, MapThenFoldSet
<1>3. \A x \in X, i \in T : H(x, i) \in X
  <2> SUFFICES ASSUME NEW x \in X, NEW i \in T PROVE H(x, i) \in X
    OBVIOUS
  <2>1. i \in DOMAIN p.answers /\ before + i \in Nat
    BY <1>1
  <2> QED BY <2>1, AnswerHandled
<1>4. DOMAIN s = 1 .. n /\ s \in [1 .. n -> T]
  BY <1>1
<1> HIDE DEF s, n, X, T, H
<1>5. step \in [X \X T -> X] /\ \A x \in X, i \in T : step[<<x, i>>] = H(x, i)
  BY <1>3
<1> HIDE DEF step
<1>6. \A u \in SUBSET (1 .. n) :
        u # {} => s[Max(u)] \in T /\ u \ {Max(u)} \in SUBSET (1 .. n)
  <2> SUFFICES ASSUME NEW u \in SUBSET (1 .. n), u # {}
               PROVE  s[Max(u)] \in T /\ u \ {Max(u)} \in SUBSET (1 .. n)
    OBVIOUS
  <2>1. Max(u) \in u
    BY <1>1, Greatest
  <2> QED BY <1>4, <2>1
<1>7. start \in X
  BY DEF X
<1>8. Eq(it)
  <2>1. PICK f \in [SUBSET (1 .. n) -> X] : IsFold(f, start, step, s, n)
    BY <1>1, <1>4, <1>5, <1>7, FoldExists
  <2>2. \A u \in SUBSET (1 .. n) :
          f[u] = IF u = {} THEN start ELSE H(f[u \ {Max(u)}], s[Max(u)])
    BY <1>5, <1>6, <2>1 DEF IsFold
  <2>3. Eq(f)
    BY <1>4, <2>2
  <2> HIDE DEF Eq
  <2> QED BY <2>3
<1>9. /\ it[{}] = start
      /\ \A u \in SUBSET (1 .. n) :
           u # {} => it[u] = H(it[u \ {Max(u)}], s[Max(u)])
  <2> HIDE DEF it
  <2> QED BY <1>4, <1>8
<1> HIDE DEF it
<1>10. IsFoldIn(it, X, start, step, s, n)
  BY <1>5, <1>6, <1>9 DEF IsFoldIn
<1>11. PICK r \in [0 .. n -> X] : IsRun(r, start, it[1 .. n], step, s, n)
  <2>1. \E r \in [0 .. n -> X] : IsRun(r, start, it[1 .. n], step, s, n)
    BY <1>1, <1>4, <1>5, <1>7, <1>10, FoldRun
  <2> QED BY <2>1
<1>12. it[1 .. n] \in X
  BY <1>1, <1>11 DEF IsRun
<1> QED BY <1>2, <1>4, <1>12 DEF X

\* The additional records in turn.
LEMMA AdditionalsHandled ==
  ASSUME NEW p \in MDNSPackets, NEW start \in Handling(p), NEW after \in Nat
  PROVE  FoldLeftDomain(LAMBDA st, i : HandleAdditional(st, p.additional[i], after + i), start,
                        p.additional) \in Handling(p)
<1> DEFINE s == [i \in DOMAIN p.additional |-> i]
           n == Len(p.additional)
           X == Handling(p)
           T == 1 .. n
           H(st, i) == HandleAdditional(st, p.additional[i], after + i)
           step == [x \in X \X T |-> H(x[1], x[2])]
           Eq(f) == f = [u \in SUBSET DOMAIN s |->
                           IF u = {} THEN start ELSE H(f[u \ {Max(u)}], s[Max(u)])]
           it == CHOOSE f : Eq(f)
<1>1. n \in Nat /\ DOMAIN p.additional = 1 .. n
  <2>1. p.additional \in Seq(Records)
    BY DEF MDNSPackets
  <2> QED BY <2>1, LenProperties
<1>2. FoldLeftDomain(LAMBDA st, i : HandleAdditional(st, p.additional[i], after + i), start,
                     p.additional) = it[DOMAIN s]
  BY Zenon DEF FoldLeftDomain, FoldLeft, MapThenFoldSet
<1>3. \A x \in X, i \in T : H(x, i) \in X
  <2> SUFFICES ASSUME NEW x \in X, NEW i \in T PROVE H(x, i) \in X
    OBVIOUS
  <2>1. p.additional[i] \in Records /\ after + i \in Nat
    <3>1. p.additional \in Seq(Records)
      BY DEF MDNSPackets
    <3>2. i \in 1 .. n
      OBVIOUS
    <3> QED BY <1>1, <3>1, <3>2
  <2> QED BY <2>1, AdditionalHandled
<1>4. DOMAIN s = 1 .. n /\ s \in [1 .. n -> T]
  BY <1>1
<1> HIDE DEF s, n, X, T, H
<1>5. step \in [X \X T -> X] /\ \A x \in X, i \in T : step[<<x, i>>] = H(x, i)
  BY <1>3
<1> HIDE DEF step
<1>6. \A u \in SUBSET (1 .. n) :
        u # {} => s[Max(u)] \in T /\ u \ {Max(u)} \in SUBSET (1 .. n)
  <2> SUFFICES ASSUME NEW u \in SUBSET (1 .. n), u # {}
               PROVE  s[Max(u)] \in T /\ u \ {Max(u)} \in SUBSET (1 .. n)
    OBVIOUS
  <2>1. Max(u) \in u
    BY <1>1, Greatest
  <2> QED BY <1>4, <2>1
<1>7. start \in X
  BY DEF X
<1>8. Eq(it)
  <2>1. PICK f \in [SUBSET (1 .. n) -> X] : IsFold(f, start, step, s, n)
    BY <1>1, <1>4, <1>5, <1>7, FoldExists
  <2>2. \A u \in SUBSET (1 .. n) :
          f[u] = IF u = {} THEN start ELSE H(f[u \ {Max(u)}], s[Max(u)])
    BY <1>5, <1>6, <2>1 DEF IsFold
  <2>3. Eq(f)
    BY <1>4, <2>2
  <2> HIDE DEF Eq
  <2> QED BY <2>3
<1>9. /\ it[{}] = start
      /\ \A u \in SUBSET (1 .. n) :
           u # {} => it[u] = H(it[u \ {Max(u)}], s[Max(u)])
  <2> HIDE DEF it
  <2> QED BY <1>4, <1>8
<1> HIDE DEF it
<1>10. IsFoldIn(it, X, start, step, s, n)
  BY <1>5, <1>6, <1>9 DEF IsFoldIn
<1>11. PICK r \in [0 .. n -> X] : IsRun(r, start, it[1 .. n], step, s, n)
  <2>1. \E r \in [0 .. n -> X] : IsRun(r, start, it[1 .. n], step, s, n)
    BY <1>1, <1>4, <1>5, <1>7, <1>10, FoldRun
  <2> QED BY <2>1
<1>12. it[1 .. n] \in X
  BY <1>1, <1>11 DEF IsRun
<1> QED BY <1>2, <1>4, <1>12 DEF X

\* All records of a packet, the answers before the additional ones.
LEMMA PacketParsed ==
  ASSUME query \in Queries, NEW p \in MDNSPackets, NEW c \in Calls \cup {NoCall},
         NEW at \in Clock, NEW junk \in Nat
  PROVE  Parse(p, c, at, junk) \in Handling(p)
<1> DEFINE before == Len(p.questions)
           none == [j \in {0, 1} |-> 0]
           start == [dev |-> Quiet, servNamePos |-> none, recordsFound |-> {}, ptrs |-> <<>>,
                     ips |-> <<>>]
           answered == FoldLeftDomain(LAMBDA st, i : HandleAnswer(st, p.answers[i], before + i, c, at, junk),
                                      start, p.answers)
           after == before + Len(p.answers)
           all == FoldLeftDomain(LAMBDA st, i : HandleAdditional(st, p.additional[i], after + i),
                                 answered, p.additional)
<1>1. Parse(p, c, at, junk) = IF answered.ptrs = <<>> THEN answered ELSE all
  BY DEF Parse
<1>2. before \in Nat /\ after \in Nat
  <2>1. p.questions \in Seq(Records) /\ p.answers \in Seq(Records)
    BY DEF MDNSPackets
  <2> DEFINE m == Len(p.answers)
  <2>2. before \in Nat /\ m \in Nat
    BY <2>1, LenProperties
  <2> HIDE DEF before, m
  <2>3. before + m \in Nat
    BY <2>2
  <2> QED BY <2>2, <2>3 DEF m
<1>3. start \in Handling(p)
  <2>1. Handled(Quiet, p) /\ Quiet.found = <<>>
    BY DEF Quiet, Handled, Typed, IsDevice, ToldOnce
  <2>2. Quiet \in Devices(p)
    <3>1. Quiet.sent \in Seq(Unasked)
      BY DEF Quiet
    <3> QED BY <2>1, <3>1, IsInDevices
  <2>3. none \in [{0, 1} -> Nat]
    OBVIOUS
  <2>4. <<>> \in Seq(FoundServices(p)) /\ <<>> \in Seq(FoundAddresses)
    BY EmptySeq
  <2> DEFINE f == {}
             s == <<>>
             a == <<>>
  <2>5. f \in SUBSET {0, 1} /\ 0 \notin f
    OBVIOUS
  <2>6. start = [dev |-> Quiet, servNamePos |-> none, recordsFound |-> f, ptrs |-> s, ips |-> a]
    OBVIOUS
  <2>7. s \in Seq(FoundServices(p)) /\ a \in Seq(FoundAddresses)
    BY <2>4
  <2> HIDE DEF none, f, s, a, start
  <2> QED BY <2>2, <2>3, <2>5, <2>6, <2>7, HandlingFields
<1> HIDE DEF before, start, after
<1>4. answered \in Handling(p)
  BY <1>2, <1>3, AnswersHandled
<1> HIDE DEF answered
<1>5. all \in Handling(p)
  BY <1>2, <1>4, AdditionalsHandled
<1> QED BY <1>1, <1>4, <1>5

\* Reports of services change neither the queries nor what is sent or told.
LEMMA ServicesReported ==
  ASSUME NEW p, NEW d, Handled(d, p), NEW v
  PROVE  Handled([d EXCEPT !.found = v], p) /\ [d EXCEPT !.found = v].sent = d.sent
<1> DEFINE q == d.query
           s == d.sent
           t == d.told
           f == d.found
           b == d.begun
           e == [query |-> q, sent |-> s, told |-> t, found |-> v, begun |-> b]
<1>1. d = [query |-> q, sent |-> s, told |-> t, found |-> f, begun |-> b]
  BY DEF Handled, Typed, IsDevice
<1> HIDE DEF q, s, t, f, b
<1>2. [d EXCEPT !.found = v] = e
  BY <1>1
<1>3. e.query = d.query /\ e.sent = d.sent /\ e.told = d.told /\ e.begun = d.begun /\ IsDevice(e)
  BY DEF IsDevice, q, s, t, b
<1> HIDE DEF e
<1> QED BY <1>2, <1>3 DEF Handled, Typed, ToldOnce

\* A response, with the report of the services found in it.
LEMMA ResponseHandled ==
  ASSUME query \in Queries, NEW p \in MDNSPackets, NEW c \in Calls \cup {NoCall},
         NEW at \in Clock, NEW junk \in Nat
  PROVE  /\ Handled(HandleResponse(p, c, at, junk), p)
         /\ HandleResponse(p, c, at, junk).sent \in Seq(Unasked)
<1> DEFINE st == Parse(p, c, at, junk)
<1>1. Handled(st.dev, p) /\ st.dev.sent \in Seq(Unasked)
  BY PacketParsed DEF Handling, Devices
<1> HIDE DEF st
<1>2. \E v : Deliver(st) \in {st.dev, [st.dev EXCEPT !.found = v]}
  BY Zenon DEF Deliver
<1>3. Handled(Deliver(st), p) /\ Deliver(st).sent \in Seq(Unasked)
  <2> DEFINE d == st.dev
  <2>1. PICK v : Deliver(st) \in {d, [d EXCEPT !.found = v]}
    BY <1>2
  <2> HIDE DEF d
  <2>2. Handled(d, p) /\ d.sent \in Seq(Unasked)
    BY <1>1 DEF d
  <2> DEFINE e == [d EXCEPT !.found = v]
  <2>3. Handled(e, p) /\ e.sent = d.sent
    BY <2>2, ServicesReported
  <2> HIDE DEF e
  <2> QED BY <2>1, <2>2, <2>3 DEF e
<1>4. Handled(Quiet, p) /\ Quiet.sent \in Seq(Unasked)
  BY DEF Quiet, Handled, Typed, IsDevice, ToldOnce
<1> QED BY <1>3, <1>4 DEF HandleResponse, st

-----------------------------------------------------------------------------
(* What is announced *)

\* The services of some slots: only what is registered is announced, and all of it.
LEMMA Announced ==
  ASSUME serviceRecords \in [Slots -> Services \cup {NoService}], NEW slots \in Seq(Slots)
  PROVE  /\ Announcements(slots) \in Seq(Unasked) /\ Announcements(slots) \in Seq(Sendable)
         /\ \A k \in ToSet(slots) : serviceRecords[k] # NoService =>
              AboutService("ServiceRecord", serviceRecords[k]) \in ToSet(Announcements(slots))
<1> DEFINE used == {k \in Slots : serviceRecords[k] # NoService}
           ks == Registered(slots)
           n == Len(ks)
           About(k) == AboutService("ServiceRecord", serviceRecords[k])
           ms == [j \in 1 .. n |-> About(ks[j])]
<1>1. ks \in Seq(used) /\ ToSet(ks) = ToSet(slots) \cap used
  <2>1. Slots \cap used = used
    OBVIOUS
  <2> QED BY <2>1, AmongMembers DEF Registered
<1> HIDE DEF ks
<1>2. n \in Nat /\ DOMAIN ks = 1 .. n /\ \A j \in 1 .. n : ks[j] \in used
  <2> HIDE DEF used
  <2> QED BY <1>1, LenProperties
<1>3. Announcements(slots) = ms
  BY <1>2 DEF Announcements, ks
<1>4. \A k \in used : About(k) \in Unasked
  <2> SUFFICES ASSUME NEW k \in used PROVE About(k) \in Unasked
    OBVIOUS
  <2> DEFINE s == serviceRecords[k]
  <2>1. s \in Services /\ IsRegistered(s)
    BY DEF IsRegistered
  <2> HIDE DEF s
  <2>2. AboutService("ServiceRecord", s) = [type |-> "ServiceRecord", service |-> s, name |-> <<>>]
    BY DEF AboutService, Message
  <2>3. <<>> \in QueryNames(0) /\ "ServiceRecord" \in Messages
    BY DEF QueryNames, Messages
  <2>4. About(k) \in Sendable
    BY <2>1, <2>2, <2>3 DEF Sendable, s
  <2> QED BY <2>2, <2>4 DEF Unasked, s
<1>5. ASSUME NEW k \in ToSet(slots), serviceRecords[k] # NoService
      PROVE  About(k) \in ToSet(Announcements(slots))
  <2>1. k \in Slots
    <3>1. \A j \in DOMAIN slots : slots[j] \in Slots
      BY LenProperties
    <3> QED BY <3>1 DEF ToSet
  <2>2. k \in ToSet(ks)
    BY <1>1, <1>5, <2>1
  <2>3. PICK j \in 1 .. n : ks[j] = k
    BY <1>2, <2>2 DEF ToSet
  <2> HIDE DEF About, n
  <2>4. ms[j] = About(k) /\ DOMAIN ms = 1 .. n
    BY <2>3
  <2> HIDE DEF ms
  <2>5. About(k) \in ToSet(ms)
    BY <2>4 DEF ToSet
  <2> QED BY <1>3, <2>5
<1>6. ms \in Seq(Unasked)
  <2> HIDE DEF About, used, n
  <2>1. \A j \in 1 .. n : ms[j] \in Unasked
    BY <1>2, <1>4
  <2>2. ms \in [1 .. n -> Unasked]
    BY <2>1
  <2> HIDE DEF ms
  <2> QED BY <1>2, <2>2, SeqDef
<1>7. ms \in Seq(Sendable)
  <2>1. Unasked \subseteq Sendable
    BY DEF Unasked
  <2> HIDE DEF ms
  <2> QED BY <1>6, <2>1, SeqMonotonic
<1> QED BY <1>3, <1>5, <1>6, <1>7

\* The slots as a sequence.
LEMMA SlotsInOrder ==
  LET all == [k \in Slots |-> k] IN all \in Seq(Slots) /\ ToSet(all) = Slots
<1> DEFINE n == NumMDNSServiceRecords
           all == [k \in 1 .. n |-> k]
<1>1. n \in Nat /\ Slots = 1 .. n
  BY Sizes DEF Slots
<1> HIDE DEF n
<1>2. all \in [1 .. n -> 1 .. n]
  OBVIOUS
<1>3. all \in Seq(1 .. n)
  <2> HIDE DEF all
  <2> QED BY <1>1, <1>2, SeqDef
<1>4. ToSet(all) = 1 .. n
  BY DEF ToSet
<1> QED BY <1>1, <1>3, <1>4

\* What answers questions may be sent, whatever was asked.
LEMMA RequestsHandled ==
  ASSUME serviceRecords \in [Slots -> Services \cup {NoService}], NEW asks
  PROVE  HandleRequests(asks) \in Seq(Sendable)
<1> DEFINE slots == Among([k \in Slots |-> k], {k \in Slots : {1, k + 1} \intersect asks.records # {}})
           mine == IF 0 \in asks.records THEN <<Message("MyIPAnswer")>> ELSE <<>>
           six == IF asks.wantsIPv6Addr THEN <<Message("NoIPv6AddrAvailable")>> ELSE <<>>
           told == Announcements(slots)
<1>1. HandleRequests(asks) = mine \o told \o six
  BY DEF HandleRequests
<1>2. slots \in Seq(Slots)
  <2> DEFINE all == [k \in Slots |-> k]
             T == {k \in Slots : {1, k + 1} \intersect asks.records # {}}
  <2>1. all \in Seq(Slots) /\ Slots \cap T = T
    BY SlotsInOrder
  <2> HIDE DEF all
  <2>2. Among(all, T) \in Seq(Slots \cap T)
    BY <2>1, AmongMembers
  <2>3. Among(all, T) \in Seq(Slots)
    <3> DEFINE S == Among(all, T)
    <3> HIDE DEF S, T
    <3>1. Slots \cap T \subseteq Slots
      OBVIOUS
    <3> QED BY <2>2, <3>1, SeqMonotonic DEF S
  <2> QED BY <2>3 DEF all
<1> HIDE DEF slots
<1>3. told \in Seq(Sendable)
  BY <1>2, Announced
<1>4. Message("MyIPAnswer") \in Sendable /\ Message("NoIPv6AddrAvailable") \in Sendable
  BY DEF Sendable, Message, Messages, QueryNames
<1> HIDE DEF told
<1>5. mine \in Seq(Sendable) /\ six \in Seq(Sendable)
  BY <1>4
<1> HIDE DEF mine, six
<1>6. mine \o told \in Seq(Sendable)
  BY <1>3, <1>5, ConcatProperties
<1>7. mine \o told \o six \in Seq(Sendable)
  BY <1>5, <1>6, ConcatProperties
<1> QED BY <1>1, <1>7

-----------------------------------------------------------------------------
(* A run *)

\* A packet, answers and questions.
LEMMA PacketHandled ==
  ASSUME query \in Queries, serviceRecords \in [Slots -> Services \cup {NoService}],
         NEW p \in MDNSPackets, NEW c \in Calls \cup {NoCall}, NEW at \in Clock, NEW junk \in Nat
  PROVE  /\ Handled(processMDNSQuery(p, c, at, junk), p)
         /\ \E u \in Seq(Unasked) :
              processMDNSQuery(p, c, at, junk).sent = u \o HandleRequests(RecordsAskedFor(p))
<1> DEFINE d == HandleResponse(p, c, at, junk)
           ms == HandleRequests(RecordsAskedFor(p))
<1>1. Handled(d, p) /\ d.sent \in Seq(Unasked)
  BY ResponseHandled
<1>2. ms \in Seq(Sendable)
  BY RequestsHandled
<1>3. processMDNSQuery(p, c, at, junk) = Sends(d, ms)
  BY DEF processMDNSQuery
<1> HIDE DEF d, ms
<1> DEFINE e == Sends(d, ms)
<1>4. Typed(e) /\ e.sent = d.sent \o ms /\ e.query = d.query /\ e.told = d.told
  BY <1>1, <1>2, MessagesSent DEF Handled
<1> HIDE DEF e
<1>5. Handled(e, p)
  BY <1>1, <1>4 DEF Handled, ToldOnce
<1> QED BY <1>1, <1>3, <1>4, <1>5 DEF e, ms

\* A query that is sent again is told of as before.
LEMMA ResendHandled ==
  ASSUME NEW p, NEW d, Handled(d, p), NEW i \in {0, 1}, NEW now \in Clock, NEW at \in Clock
  PROVE  Handled(Resend(d, i, now, at), p) /\ SaysMore(Resend(d, i, now, at).sent, d.sent)
<1> DEFINE e == SendQuery(d, i, at)
<1>1. /\ Typed(e) /\ e.told = d.told /\ SaysMore(e.sent, d.sent)
      /\ \A j \in {0, 1} : e.query[j].name = d.query[j].name
  BY QuerySent DEF Handled
<1>2. Resend(d, i, now, at) \in {d, e}
  BY DEF Resend
<1> HIDE DEF e
<1>3. Handled(e, p)
  BY <1>1 DEF Handled, ToldOnce, IsOpen
<1>4. SaysMore(d.sent, d.sent)
  BY MoreIsMore DEF Handled, Typed
<1> QED BY <1>1, <1>2, <1>3, <1>4

\* The query for a name is sent again or times out, with the callback.
LEMMA NameChecked ==
  ASSUME NEW p, NEW d, Handled(d, p), NEW now \in Clock, NEW at \in Clock,
         NEW c \in Calls \cup {NoCall}
  PROVE  Handled(CheckName(d, now, c, at), p) /\ SaysMore(CheckName(d, now, c, at).sent, d.sent)
<1> DEFINE e == Resend(d, 0, now, at)
<1>1. Handled(e, p) /\ SaysMore(e.sent, d.sent)
  BY ResendHandled
<1>2. CheckName(d, now, c, at) = IF TimedOut(e, 0, now) THEN finishedResolvingName(e, 0, c, at) ELSE e
  BY DEF CheckName
<1> HIDE DEF e
<1>3. CASE TimedOut(e, 0, now)
  <2>1. IsOpen(e.query[0])
    BY <1>3 DEF TimedOut
  <2>2. e.told = <<>> /\ e.query[0].name = query[0].name
    BY <1>1, <2>1 DEF Handled, ToldOnce
  <2> DEFINE f == finishedResolvingName(e, 0, c, at)
  <2>3. Handled(f, p) /\ SaysMore(f.sent, e.sent)
    BY <1>1, <2>1, <2>2, NameTold DEF Handled
  <2> HIDE DEF f
  <2>4. SaysMore(f.sent, d.sent)
    BY <1>1, <2>3, MoreIsMore DEF Handled, Typed
  <2> QED BY <1>2, <1>3, <2>3, <2>4 DEF f
<1> QED BY <1>1, <1>2, <1>3

\* The query for a service is sent again or times out.
LEMMA ServiceChecked ==
  ASSUME NEW p, NEW d, Handled(d, p), NEW now \in Clock, NEW at \in Clock
  PROVE  Handled(CheckService(d, now, at), p) /\ SaysMore(CheckService(d, now, at).sent, d.sent)
<1> DEFINE e == Resend(d, 1, now, at)
           f == cancelQuery(e, 1)
           v == Append(f.found, Found(BeforeFirstDot(e.query[1].name), <<>>, 0, NoAddress, <<>>))
<1>1. Handled(e, p) /\ SaysMore(e.sent, d.sent)
  BY ResendHandled
<1>2. CheckService(d, now, at) = IF TimedOut(e, 1, now) THEN [f EXCEPT !.found = v] ELSE e
  BY DEF CheckService
<1> HIDE DEF e
<1>3. Typed(f) /\ f.told = e.told /\ f.sent = e.sent /\ f.query[0] = e.query[0]
  BY <1>1, QueryCancelled DEF Handled
<1> HIDE DEF f
<1>4. Handled(f, p)
  BY <1>1, <1>3 DEF Handled, ToldOnce
<1> HIDE DEF v
<1>5. Handled([f EXCEPT !.found = v], p) /\ [f EXCEPT !.found = v].sent = f.sent
  BY <1>4, ServicesReported
<1> QED BY <1>1, <1>2, <1>3, <1>5

\* The members of two sequences, one after the other.
LEMMA JoinMembers ==
  ASSUME NEW A, NEW s \in Seq(A), NEW ms \in Seq(A)
  PROVE  ToSet(s \o ms) = ToSet(s) \cup ToSet(ms)
<1> DEFINE m == Len(s)
           n == Len(ms)
           w == s \o ms
<1>1. /\ m \in Nat /\ n \in Nat /\ DOMAIN s = 1 .. m /\ DOMAIN ms = 1 .. n
      /\ w \in Seq(A) /\ Len(w) = m + n
  BY LenProperties, ConcatProperties
<1>2. DOMAIN w = 1 .. m + n
  BY <1>1, LenProperties
<1>3. /\ \A j \in 1 .. m : w[j] = s[j]
      /\ \A j \in 1 .. n : w[m + j] = ms[j]
  <2>1. \A j \in 1 .. m : j \in 1 .. m + n
    BY <1>1
  <2>2. \A j \in 1 .. n : m + j \in 1 .. m + n /\ m + j > m /\ (m + j) - m = j
    BY <1>1
  <2>3. \A j \in 1 .. m + n : w[j] = IF j <= m THEN s[j] ELSE ms[j - m]
    BY ConcatProperties
  <2> HIDE DEF m, n, w
  <2>4. \A j \in 1 .. n : ~(m + j <= m)
    BY <1>1, <2>2
  <2>5. \A j \in 1 .. m : j <= m
    BY <1>1
  <2>6. \A j \in 1 .. m : w[j] = s[j]
    BY <2>1, <2>3, <2>5
  <2>7. \A j \in 1 .. n : w[m + j] = ms[j]
    BY <2>2, <2>3, <2>4
  <2> QED BY <2>6, <2>7
<1> HIDE DEF m, n, w
<1>4. 1 .. m + n = (1 .. m) \cup {m + j : j \in 1 .. n}
  <2>1. ASSUME NEW j \in 1 .. m + n PROVE j \in 1 .. m \/ \E i \in 1 .. n : j = m + i
    <3>1. CASE j <= m
      BY <1>1, <3>1
    <3>2. CASE ~(j <= m)
      <4>1. j - m \in 1 .. n /\ j = m + (j - m)
        BY <1>1, <3>2
      <4> QED BY <4>1
    <3> QED BY <3>1, <3>2
  <2>2. \A j \in 1 .. m : j \in 1 .. m + n
    BY <1>1
  <2>3. \A j \in 1 .. n : m + j \in 1 .. m + n
    BY <1>1
  <2> QED BY <2>1, <2>2, <2>3
<1>5. {w[j] : j \in 1 .. m + n} = {s[j] : j \in 1 .. m} \cup {ms[j] : j \in 1 .. n}
  <2>1. \A j \in 1 .. m + n : w[j] \in {s[i] : i \in 1 .. m} \cup {ms[i] : i \in 1 .. n}
    BY <1>3, <1>4
  <2>2. \A j \in 1 .. m : s[j] \in {w[i] : i \in 1 .. m + n}
    BY <1>3, <1>4
  <2>3. \A j \in 1 .. n : ms[j] \in {w[i] : i \in 1 .. m + n}
    <3> SUFFICES ASSUME NEW j \in 1 .. n PROVE ms[j] \in {w[i] : i \in 1 .. m + n}
      OBVIOUS
    <3>1. m + j \in 1 .. m + n /\ w[m + j] = ms[j]
      BY <1>3, <1>4
    <3> QED BY <3>1
  <2> QED BY <2>1, <2>2, <2>3
<1> QED BY <1>1, <1>2, <1>5 DEF ToSet, w

\* A run keeps the types, tells of a name at most once, announces every service when it
\* is time to, and what it says beside that are answers to what it was asked, and queries.
LEMMA RunHandled ==
  ASSUME query \in Queries, serviceRecords \in [Slots -> Services \cup {NoService}],
         NEW p \in MDNSPackets, NEW c \in Calls \cup {NoCall}, NEW now \in Clock,
         NEW at \in Clock, NEW junk \in Nat
  PROVE  /\ Handled(RunAt(p, now, at, c, junk), p)
         /\ AnnounceDue(now) => \A k \in Slots : serviceRecords[k] # NoService =>
              AboutService("ServiceRecord", serviceRecords[k]) \in ToSet(RunAt(p, now, at, c, junk).sent)
         /\ \E u \in Seq(Unasked) :
              SaysMore(RunAt(p, now, at, c, junk).sent, u \o HandleRequests(RecordsAskedFor(p)))
<1> DEFINE d == processMDNSQuery(p, c, at, junk)
           e == CheckName(d, now, c, at)
           f == CheckService(e, now, at)
           all == [k \in Slots |-> k]
           ms == Announcements(all)
           g == Sends(f, ms)
<1>1. RunAt(p, now, at, c, junk) = IF AnnounceDue(now) THEN g ELSE f
  BY DEF RunAt
<1>2. Handled(d, p) /\ \E u \in Seq(Unasked) : d.sent = u \o HandleRequests(RecordsAskedFor(p))
  BY PacketHandled
<1> HIDE DEF d
<1>3. Handled(e, p) /\ SaysMore(e.sent, d.sent)
  BY <1>2, NameChecked
<1> HIDE DEF e
<1>4. Handled(f, p) /\ SaysMore(f.sent, e.sent)
  BY <1>3, ServiceChecked
<1> HIDE DEF f
<1>5. all \in Seq(Slots) /\ ToSet(all) = Slots
  BY SlotsInOrder
<1> HIDE DEF all
<1>6. /\ ms \in Seq(Sendable) /\ ms \in Seq(Unasked)
      /\ \A k \in Slots : serviceRecords[k] # NoService =>
           AboutService("ServiceRecord", serviceRecords[k]) \in ToSet(ms)
  BY <1>5, Announced
<1> HIDE DEF ms
<1>7. Typed(f)
  BY <1>4 DEF Handled
<1>8. Typed(g) /\ g.sent = f.sent \o ms /\ g.query = f.query /\ g.told = f.told
  BY <1>6, <1>7, MessagesSent
<1> HIDE DEF g
<1>9. Handled(g, p)
  BY <1>4, <1>8 DEF Handled, ToldOnce
<1>10. ToSet(ms) \subseteq ToSet(g.sent)
  BY <1>6, <1>7, <1>8, JoinMembers DEF Typed
<1>11. SaysMore(f.sent, d.sent)
  BY <1>2, <1>3, <1>4, MoreIsMore DEF Handled, Typed
<1>12. SaysMore(g.sent, d.sent)
  <2>1. SaysMore(g.sent, f.sent)
    BY <1>6, <1>8 DEF SaysMore
  <2> QED BY <1>2, <1>11, <2>1, MoreIsMore DEF Handled, Typed
<1> QED BY <1>1, <1>2, <1>4, <1>6, <1>9, <1>10, <1>11, <1>12

-----------------------------------------------------------------------------
(* Names as they are written *)

Words == {w \in STRING : w # Dot}

\* Labels that are being written, the last one not ended yet.
Labels == Seq(Seq(Words)) \ {<<>>}
AddTo(ls, c) == IF c = Dot THEN Append(ls, <<>>) ELSE [ls EXCEPT ![Len(ls)] = Append(@, c)]

\* A word goes to the last label, and a dot begins another one.
LEMMA LabelsGrow ==
  ASSUME NEW ls \in Labels, NEW c \in STRING
  PROVE  AddTo(ls, c) \in Labels
<1> DEFINE L == Seq(Words)
           n == Len(ls)
<1>1. ls \in Seq(L) /\ <<>> \in L /\ n \in Nat /\ n # 0
  BY EmptySeq DEF Labels
<1>2. CASE c = Dot
  <2>1. Append(ls, <<>>) \in Seq(L) /\ Len(Append(ls, <<>>)) = n + 1
    <3> HIDE DEF L
    <3> QED BY <1>1, AppendProperties
  <2>2. Append(ls, <<>>) # <<>>
    BY <1>1, <2>1
  <2> QED BY <1>2, <2>1, <2>2 DEF AddTo, Labels
<1>3. CASE c # Dot
  <2> DEFINE last == Append(ls[n], c)
             new == [ls EXCEPT ![n] = last]
  <2>1. n \in 1 .. Len(ls) /\ ls[n] \in L
    BY <1>1
  <2>2. last \in L
    BY <1>3, <2>1, AppendProperties DEF Words
  <2> HIDE DEF last, L
  <2>3. new \in Seq(L) /\ Len(new) = n
    BY <1>1, <2>1, <2>2, ExceptSeq
  <2>4. AddTo(ls, c) = new
    BY <1>3 DEF AddTo, last
  <2> HIDE DEF new
  <2>5. new # <<>>
    BY <1>1, <2>3
  <2> QED BY <2>3, <2>4, <2>5 DEF L, Labels
<1> QED BY <1>2, <1>3

\* The labels of a string after each of its words and dots.
Writes(r, str) ==
  /\ r[0] = << <<>> >>
  /\ \A i \in 1 .. Len(str) : r[i] = AddTo(r[i - 1], str[i])

\* What is written is the last of the labels, without the empty ones.
LEMMA NameRun ==
  ASSUME NEW str \in Seq(STRING)
  PROVE  \E r \in [0 .. Len(str) -> Labels] :
           /\ Writes(r, str)
           /\ writeDNSName(str) = [labels |-> Without(r[Len(str)], <<>>), ptr |-> 0]
<1> DEFINE s == str
           n == Len(s)
           X == Labels
           T == STRING
           start == << <<>> >>
           H(ls, c) == IF c = Dot THEN Append(ls, <<>>) ELSE [ls EXCEPT ![Len(ls)] = Append(@, c)]
           step == [x \in X \X T |-> H(x[1], x[2])]
           Eq(f) == f = [u \in SUBSET DOMAIN s |->
                           IF u = {} THEN start ELSE H(f[u \ {Max(u)}], s[Max(u)])]
           it == CHOOSE f : Eq(f)
<1>1. n \in Nat /\ DOMAIN s = 1 .. n /\ s \in [1 .. n -> T]
  BY LenProperties
<1>2. writeDNSName(str) = [labels |-> Without(it[DOMAIN s], <<>>), ptr |-> 0]
  BY Zenon DEF writeDNSName, FoldLeft, MapThenFoldSet
<1>3. \A x \in X, c \in T : H(x, c) \in X
  BY LabelsGrow DEF AddTo
<1>4. start \in X
  BY DEF Labels
<1> HIDE DEF s, n, X, T, H, start
<1>5. step \in [X \X T -> X] /\ \A x \in X, c \in T : step[<<x, c>>] = H(x, c)
  BY <1>3
<1> HIDE DEF step
<1>6. \A u \in SUBSET (1 .. n) :
        u # {} => s[Max(u)] \in T /\ u \ {Max(u)} \in SUBSET (1 .. n)
  <2> SUFFICES ASSUME NEW u \in SUBSET (1 .. n), u # {}
               PROVE  s[Max(u)] \in T /\ u \ {Max(u)} \in SUBSET (1 .. n)
    OBVIOUS
  <2>1. Max(u) \in u
    BY <1>1, Greatest
  <2> QED BY <1>1, <2>1
<1>7. Eq(it)
  <2>1. PICK f \in [SUBSET (1 .. n) -> X] : IsFold(f, start, step, s, n)
    BY <1>1, <1>4, <1>5, FoldExists
  <2>2. \A u \in SUBSET (1 .. n) :
          f[u] = IF u = {} THEN start ELSE H(f[u \ {Max(u)}], s[Max(u)])
    BY <1>5, <1>6, <2>1 DEF IsFold
  <2>3. Eq(f)
    BY <1>1, <2>2
  <2> HIDE DEF Eq
  <2> QED BY <2>3
<1>8. /\ it[{}] = start
      /\ \A u \in SUBSET (1 .. n) :
           u # {} => it[u] = H(it[u \ {Max(u)}], s[Max(u)])
  <2> HIDE DEF it
  <2> QED BY <1>1, <1>7
<1> HIDE DEF it
<1>9. IsFoldIn(it, X, start, step, s, n)
  BY <1>5, <1>6, <1>8 DEF IsFoldIn
<1>10. PICK r \in [0 .. n -> X] : IsRun(r, start, it[1 .. n], step, s, n)
  <2>1. \E r \in [0 .. n -> X] : IsRun(r, start, it[1 .. n], step, s, n)
    BY <1>1, <1>4, <1>5, <1>9, FoldRun
  <2> QED BY <2>1
<1>11. ASSUME NEW i \in 1 .. n PROVE r[i] = H(r[i - 1], s[i])
  <2>1. i - 1 \in 0 .. n /\ s[i] \in T
    BY <1>1
  <2> QED BY <1>5, <1>10, <2>1 DEF IsRun
<1>12. Writes(r, str)
  BY <1>10, <1>11 DEF n, s, start, H, IsRun, Writes, AddTo
<1>13. r[n] = it[DOMAIN s]
  BY <1>1, <1>10 DEF IsRun
<1> QED BY <1>2, <1>10, <1>12, <1>13 DEF n, s, X

\* What is written is a name.
LEMMA NameTyped ==
  ASSUME NEW str \in Seq(STRING)
  PROVE  writeDNSName(str) \in Names
<1> DEFINE L == Seq(Words)
<1>1. PICK ls \in Seq(L) : writeDNSName(str) = [labels |-> Without(ls, <<>>), ptr |-> 0]
  <2>1. PICK r \in [0 .. Len(str) -> Labels] :
          writeDNSName(str) = [labels |-> Without(r[Len(str)], <<>>), ptr |-> 0]
    BY NameRun
  <2>2. r[Len(str)] \in Labels
    BY LenProperties
  <2> QED BY <2>1, <2>2 DEF Labels
<1> HIDE DEF L
<1> DEFINE T == ToSet(ls) \ {<<>>}
<1>2. Without(ls, <<>>) \in Seq(L \cap T)
  BY AmongMembers DEF Without
<1>3. L \cap T \subseteq L \ {<<>>}
  OBVIOUS
<1> DEFINE w == Without(ls, <<>>)
<1> HIDE DEF w, T
<1>4. w \in Seq(L \ {<<>>})
  BY <1>2, <1>3, SeqMonotonic DEF w
<1>5. Names = [labels : Seq(L \ {<<>>}), ptr : Nat]
  BY DEF Names, L, Words
<1> QED BY <1>1, <1>4, <1>5 DEF w

\* The packets a run may take.
LEMMA PacketsTyped ==
  /\ NoPacket \in MDNSPackets /\ PeerAnswer \in MDNSPackets
  /\ Packets \subseteq MDNSPackets
<1> DEFINE host == Peer.name \o MDNS_TLD
           me == writeMyIPAnswerRecord(host, Peer.address)
<1>1. Peer.name \in Seq(STRING) /\ Peer.address \in Nat /\ MDNS_RESPONSE_TTL \in Nat
  BY BonjourAssumption
<1>2. host \in Seq(STRING)
  <2>1. Dot \in STRING /\ "local" \in STRING
    BY BonjourAssumption
  <2>2. MDNS_TLD \in Seq(STRING)
    BY <2>1 DEF MDNS_TLD
  <2> QED BY <1>1, <2>2, ConcatProperties
<1> HIDE DEF host
<1>3. me \in Records
  <2> DEFINE n == writeDNSName(host)
  <2>1. n \in Names
    BY <1>2, NameTyped
  <2>2. me = [name |-> n, type |-> "A", ttl |-> MDNS_RESPONSE_TTL,
              data |-> [address |-> Peer.address, port |-> 0, name |-> [labels |-> <<>>, ptr |-> 0],
                        text |-> <<>>]]
    BY DEF writeMyIPAnswerRecord, Record, NoData
  <2>3. [labels |-> <<>>, ptr |-> 0] \in Names
    BY DEF Names
  <2> DEFINE none == [labels |-> <<>>, ptr |-> 0]
             data == [address |-> Peer.address, port |-> 0, name |-> none, text |-> <<>>]
             D == [address : Nat, port : Nat, name : Names, text : Seq(STRING)]
             text == <<>>
  <2>4. text \in Seq(STRING) /\ none \in Names
    BY <2>3, EmptySeq
  <2>5. data = [address |-> Peer.address, port |-> 0, name |-> none, text |-> text]
    OBVIOUS
  <2> HIDE DEF n, me, none, text, data
  <2>6. data \in D
    BY <1>1, <2>4, <2>5
  <2>7. me = [name |-> n, type |-> "A", ttl |-> MDNS_RESPONSE_TTL, data |-> data]
    BY <2>2 DEF data, none, text
  <2> HIDE DEF D
  <2>8. "A" \in STRING
    BY BonjourAssumption
  <2>9. me \in [name : Names, type : STRING, ttl : Nat, data : D]
    BY <1>1, <2>1, <2>6, <2>7, <2>8
  <2> QED BY <2>9 DEF D, Records
<1> HIDE DEF me
<1>4. PeerAnswer = Packet(TRUE, <<>>, <<me>>, <<>>)
  BY DEF PeerAnswer, sendMDNSMessage, Message, me, host
<1>5. <<me>> \in Seq(Records) /\ <<>> \in Seq(Records)
  BY <1>3
<1>6. PeerAnswer \in MDNSPackets
  BY <1>4, <1>5 DEF Packet, MDNSPackets, MDNS_SERVER_PORT
<1>7. NoPacket \in MDNSPackets
  BY <1>5 DEF NoPacket, Packet, MDNSPackets, MDNS_SERVER_PORT
<1> QED BY <1>6, <1>7, BonjourAssumption

-----------------------------------------------------------------------------
(* Types *)

AllMessages ==
  [type : Messages, service : Services \cup {NoService}, name : QueryNames(0) \cup QueryNames(1)]

BonjourTypes ==
  /\ millis \in Clock /\ lastAnnounce \in Clock
  /\ bonjourName \in {h \o MDNS_TLD : h \in Hosts}
  /\ serviceRecords \in [Slots -> Services \cup {NoService}]
  /\ query \in Queries
  /\ asked \in BOOLEAN
  /\ known \in [Services -> 0 .. MDNS_RESPONSE_TTL]
  /\ calls \in 0 .. MaxCalls
  /\ out.sent \in Seq(AllMessages)

\* These types are those the runs check.
LEMMA TypesAreOK ==
  ASSUME BonjourTypes
  PROVE  TypeOK
<1>1. ASSUME NEW i \in {0, 1}
      PROVE  /\ query[i].name \in QueryNames(i)
             /\ {query[i].timeout, query[i].last} \subseteq Clock
  <2> DEFINE N == QueryNames(0) \cup QueryNames(1)
  <2>1. query \in [{0, 1} -> [name : N, timeout : Clock, last : Clock]] /\ query[i].name \in QueryNames(i)
    BY DEF BonjourTypes, Queries
  <2> HIDE DEF N
  <2> QED BY <2>1
<1>2. \A n \in DOMAIN out.sent : out.sent[n].type \in Messages
  <2> DEFINE s == out.sent
  <2>1. s \in Seq(AllMessages)
    BY DEF BonjourTypes
  <2> HIDE DEF s
  <2>2. \A n \in DOMAIN s : s[n] \in AllMessages
    BY <2>1, LenProperties
  <2>3. \A n \in DOMAIN s : s[n].type \in Messages
    BY <2>2 DEF AllMessages
  <2> QED BY <2>3 DEF s
<1> QED BY <1>1, <1>2 DEF TypeOK, BonjourTypes, QueryNames, Clock

\* What other hosts know of a service after some messages and some seconds: what the
\* last message about it says, or less by the seconds.
LEMMA WhatIsKnown ==
  ASSUME BonjourTypes, NEW ms \in Seq(AllMessages), NEW sec \in Nat, NEW s \in Services
  PROVE  LET about == {n \in DOMAIN ms : ms[n].service = s}
             after == KnownAfter(ms, sec)[s]
         IN  /\ about = {} => after = IF known[s] >= sec THEN known[s] - sec ELSE 0
             /\ about # {} => \E n \in about :
                  after = IF ms[n].type = "ServiceRecord" THEN MDNS_RESPONSE_TTL ELSE 0
<1> DEFINE about == {n \in DOMAIN ms : ms[n].service = s}
           after == KnownAfter(ms, sec)[s]
           k == known[s]
<1>1. after = IF about = {} THEN Max({0, k - sec})
              ELSE IF ms[Max(about)].type = "ServiceRecord" THEN MDNS_RESPONSE_TTL ELSE 0
  BY DEF KnownAfter
<1>2. k \in Nat /\ Len(ms) \in Nat /\ DOMAIN ms = 1 .. Len(ms)
  <2>1. known[s] \in 0 .. MDNS_RESPONSE_TTL
    BY DEF BonjourTypes
  <2>2. MDNS_RESPONSE_TTL \in Nat
    BY Sizes
  <2> QED BY <2>1, <2>2, LenProperties
<1>3. Max({0, k - sec}) = IF k >= sec THEN k - sec ELSE 0
  <2> HIDE DEF k
  <2> DEFINE d == k - sec
             m == IF k >= sec THEN d ELSE 0
  <2>1. d \in Int /\ (d >= 0 <=> k >= sec)
    BY <1>2
  <2>2. m \in {0, d} /\ \A y \in {0, d} : m >= y
    BY <2>1
  <2>3. \A x \in {0, d} : (\A y \in {0, d} : x >= y) => x = m
    BY <2>1, <2>2
  <2> HIDE DEF d, m
  <2>4. Max({0, d}) = m
    BY <2>2, <2>3 DEF Max
  <2> QED BY <2>4 DEF d, m
<1>4. about # {} => Max(about) \in about
  <2>1. about \subseteq 1 .. Len(ms)
    BY <1>2
  <2> HIDE DEF about
  <2> QED BY <1>2, <2>1, Greatest
<1> HIDE DEF about, after, k
<1>5. about = {} => after = IF k >= sec THEN k - sec ELSE 0
  BY <1>1, <1>3
<1>6. about # {} => \E n \in about :
        after = IF ms[n].type = "ServiceRecord" THEN MDNS_RESPONSE_TTL ELSE 0
  BY <1>1, <1>4
<1> QED BY <1>5, <1>6 DEF about, after, k

\* A step of the device keeps the types.
LEMMA StepTyped ==
  ASSUME BonjourTypes, NEW d, d.query \in Queries, d.sent \in Seq(AllMessages),
         NEW p, NEW sec \in Nat, Step(d, p, sec)
  PROVE  /\ query' \in Queries /\ out'.sent \in Seq(AllMessages) /\ millis' \in Clock
         /\ known' \in [Services -> 0 .. MDNS_RESPONSE_TTL]
<1>1. query' = d.query /\ out'.sent = d.sent
  BY DEF Step, Outcome
<1>2. millis' \in Clock
  <2>1. millis \in Int
    BY Sizes DEF BonjourTypes
  <2>2. millis + sec \in Int
    BY <2>1
  <2> QED BY <2>2, Sizes DEF Step
<1>3. ASSUME NEW s \in Services PROVE KnownAfter(d.sent, sec)[s] \in 0 .. MDNS_RESPONSE_TTL
  <2> DEFINE T == MDNS_RESPONSE_TTL
             ms == d.sent
             k == known[s]
             after == KnownAfter(ms, sec)[s]
  <2>1. T \in Nat /\ k \in 0 .. T
    BY Sizes DEF BonjourTypes
  <2> HIDE DEF k, T
  <2>2. after \in {T, 0} \/ after = IF k >= sec THEN k - sec ELSE 0
    <3> HIDE DEF after, ms
    <3> QED BY WhatIsKnown DEF T, ms, k, after
  <2>3. T \in 0 .. T /\ 0 \in 0 .. T /\ (k >= sec => k - sec \in 0 .. T)
    BY <2>1
  <2> HIDE DEF after
  <2>4. after \in 0 .. T
    BY <2>2, <2>3
  <2> QED BY <2>4 DEF after, ms, T
<1>4. known' = KnownAfter(d.sent, sec)
  BY DEF Step
<1>5. KnownAfter(d.sent, sec) = [s \in Services |-> KnownAfter(d.sent, sec)[s]]
  BY DEF KnownAfter
<1>6. KnownAfter(d.sent, sec) \in [Services -> 0 .. MDNS_RESPONSE_TTL]
  <2> DEFINE f == KnownAfter(d.sent, sec)
  <2> HIDE DEF f
  <2>1. f = [s \in Services |-> f[s]] /\ \A s \in Services : f[s] \in 0 .. MDNS_RESPONSE_TTL
    BY <1>3, <1>5 DEF f
  <2> QED BY <2>1 DEF f
<1> QED BY <1>1, <1>2, <1>4, <1>6

\* A device that has done nothing is of its type.
LEMMA QuietTyped ==
  ASSUME query \in Queries
  PROVE  /\ Typed(Quiet) /\ Quiet.query = query /\ Quiet.sent = <<>> /\ Quiet.told = <<>>
         /\ Quiet.found = <<>> /\ Quiet.begun = {}
BY DEF Quiet, Typed, IsDevice

\* What a run may send are messages.
LEMMA SendableMessages ==
  ASSUME NEW d, Typed(d)
  PROVE  d.query \in Queries /\ d.sent \in Seq(AllMessages)
<1>1. Sendable \subseteq AllMessages
  BY DEF Sendable, AllMessages
<1> DEFINE s == d.sent
<1>2. s \in Seq(Sendable) /\ d.query \in Queries
  BY DEF Typed
<1> HIDE DEF s
<1>3. s \in Seq(AllMessages)
  BY <1>1, <1>2, SeqMonotonic
<1> QED BY <1>2, <1>3 DEF s

\* Messages that are sent out of a call.
LEMMA QuietSends ==
  ASSUME query \in Queries, NEW ms \in Seq(AllMessages)
  PROVE  /\ Sends(Quiet, ms).query = query /\ Sends(Quiet, ms).sent = ms
         /\ Sends(Quiet, ms).told = <<>>
<1> DEFINE e == [query |-> query, sent |-> ms, told |-> <<>>, found |-> <<>>, begun |-> {}]
           v == <<>> \o ms
<1>1. v = ms
  BY ConcatEmptySeq
<1>2. Sends(Quiet, ms) = [Quiet EXCEPT !.sent = v]
  BY DEF Sends, Quiet
<1> HIDE DEF v
<1>3. [Quiet EXCEPT !.sent = v] = e
  <2> DEFINE q == query
             f == <<>>
             b == {}
  <2>1. Quiet = [query |-> q, sent |-> f, told |-> f, found |-> f, begun |-> b]
    BY DEF Quiet
  <2> HIDE DEF q, f, b
  <2>2. [Quiet EXCEPT !.sent = v] = [query |-> q, sent |-> v, told |-> f, found |-> f, begun |-> b]
    BY <2>1
  <2> QED BY <1>1, <2>2 DEF q, f, b
<1> QED BY <1>2, <1>3

\* What a run needs of the clock and the packet.
LEMMA RunTyped ==
  ASSUME BonjourTypes, NEW p \in MDNSPackets, NEW before \in 0 .. MaxPause,
         NEW during \in 0 .. MaxPause, NEW c \in Calls \cup {NoCall}, NEW junk \in Junk
  PROVE  LET now == (millis + before) % ClockSpace
             at  == (now + during) % ClockSpace
             d   == RunAt(p, now, at, c, junk)
         IN  /\ now \in Clock /\ before \in Nat /\ during \in Nat /\ before + during \in Nat
             /\ Handled(d, p) /\ Typed(d)
             /\ AnnounceDue(now) => \A k \in Slots : serviceRecords[k] # NoService =>
                  AboutService("ServiceRecord", serviceRecords[k]) \in ToSet(d.sent)
             /\ \E u \in Seq(Unasked) : SaysMore(d.sent, u \o HandleRequests(RecordsAskedFor(p)))
<1> DEFINE now == (millis + before) % ClockSpace
           at  == (now + during) % ClockSpace
           d   == RunAt(p, now, at, c, junk)
<1>1. before \in Nat /\ during \in Nat /\ before + during \in Nat
  BY Sizes
<1>2. now \in Clock
  <2>1. millis \in Nat
    BY Sizes DEF BonjourTypes
  <2>2. millis + before \in Int
    BY <1>1, <2>1
  <2> QED BY <2>2, Sizes
<1>3. at \in Clock
  <2> HIDE DEF now
  <2>1. now + during \in Int
    BY <1>1, <1>2, Sizes
  <2> QED BY <2>1, Sizes
<1>4. junk \in Nat
  BY BonjourAssumption
<1> HIDE DEF now, at
<1>5. /\ Handled(d, p)
      /\ AnnounceDue(now) => \A k \in Slots : serviceRecords[k] # NoService =>
           AboutService("ServiceRecord", serviceRecords[k]) \in ToSet(d.sent)
      /\ \E u \in Seq(Unasked) : SaysMore(d.sent, u \o HandleRequests(RecordsAskedFor(p)))
  BY <1>2, <1>3, <1>4, RunHandled DEF BonjourTypes
<1> QED BY <1>1, <1>2, <1>5 DEF Handled, now, at

\* The services that are registered, and what is said when they are not any more.
LEMMA ReleaseTyped ==
  ASSUME serviceRecords \in [Slots -> Services \cup {NoService}], NEW slots \in Seq(Slots)
  PROVE  LET ks == Registered(slots)
             ms == [n \in DOMAIN ks |-> AboutService("ServiceRecordRelease", serviceRecords[ks[n]])]
         IN  /\ ks \in Seq({k \in Slots : serviceRecords[k] # NoService})
             /\ DOMAIN ks = DOMAIN ms /\ ms \in Seq(AllMessages)
             /\ \A n \in DOMAIN ms : /\ ms[n].service = serviceRecords[ks[n]]
                                     /\ ms[n].type = "ServiceRecordRelease"
<1> DEFINE used == {k \in Slots : serviceRecords[k] # NoService}
           ks == Registered(slots)
           n == Len(ks)
           About(k) == AboutService("ServiceRecordRelease", serviceRecords[k])
           ms == [j \in 1 .. n |-> About(ks[j])]
<1>1. ks \in Seq(used)
  <2>1. Slots \cap used = used
    OBVIOUS
  <2> QED BY <2>1, AmongMembers DEF Registered
<1> HIDE DEF ks
<1>2. n \in Nat /\ DOMAIN ks = 1 .. n /\ \A j \in 1 .. n : ks[j] \in used
  <2> HIDE DEF used
  <2> QED BY <1>1, LenProperties
<1>3. \A k \in used : About(k) \in AllMessages
                      /\ About(k).service = serviceRecords[k] /\ About(k).type = "ServiceRecordRelease"
  <2> SUFFICES ASSUME NEW k \in used
               PROVE  /\ About(k) \in AllMessages /\ About(k).service = serviceRecords[k]
                      /\ About(k).type = "ServiceRecordRelease"
    OBVIOUS
  <2> DEFINE s == serviceRecords[k]
  <2>1. s \in Services
    OBVIOUS
  <2> HIDE DEF s
  <2>2. AboutService("ServiceRecordRelease", s) =
          [type |-> "ServiceRecordRelease", service |-> s, name |-> <<>>]
    BY DEF AboutService, Message
  <2>3. <<>> \in QueryNames(0) /\ "ServiceRecordRelease" \in Messages
    BY DEF QueryNames, Messages
  <2> QED BY <2>1, <2>2, <2>3 DEF AllMessages, s
<1> HIDE DEF About, used, n
<1>4. \A j \in 1 .. n : ms[j] \in AllMessages
  BY <1>2, <1>3
<1>5. \A j \in 1 .. n : ms[j].service = serviceRecords[ks[j]] /\ ms[j].type = "ServiceRecordRelease"
  BY <1>2, <1>3
<1>6. ms \in [1 .. n -> AllMessages] /\ DOMAIN ms = 1 .. n
  BY <1>4
<1>7. ms \in Seq(AllMessages)
  <2> HIDE DEF ms
  <2> QED BY <1>2, <1>6, SeqDef
<1>8. ms = [j \in DOMAIN ks |-> AboutService("ServiceRecordRelease", serviceRecords[ks[j]])]
  BY <1>2 DEF About
<1> HIDE DEF ms
<1> QED BY <1>1, <1>2, <1>5, <1>6, <1>7, <1>8 DEF ks, used

\* A call of the program keeps the types.
LEMMA CallTyped ==
  ASSUME BonjourTypes, NEW d, d.query \in Queries, d.sent \in Seq(AllMessages), Call(d),
         bonjourName' \in {h \o MDNS_TLD : h \in Hosts},
         serviceRecords' \in [Slots -> Services \cup {NoService}]
  PROVE  BonjourTypes'
<1>1. Step(d, NoPacket, 0) /\ lastAnnounce' = lastAnnounce /\ asked' = asked
  BY DEF Call
<1>2. 0 \in Nat
  OBVIOUS
<1>3. /\ query' \in Queries /\ out'.sent \in Seq(AllMessages) /\ millis' \in Clock
      /\ known' \in [Services -> 0 .. MDNS_RESPONSE_TTL]
  BY <1>1, <1>2, StepTyped
<1>4. calls' \in 0 .. MaxCalls
  BY Sizes DEF Call, BonjourTypes
<1> QED BY <1>1, <1>3, <1>4 DEF BonjourTypes

\* The slot a service is removed from is one, or there is none.
LEMMA SameService ==
  ASSUME NEW s,
         LET same == {k \in Slots : serviceRecords[k].port = s.port /\ serviceRecords[k].proto = s.proto}
         IN  same # {} /\ Release(<<Min(same)>>)
  PROVE  \E slots \in Seq(Slots) : Release(slots)
<1> DEFINE same == {k \in Slots : serviceRecords[k].port = s.port /\ serviceRecords[k].proto = s.proto}
<1>1. same # {} /\ same \subseteq Slots /\ same \subseteq Nat
  BY Sizes
<1>2. Release(<<Min(same)>>)
  OBVIOUS
<1> HIDE DEF same
<1>3. \E x \in same : \A y \in same : x <= y
  BY <1>1, LeastNatural
<1>4. Min(same) \in same
  BY <1>3 DEF Min
<1> DEFINE m == Min(same)
<1>5. m \in Slots
  BY <1>1, <1>4
<1> HIDE DEF m
<1>6. <<m>> \in Seq(Slots)
  BY <1>5
<1> QED BY <1>2, <1>6 DEF m

\* A run keeps the types.
LEMMA RunOnTyped ==
  ASSUME BonjourTypes, NEW packets, packets \subseteq MDNSPackets, RunOn(packets),
         asked' \in BOOLEAN
  PROVE  BonjourTypes'
<1>1. PICK p \in packets, before, during \in 0 .. MaxPause, then \in Calls \cup {NoCall}, junk \in Junk :
        Run(p, before, during, then, junk)
  BY DEF RunOn
<1> DEFINE now == (millis + before) % ClockSpace
           at  == (now + during) % ClockSpace
           d   == RunAt(p, now, at, then, junk)
<1>2. /\ now \in Clock /\ before + during \in Nat /\ Typed(d)
  BY <1>1, RunTyped
<1>3. /\ Step(d, p, before + during) /\ UNCHANGED <<bonjourName, serviceRecords>>
      /\ lastAnnounce' = IF AnnounceDue(now) THEN now ELSE lastAnnounce
      /\ calls' = IF then # NoCall THEN calls + 1 ELSE calls
      /\ then # NoCall => calls < MaxCalls
  BY <1>1 DEF Run
<1> HIDE DEF now, at, d
<1>4. d.query \in Queries /\ d.sent \in Seq(AllMessages)
  BY <1>2, SendableMessages
<1>5. /\ query' \in Queries /\ out'.sent \in Seq(AllMessages) /\ millis' \in Clock
      /\ known' \in [Services -> 0 .. MDNS_RESPONSE_TTL]
  BY <1>2, <1>3, <1>4, StepTyped
<1>6. calls' \in 0 .. MaxCalls
  BY <1>3, Sizes DEF BonjourTypes
<1>7. lastAnnounce' \in Clock
  BY <1>2, <1>3 DEF BonjourTypes
<1> QED BY <1>3, <1>5, <1>6, <1>7 DEF BonjourTypes

\* The types hold at the start and every step keeps them.
LEMMA TypesKept ==
  /\ Init => BonjourTypes
  /\ BonjourTypes /\ [Next]_vars => BonjourTypes'
<1>1. Init => BonjourTypes
  <2> SUFFICES ASSUME Init PROVE BonjourTypes
    OBVIOUS
  <2>1. query \in Queries
    <3> DEFINE N == QueryNames(0) \cup QueryNames(1)
    <3>1. /\ \A i \in {0, 1} : <<>> \in QueryNames(i)
          /\ <<>> \in N /\ 0 \in Clock
      BY Sizes DEF QueryNames
    <3> HIDE DEF N
    <3>2. Closed \in [name : N, timeout : Clock, last : Clock] /\ Closed.name = <<>>
      BY <3>1 DEF Closed
    <3>3. query = [i \in {0, 1} |-> Closed]
      BY DEF Init
    <3>4. /\ query \in [{0, 1} -> [name : N, timeout : Clock, last : Clock]]
          /\ \A i \in {0, 1} : query[i].name \in QueryNames(i)
      BY <3>1, <3>2, <3>3
    <3> QED BY <3>4 DEF Queries, N
  <2>2. out.sent = <<>>
    BY DEF Init, Outcome, Quiet
  <2>3. out.sent \in Seq(AllMessages)
    BY <2>2, EmptySeq
  <2>4. millis \in Clock /\ lastAnnounce \in Clock /\ calls \in 0 .. MaxCalls
    BY Sizes DEF Init
  <2>5. serviceRecords \in [Slots -> Services \cup {NoService}] /\ asked \in BOOLEAN
    BY DEF Init
  <2>6. known \in [Services -> 0 .. MDNS_RESPONSE_TTL]
    <3>1. 0 \in 0 .. MDNS_RESPONSE_TTL
      BY Sizes
    <3> QED BY <3>1 DEF Init
  <2> QED BY <2>1, <2>3, <2>4, <2>5, <2>6 DEF Init, BonjourTypes
<1>2. BonjourTypes /\ [Next]_vars => BonjourTypes'
  <2> SUFFICES ASSUME BonjourTypes, [Next]_vars PROVE BonjourTypes'
    OBVIOUS
  <2>1. query \in Queries /\ serviceRecords \in [Slots -> Services \cup {NoService}]
    BY DEF BonjourTypes
  <2>2. Typed(Quiet) /\ Quiet.query = query /\ Quiet.sent \in Seq(AllMessages)
    BY <2>1, QuietTyped, SendableMessages
  <2>3. CASE EthernetBonjour_run
    <3>1. Packets \cup {NoPacket} \subseteq MDNSPackets
      BY PacketsTyped
    <3>2. RunOn(Packets \cup {NoPacket}) /\ asked' \in BOOLEAN
      BY <2>3 DEF EthernetBonjour_run, BonjourTypes
    <3> QED BY <3>1, <3>2, RunOnTyped
  <2>4. CASE EthernetBonjour_resolve
    <3>1. PICK c \in Calls : Call(DoCall(Quiet, c, millis)) /\ UNCHANGED <<bonjourName, serviceRecords>>
      BY <2>4 DEF EthernetBonjour_resolve
    <3> DEFINE d == DoCall(Quiet, c, millis)
    <3>2. millis \in Clock /\ c \in Calls \cup {NoCall}
      BY DEF BonjourTypes
    <3>3. d.query \in Queries /\ d.sent \in Seq(AllMessages)
      BY <2>2, <3>2, QueryBegun, SendableMessages
    <3> HIDE DEF d
    <3> QED BY <3>1, <3>3, CallTyped DEF BonjourTypes, d
  <2>5. CASE EthernetBonjour_cancel
    <3>1. PICK i \in {0, 1} : Call(cancelQuery(Quiet, i)) /\ UNCHANGED <<bonjourName, serviceRecords>>
      BY <2>5 DEF EthernetBonjour_cancel
    <3> DEFINE d == cancelQuery(Quiet, i)
    <3>2. d.query \in Queries /\ d.sent \in Seq(AllMessages)
      BY <2>2, QueryCancelled, SendableMessages
    <3> HIDE DEF d
    <3> QED BY <3>1, <3>2, CallTyped DEF BonjourTypes, d
  <2>6. CASE EthernetBonjour_setBonjourName
    <3>1. Call(Quiet) /\ bonjourName' \in {h \o MDNS_TLD : h \in Hosts} /\ UNCHANGED serviceRecords
      BY <2>6 DEF EthernetBonjour_setBonjourName
    <3> QED BY <2>1, <2>2, <3>1, CallTyped
  <2>7. CASE EthernetBonjour_addServiceRecord
    <3>1. PICK s \in Services :
            /\ \E k : serviceRecords' = [serviceRecords EXCEPT ![k] = s]
            /\ Call(Sends(Quiet, <<AboutService("ServiceRecord", s)>>))
            /\ UNCHANGED bonjourName
      BY <2>7 DEF EthernetBonjour_addServiceRecord
    <3> DEFINE m == AboutService("ServiceRecord", s)
               d == Sends(Quiet, <<m>>)
    <3>2. m \in AllMessages
      BY DEF AboutService, Message, AllMessages, Messages, QueryNames
    <3> HIDE DEF m
    <3>3. <<m>> \in Seq(AllMessages)
      BY <3>2
    <3>4. d.query \in Queries /\ d.sent \in Seq(AllMessages)
      BY <2>1, <3>3, QuietSends
    <3>5. serviceRecords' \in [Slots -> Services \cup {NoService}]
      BY <2>1, <3>1
    <3> HIDE DEF d
    <3> QED BY <3>1, <3>4, <3>5, CallTyped DEF BonjourTypes, d, m
  <2>8. ASSUME NEW slots \in Seq(Slots), Release(slots) PROVE BonjourTypes'
    <3> DEFINE ks == Registered(slots)
               ms == [n \in DOMAIN ks |-> AboutService("ServiceRecordRelease", serviceRecords[ks[n]])]
               d == Sends(Quiet, ms)
    <3>1. Call(d) /\ UNCHANGED bonjourName
          /\ serviceRecords' = [k \in Slots |-> IF k \in ToSet(ks) THEN NoService ELSE serviceRecords[k]]
      BY <2>8 DEF Release
    <3>2. ms \in Seq(AllMessages)
      BY <2>1, ReleaseTyped
    <3> HIDE DEF ks, ms
    <3>3. d.query \in Queries /\ d.sent \in Seq(AllMessages)
      BY <2>1, <3>2, QuietSends
    <3>4. serviceRecords' \in [Slots -> Services \cup {NoService}]
      BY <2>1, <3>1
    <3> HIDE DEF d
    <3> QED BY <3>1, <3>3, <3>4, CallTyped DEF BonjourTypes
  <2>9. CASE EthernetBonjour_removeServiceRecord
    <3> DEFINE same(s) == {k \in Slots : serviceRecords[k].port = s.port /\ serviceRecords[k].proto = s.proto}
    <3>1. \E s \in Services : (same(s) # {} /\ Release(<<Min(same(s))>>)) \/ Release(<<>>)
      BY <2>9, Zenon DEF EthernetBonjour_removeServiceRecord
    <3>2. ASSUME NEW s, same(s) # {} /\ Release(<<Min(same(s))>>)
          PROVE  \E slots \in Seq(Slots) : Release(slots)
      BY <3>2, SameService
    <3>3. <<>> \in Seq(Slots)
      BY EmptySeq
    <3>4. \E slots \in Seq(Slots) : Release(slots)
      <4> HIDE DEF same
      <4> QED BY <3>1, <3>2, <3>3
    <3> QED BY <2>8, <3>4
  <2>10. CASE EthernetBonjour_removeAllServiceRecords
    BY <2>8, <2>10, SlotsInOrder DEF EthernetBonjour_removeAllServiceRecords
  <2>11. CASE PeerHears
    <3>1. out'.sent = <<>>
      BY <2>11 DEF PeerHears, Outcome, Quiet
    <3>2. out'.sent \in Seq(AllMessages)
      BY <3>1, EmptySeq
    <3> QED BY <2>11, <3>2 DEF PeerHears, BonjourTypes
  <2>12. CASE PeerIsAnswered
    <3>1. {PeerAnswer} \subseteq MDNSPackets
      BY PacketsTyped
    <3> QED BY <2>12, <3>1, RunOnTyped DEF PeerIsAnswered
  <2>13. CASE UNCHANGED vars
    BY <2>13 DEF vars, BonjourTypes
  <2> QED BY <2>3, <2>4, <2>5, <2>6, <2>7, <2>9, <2>10, <2>11, <2>12, <2>13 DEF Next
<1> QED BY <1>1, <1>2

\* The variables keep their types, whatever packets there are.
THEOREM BonjourTyped == Spec => []TypeOK
<1>1. BonjourTypes => TypeOK
  BY TypesAreOK
<1> QED BY <1>1, TypesKept, PTL DEF Spec

-----------------------------------------------------------------------------
(* Services stay known *)

\* No service has two slots.
OnceEach ==
  \A j, k \in Slots :
    serviceRecords[j] = serviceRecords[k] /\ serviceRecords[j] # NoService => j = k

\* The last announcement is no longer ago than it may be, and as long as it is, others
\* have known the services that are registered for no longer.
Remembered ==
  LET e == Elapsed(millis, lastAnnounce)
  IN  /\ e <= AnnounceTime + MaxPause
      /\ \A s \in Services :
           /\ IsRegistered(s) => known[s] >= MDNS_RESPONSE_TTL - e
           /\ ~IsRegistered(s) => known[s] = 0

KnownInv == OnceEach /\ Remembered

\* Three quarters of the time to live and two pauses are not all of it.
LEMMA AnnounceTimes ==
  /\ AnnounceTime \in Nat /\ MaxPause \in Nat
  /\ AnnounceTime + 2 * MaxPause < MDNS_RESPONSE_TTL
  /\ AnnounceTime + 2 * MaxPause < ClockSpace
<1> DEFINE t == MDNS_RESPONSE_TTL
           m == MaxPause
           h == t \div 2
           q == t \div 4
<1>1. t \in Nat /\ m \in Nat /\ ClockSpace \in Nat /\ 8 * m < t /\ t < ClockSpace
  BY BonjourAssumption
<1>2. h \in Int /\ t - 1 <= 2 * h /\ 2 * h <= t
  <2> HIDE DEF t
  <2> QED BY <1>1
<1>3. q \in Int /\ t - 3 <= 4 * q /\ 4 * q <= t
  <2> HIDE DEF t
  <2> QED BY <1>1
<1>4. AnnounceTime = h + q
  BY DEF AnnounceTime
<1> HIDE DEF h, q, t, m
<1>5. h + q \in Nat /\ h + q + 2 * m < t
  BY <1>1, <1>2, <1>3
<1> QED BY <1>1, <1>4, <1>5 DEF t, m

\* An empty slot holds no service.
LEMMA NoServiceIsNone ==
  NoService \notin Services
BY BonjourAssumption

\* What is known of a service after messages that only announce.
LEMMA OnlyAnnounced ==
  ASSUME BonjourTypes, NEW ms \in Seq(Sendable), NEW sec \in Nat, NEW s \in Services
  PROVE  LET after == KnownAfter(ms, sec)[s]
         IN  /\ IsRegistered(s) => after >= known[s] - sec
             /\ IsRegistered(s) /\ (\E m \in ToSet(ms) : m.service = s) => after = MDNS_RESPONSE_TTL
             /\ ~IsRegistered(s) /\ known[s] = 0 => after = 0
<1> DEFINE about == {n \in DOMAIN ms : ms[n].service = s}
           after == KnownAfter(ms, sec)[s]
           k == known[s]
<1>1. k \in Nat /\ MDNS_RESPONSE_TTL \in Nat /\ k <= MDNS_RESPONSE_TTL
  BY Sizes DEF BonjourTypes
<1>2. \A n \in DOMAIN ms : ms[n] \in Sendable
  BY LenProperties
<1>3. \A n \in about : IsRegistered(s) /\ ms[n].type = "ServiceRecord"
  BY <1>2, NoServiceIsNone DEF Sendable
<1>4. ms \in Seq(AllMessages)
  <2>1. Sendable \subseteq AllMessages
    BY DEF Sendable, AllMessages
  <2> QED BY <2>1, SeqMonotonic
<1>5. /\ about = {} => after = IF k >= sec THEN k - sec ELSE 0
      /\ about # {} => \E n \in about :
           after = IF ms[n].type = "ServiceRecord" THEN MDNS_RESPONSE_TTL ELSE 0
  BY <1>4, WhatIsKnown
<1>6. (\E m \in ToSet(ms) : m.service = s) => about # {}
  BY DEF ToSet
<1> HIDE DEF about, after, k
<1>7. about # {} => IsRegistered(s) /\ after = MDNS_RESPONSE_TTL
  BY <1>3, <1>5
<1>8. k - sec <= MDNS_RESPONSE_TTL /\ (k >= sec \/ k - sec <= 0) /\ (k = 0 /\ k >= sec => k - sec = 0)
  BY <1>1
<1> QED BY <1>1, <1>5, <1>6, <1>7, <1>8 DEF after, k

\* A run does not let a service be forgotten.
LEMMA RunRemembers ==
  ASSUME BonjourTypes, KnownInv, NEW packets, packets \subseteq MDNSPackets, RunOn(packets),
         known' \in [Services -> 0 .. MDNS_RESPONSE_TTL]
  PROVE  KnownInv'
<1>1. PICK p \in packets, before, during \in 0 .. MaxPause, then \in Calls \cup {NoCall}, junk \in Junk :
        Run(p, before, during, then, junk)
  BY DEF RunOn
<1> DEFINE now == (millis + before) % ClockSpace
           at  == (now + during) % ClockSpace
           d   == RunAt(p, now, at, then, junk)
           e   == Elapsed(millis, lastAnnounce)
           sec == before + during
           TTL == MDNS_RESPONSE_TTL
<1>2. /\ now \in Clock /\ before \in Nat /\ during \in Nat /\ sec \in Nat /\ Typed(d)
      /\ AnnounceDue(now) => \A k \in Slots : serviceRecords[k] # NoService =>
           AboutService("ServiceRecord", serviceRecords[k]) \in ToSet(d.sent)
  BY <1>1, RunTyped
<1>3. /\ before + during <= MaxPause /\ serviceRecords' = serviceRecords
      /\ known' = KnownAfter(d.sent, sec) /\ millis' = (millis + sec) % ClockSpace
      /\ lastAnnounce' = IF AnnounceDue(now) THEN now ELSE lastAnnounce
  BY <1>1 DEF Run, Step
<1>4. /\ AnnounceTime \in Nat /\ MaxPause \in Nat
      /\ AnnounceTime + 2 * MaxPause < TTL /\ AnnounceTime + 2 * MaxPause < ClockSpace
      /\ TTL \in Nat /\ ClockSpace \in Nat \ {0}
  BY AnnounceTimes, Sizes
<1>5. millis \in Nat /\ lastAnnounce \in Nat
  BY Sizes DEF BonjourTypes
<1>6. e \in Nat /\ e <= AnnounceTime + MaxPause
  <2>1. millis - lastAnnounce \in Int
    BY <1>5
  <2>2. e \in Clock
    BY <2>1, Sizes DEF Elapsed
  <2> HIDE DEF e
  <2> QED BY <2>2, Sizes DEF KnownInv, Remembered, e
<1>7. e = (millis - lastAnnounce) % ClockSpace
  BY DEF Elapsed
<1> HIDE DEF e, now, at, d
<1>8. Elapsed(now, lastAnnounce) = e + before
  <2>1. ((millis - lastAnnounce) % ClockSpace) + before < ClockSpace
    <3> SUFFICES e + before < ClockSpace
      BY <1>7
    <3> QED BY <1>2, <1>3, <1>4, <1>6
  <2>2. millis \in Int /\ lastAnnounce \in Int /\ before \in Nat /\ ClockSpace \in Nat \ {0}
    BY <1>2, <1>4, <1>5
  <2>3. (((millis + before) % ClockSpace) - lastAnnounce) % ClockSpace =
          ((millis - lastAnnounce) % ClockSpace) + before
    BY <2>1, <2>2, ClockGoesOn, ZenonT(30)
  <2> QED BY <1>7, <2>3 DEF Elapsed, now
<1>9. ASSUME NEW s \in Services
      PROVE  /\ IsRegistered(s) => known'[s] >= known[s] - sec
             /\ IsRegistered(s) /\ AnnounceDue(now) => known'[s] = TTL
             /\ ~IsRegistered(s) => known'[s] = 0
  <2> DEFINE ms == d.sent
             after == KnownAfter(ms, sec)[s]
  <2>1. ms \in Seq(Sendable)
    BY <1>2 DEF Typed
  <2>2. ASSUME IsRegistered(s), AnnounceDue(now)
        PROVE  \E m \in ToSet(ms) : m.service = s
    <3>1. PICK k \in Slots : serviceRecords[k] = s
      BY <2>2 DEF IsRegistered
    <3>2. AboutService("ServiceRecord", s) \in ToSet(ms)
      BY <1>2, <2>2, <3>1, NoServiceIsNone
    <3>3. AboutService("ServiceRecord", s).service = s
      BY DEF AboutService, Message
    <3> QED BY <3>2, <3>3
  <2> HIDE DEF ms, sec
  <2>3. /\ IsRegistered(s) => after >= known[s] - sec
        /\ IsRegistered(s) /\ (\E m \in ToSet(ms) : m.service = s) => after = TTL
        /\ ~IsRegistered(s) /\ known[s] = 0 => after = 0
    BY <1>2, <2>1, OnlyAnnounced
  <2>4. ~IsRegistered(s) => known[s] = 0
    BY DEF KnownInv, Remembered
  <2> HIDE DEF after
  <2>5. known'[s] = after
    BY <1>3 DEF after, ms
  <2> QED BY <2>2, <2>3, <2>4, <2>5
<1>10. \A s \in Services : known[s] \in Nat /\ known[s] <= TTL /\ (IsRegistered(s) => known[s] >= TTL - e)
  <2> SUFFICES ASSUME NEW s \in Services
               PROVE  known[s] \in Nat /\ known[s] <= TTL /\ (IsRegistered(s) => known[s] >= TTL - e)
    OBVIOUS
  <2>1. known[s] \in 0 .. TTL
    BY DEF BonjourTypes
  <2>2. IsRegistered(s) => known[s] >= TTL - e
    BY DEF KnownInv, Remembered, e
  <2> QED BY <1>4, <2>1, <2>2
<1>11. \A s : IsRegistered(s)' <=> IsRegistered(s)
  BY <1>3 DEF IsRegistered
<1>12. OnceEach'
  BY <1>3 DEF KnownInv, OnceEach
<1> DEFINE e2 == Elapsed(millis, lastAnnounce)'
<1>13. CASE AnnounceDue(now)
  <2>1. e2 = during
    <3> DEFINE a == millis + before
               q == a \div ClockSpace
    <3>1. a \in Int /\ now = a % ClockSpace
      BY <1>2, <1>5 DEF now
    <3> HIDE DEF a
    <3>2. q \in Int /\ now \in 0 .. ClockSpace - 1 /\ a = ClockSpace * q + now
      BY <1>4, <3>1, DivisionAndRemainder
    <3> HIDE DEF q
    <3>3. ClockSpace * q \in Int
      BY <1>4, <3>2
    <3>4. a - now = ClockSpace * q + 0 /\ a - now \in Int /\ 0 \in 0 .. ClockSpace - 1
      BY <1>4, <3>1, <3>2, <3>3
    <3>5. (a - now) % ClockSpace = 0
      BY <1>4, <3>2, <3>4, RemainderIsUnique
    <3>6. ((a - now) % ClockSpace) + during < ClockSpace
      BY <1>2, <1>3, <1>4, <3>5
    <3>7. now \in Int /\ during \in Nat /\ ClockSpace \in Nat \ {0}
      BY <1>2, <1>4, <3>2
    <3>8. (((a + during) % ClockSpace) - now) % ClockSpace = ((a - now) % ClockSpace) + during
      BY <3>1, <3>6, <3>7, ClockGoesOn, ZenonT(30)
    <3>9. a + during = millis + sec
      BY <1>2, <1>5 DEF a
    <3>10. e2 = (((a + during) % ClockSpace) - now) % ClockSpace
      BY <1>3, <1>13, <3>9 DEF Elapsed
    <3> QED BY <1>2, <3>5, <3>8, <3>10
  <2>2. e2 <= AnnounceTime + MaxPause /\ e2 \in Nat
    BY <1>2, <1>3, <1>4, <2>1
  <2>3. ASSUME NEW s \in Services
        PROVE  /\ IsRegistered(s)' => known'[s] >= TTL - e2
               /\ ~IsRegistered(s)' => known'[s] = 0
    BY <1>4, <1>9, <1>11, <1>13, <2>2
  <2> QED BY <1>12, <2>2, <2>3 DEF KnownInv, Remembered
<1>14. CASE ~AnnounceDue(now)
  <2>1. e + before <= AnnounceTime
    BY <1>2, <1>4, <1>6, <1>8, <1>14 DEF AnnounceDue
  <2>2. e2 = e + sec
    <3>1. ((millis - lastAnnounce) % ClockSpace) + sec < ClockSpace
      <4> SUFFICES e + sec < ClockSpace
        BY <1>7
      <4> QED BY <1>2, <1>3, <1>4, <1>6
    <3>2. millis \in Int /\ lastAnnounce \in Int /\ sec \in Nat /\ ClockSpace \in Nat \ {0}
      BY <1>2, <1>4, <1>5
    <3> HIDE DEF sec
    <3>3. (((millis + sec) % ClockSpace) - lastAnnounce) % ClockSpace =
            ((millis - lastAnnounce) % ClockSpace) + sec
      BY <3>1, <3>2, ClockGoesOn, ZenonT(30)
    <3> QED BY <1>3, <1>7, <1>14, <3>3 DEF Elapsed
  <2>3. e2 <= AnnounceTime + MaxPause /\ e2 \in Nat
    BY <1>2, <1>3, <1>4, <1>6, <2>1, <2>2
  <2>4. ASSUME NEW s \in Services
        PROVE  /\ IsRegistered(s)' => known'[s] >= TTL - e2
               /\ ~IsRegistered(s)' => known'[s] = 0
    <3>1. ~IsRegistered(s) => known'[s] = 0
      BY <1>9
    <3>2. ASSUME IsRegistered(s) PROVE known'[s] >= TTL - e2
      <4> DEFINE k == known[s]
                 l == known'[s]
      <4>1. k \in Nat /\ k <= TTL /\ k >= TTL - e
        BY <1>10, <3>2
      <4>2. l >= k - sec
        BY <1>9, <3>2
      <4>3. l \in Int
        BY <1>4
      <4> HIDE DEF k, l, e2, sec
      <4>4. l >= TTL - e2
        BY <1>2, <1>4, <1>6, <2>2, <4>1, <4>2, <4>3
      <4> QED BY <4>4 DEF l
    <3> QED BY <1>11, <3>1, <3>2
  <2> QED BY <1>12, <2>3, <2>4 DEF KnownInv, Remembered
<1> QED BY <1>13, <1>14

\* A call takes no time.
LEMMA CallTime ==
  ASSUME BonjourTypes, NEW d, Call(d)
  PROVE  millis' = millis /\ lastAnnounce' = lastAnnounce /\ known' = KnownAfter(d.sent, 0)
<1>1. /\ millis' = (millis + 0) % ClockSpace /\ lastAnnounce' = lastAnnounce
      /\ known' = KnownAfter(d.sent, 0)
  BY DEF Call, Step
<1>2. millis \in 0 .. ClockSpace - 1 /\ ClockSpace \in Nat \ {0}
  BY Sizes DEF BonjourTypes, Clock
<1>3. ClockSpace * 0 = 0 /\ 0 \in Int
  BY <1>2
<1>4. millis + 0 = ClockSpace * 0 + millis /\ millis + 0 \in Int
  BY <1>2, <1>3
<1>5. (millis + 0) % ClockSpace = millis
  BY <1>2, <1>3, <1>4, RemainderIsUnique
<1> QED BY <1>1, <1>5

\* A call that registers nothing and removes nothing.
LEMMA CallRemembers ==
  ASSUME BonjourTypes, KnownInv, NEW d, Typed(d), Call(d), serviceRecords' = serviceRecords
  PROVE  KnownInv'
<1>1. millis' = millis /\ lastAnnounce' = lastAnnounce /\ known' = KnownAfter(d.sent, 0)
  BY CallTime
<1>2. ASSUME NEW s \in Services
      PROVE  /\ IsRegistered(s) => known'[s] >= known[s]
             /\ ~IsRegistered(s) => known'[s] = 0
  <2> DEFINE ms == d.sent
             after == KnownAfter(ms, 0)[s]
             k == known[s]
  <2>1. ms \in Seq(Sendable) /\ 0 \in Nat
    BY DEF Typed
  <2> HIDE DEF ms
  <2>2. /\ IsRegistered(s) => after >= k - 0
        /\ ~IsRegistered(s) /\ k = 0 => after = 0
    BY <2>1, OnlyAnnounced
  <2>3. k \in 0 .. MDNS_RESPONSE_TTL /\ (~IsRegistered(s) => k = 0)
    BY DEF BonjourTypes, KnownInv, Remembered
  <2> HIDE DEF after, k
  <2>4. IsRegistered(s) => after >= k
    BY <2>2, <2>3
  <2> QED BY <1>1, <2>2, <2>3, <2>4 DEF after, ms, k
<1>3. \A s : IsRegistered(s)' <=> IsRegistered(s)
  BY DEF IsRegistered
<1>4. Elapsed(millis, lastAnnounce)' = Elapsed(millis, lastAnnounce)
  BY <1>1 DEF Elapsed
<1> DEFINE e == Elapsed(millis, lastAnnounce)
<1>5. /\ e <= AnnounceTime + MaxPause
      /\ \A s \in Services : IsRegistered(s) => known[s] >= MDNS_RESPONSE_TTL - e
  BY DEF KnownInv, Remembered
<1>6. MDNS_RESPONSE_TTL \in Nat /\ e \in Int
  <2>1. millis - lastAnnounce \in Int
    BY Sizes DEF BonjourTypes
  <2> QED BY <2>1, Sizes DEF Elapsed
<1>7. \A s \in Services : IsRegistered(s) => known'[s] >= MDNS_RESPONSE_TTL - e
  <2> SUFFICES ASSUME NEW s \in Services, IsRegistered(s)
               PROVE  known'[s] >= MDNS_RESPONSE_TTL - e
    OBVIOUS
  <2> DEFINE k == known[s]
             l == known'[s]
             T == MDNS_RESPONSE_TTL
  <2>1. l >= k /\ k >= T - e
    BY <1>2, <1>5
  <2>2. k \in Int
    BY DEF BonjourTypes
  <2>3. l \in Int
    <3>1. known' \in [Services -> 0 .. MDNS_RESPONSE_TTL]
      BY StepTyped, SendableMessages DEF Call
    <3> QED BY <3>1
  <2> HIDE DEF k, l, T, e
  <2>4. T \in Int
    BY <1>6 DEF T
  <2>5. l >= T - e
    BY <1>6, <2>1, <2>2, <2>3, <2>4
  <2> QED BY <2>5 DEF l, T
<1> HIDE DEF e
<1>8. OnceEach'
  BY DEF KnownInv, OnceEach
<1> QED BY <1>2, <1>3, <1>4, <1>5, <1>7, <1>8 DEF KnownInv, Remembered, e

\* What is not spoken of is known as before.
LEMMA NotSpokenOf ==
  ASSUME BonjourTypes, NEW ms \in Seq(AllMessages), NEW s \in Services,
         \A n \in DOMAIN ms : ms[n].service # s
  PROVE  KnownAfter(ms, 0)[s] = known[s]
<1> DEFINE about == {n \in DOMAIN ms : ms[n].service = s}
           after == KnownAfter(ms, 0)[s]
           k == known[s]
<1>1. about = {} /\ 0 \in Nat /\ k \in 0 .. MDNS_RESPONSE_TTL
  BY DEF BonjourTypes
<1>2. after = IF k >= 0 THEN k - 0 ELSE 0
  <2> HIDE DEF after
  <2>1. about = {} => after = IF k >= 0 THEN k - 0 ELSE 0
    BY <1>1, WhatIsKnown DEF after
  <2> QED BY <1>1, <2>1
<1> HIDE DEF after, k
<1>3. after = k
  BY <1>1, <1>2
<1> QED BY <1>3 DEF after, k

\* A service is registered: it is known from then on, and not registered twice.
LEMMA AddRemembers ==
  ASSUME BonjourTypes, KnownInv, EthernetBonjour_addServiceRecord
  PROVE  KnownInv'
<1> DEFINE empty == {k \in Slots : serviceRecords[k] = NoService}
           free == Min(empty)
           About(s) == AboutService("ServiceRecord", s)
<1>1. PICK s \in Services :
        /\ \A k \in Slots : serviceRecords[k] # s
        /\ empty # {}
        /\ serviceRecords' = [serviceRecords EXCEPT ![free] = s]
        /\ Call(Sends(Quiet, <<About(s)>>))
  BY DEF EthernetBonjour_addServiceRecord
<1>2. free \in Slots /\ serviceRecords[free] = NoService
  <2>1. empty \subseteq Slots /\ empty \subseteq Nat /\ empty # {}
    BY <1>1, Sizes
  <2>2. \E x \in empty : \A y \in empty : x <= y
    <3> HIDE DEF empty
    <3> QED BY <2>1, LeastNatural
  <2>3. free \in empty
    <3> HIDE DEF empty
    <3> QED BY <2>2 DEF Min
  <2> QED BY <2>3
<1> DEFINE m == About(s)
           ms == <<m>>
           d == Sends(Quiet, ms)
<1>3. m \in AllMessages /\ m.service = s /\ m.type = "ServiceRecord"
  BY DEF AboutService, Message, AllMessages, Messages, QueryNames
<1> HIDE DEF m, About, free
<1>4. ms \in Seq(AllMessages) /\ DOMAIN ms = {1} /\ ms[1] = m
  BY <1>3
<1>5. Call(d)
  BY <1>1 DEF m
<1> HIDE DEF ms
<1>6. d.sent = ms
  BY <1>4, QuietSends DEF BonjourTypes
<1>7. millis' = millis /\ lastAnnounce' = lastAnnounce /\ known' = KnownAfter(ms, 0)
  BY <1>5, <1>6, CallTime
<1> HIDE DEF d
<1>8. serviceRecords \in [Slots -> Services \cup {NoService}]
  BY DEF BonjourTypes
<1>9. known'[s] = MDNS_RESPONSE_TTL
  <2> DEFINE about == {n \in DOMAIN ms : ms[n].service = s}
             after == KnownAfter(ms, 0)[s]
  <2>1. about = {1} /\ 0 \in Nat
    BY <1>3, <1>4
  <2>2. \E n \in about : after = IF ms[n].type = "ServiceRecord" THEN MDNS_RESPONSE_TTL ELSE 0
    <3>1. about # {} => \E n \in about :
            after = IF ms[n].type = "ServiceRecord" THEN MDNS_RESPONSE_TTL ELSE 0
      BY <1>4, <2>1, WhatIsKnown
    <3> QED BY <2>1, <3>1
  <2>3. after = MDNS_RESPONSE_TTL
    <3> HIDE DEF after
    <3> QED BY <1>3, <1>4, <2>1, <2>2
  <2> QED BY <1>7, <2>3
<1>10. \A t \in Services : t # s => known'[t] = known[t]
  <2> SUFFICES ASSUME NEW t \in Services, t # s PROVE known'[t] = known[t]
    OBVIOUS
  <2>1. \A n \in DOMAIN ms : ms[n].service # t
    BY <1>3, <1>4
  <2> QED BY <1>4, <1>7, <2>1, NotSpokenOf
<1>11. /\ IsRegistered(s)'
       /\ \A t \in Services : t # s => (IsRegistered(t)' <=> IsRegistered(t))
  <2>1. serviceRecords'[free] = s /\ \A k \in Slots : k # free => serviceRecords'[k] = serviceRecords[k]
    BY <1>1, <1>2, <1>8
  <2>2. IsRegistered(s)'
    BY <1>2, <2>1 DEF IsRegistered
  <2>3. ASSUME NEW t \in Services, t # s PROVE IsRegistered(t)' <=> IsRegistered(t)
    BY <1>2, <2>1, <2>3, NoServiceIsNone DEF IsRegistered
  <2> QED BY <2>2, <2>3
<1>12. OnceEach'
  <2> SUFFICES ASSUME NEW j \in Slots, NEW k \in Slots,
                      serviceRecords'[j] = serviceRecords'[k], serviceRecords'[j] # NoService
               PROVE  j = k
    BY DEF OnceEach
  <2>1. /\ serviceRecords'[free] = s
        /\ \A i \in Slots : i # free => serviceRecords'[i] = serviceRecords[i]
    BY <1>1, <1>2, <1>8
  <2> QED BY <1>1, <2>1 DEF KnownInv, OnceEach
<1>13. Elapsed(millis, lastAnnounce)' = Elapsed(millis, lastAnnounce)
  BY <1>7 DEF Elapsed
<1> DEFINE e == Elapsed(millis, lastAnnounce)
<1>14. e \in Nat /\ MDNS_RESPONSE_TTL \in Nat
  <2>1. millis - lastAnnounce \in Int
    BY Sizes DEF BonjourTypes
  <2> QED BY <2>1, Sizes DEF Elapsed
<1> HIDE DEF e
<1>15. MDNS_RESPONSE_TTL >= MDNS_RESPONSE_TTL - e
  BY <1>14
<1>16. /\ e <= AnnounceTime + MaxPause
       /\ \A t \in Services : /\ IsRegistered(t) => known[t] >= MDNS_RESPONSE_TTL - e
                              /\ ~IsRegistered(t) => known[t] = 0
  BY DEF KnownInv, Remembered, e
<1>17. \A t \in Services : /\ IsRegistered(t)' => known'[t] >= MDNS_RESPONSE_TTL - e
                           /\ ~IsRegistered(t)' => known'[t] = 0
  <2> SUFFICES ASSUME NEW t \in Services
               PROVE  /\ IsRegistered(t)' => known'[t] >= MDNS_RESPONSE_TTL - e
                      /\ ~IsRegistered(t)' => known'[t] = 0
    OBVIOUS
  <2>1. CASE t = s
    BY <1>9, <1>11, <1>15, <2>1
  <2>2. CASE t # s
    BY <1>10, <1>11, <1>16, <2>2
  <2> QED BY <2>1, <2>2
<1> QED BY <1>12, <1>13, <1>16, <1>17 DEF KnownInv, Remembered, e

\* Services are removed: they are known no longer, and all others are as before.
LEMMA ReleaseRemembers ==
  ASSUME BonjourTypes, KnownInv, NEW slots \in Seq(Slots), Release(slots)
  PROVE  KnownInv'
<1> DEFINE ks == Registered(slots)
           ms == [n \in DOMAIN ks |-> AboutService("ServiceRecordRelease", serviceRecords[ks[n]])]
           d == Sends(Quiet, ms)
<1>1. Call(d) /\ serviceRecords' = [k \in Slots |-> IF k \in ToSet(ks) THEN NoService ELSE serviceRecords[k]]
  BY DEF Release
<1>2. serviceRecords \in [Slots -> Services \cup {NoService}] /\ query \in Queries
  BY DEF BonjourTypes
<1>3. /\ ks \in Seq({k \in Slots : serviceRecords[k] # NoService})
      /\ DOMAIN ks = DOMAIN ms /\ ms \in Seq(AllMessages)
      /\ \A n \in DOMAIN ms : /\ ms[n].service = serviceRecords[ks[n]]
                              /\ ms[n].type = "ServiceRecordRelease"
  BY <1>2, ReleaseTyped
<1> HIDE DEF ks, ms
<1>4. d.sent = ms
  BY <1>2, <1>3, QuietSends
<1>5. millis' = millis /\ lastAnnounce' = lastAnnounce /\ known' = KnownAfter(ms, 0)
  BY <1>1, <1>4, CallTime
<1> HIDE DEF d
<1>6. \A n \in DOMAIN ms : ks[n] \in Slots /\ ks[n] \in ToSet(ks)
  <2> DEFINE U == {k \in Slots : serviceRecords[k] # NoService}
  <2>1. \A n \in DOMAIN ks : ks[n] \in U
    <3>1. ks \in Seq(U)
      BY <1>3
    <3> HIDE DEF U
    <3> QED BY <3>1, LenProperties
  <2> QED BY <1>3, <2>1 DEF ToSet
<1> DEFINE e == Elapsed(millis, lastAnnounce)
           Was(s) == /\ IsRegistered(s) => known[s] >= MDNS_RESPONSE_TTL - e
                     /\ ~IsRegistered(s) => known[s] = 0
<1>7. e <= AnnounceTime + MaxPause /\ \A s \in Services : Was(s)
  BY DEF KnownInv, Remembered
<1> HIDE DEF e
<1>8. ASSUME NEW s \in Services, NEW n \in DOMAIN ms, ms[n].service = s
      PROVE  known'[s] = 0 /\ ~IsRegistered(s)'
  <2> DEFINE about == {i \in DOMAIN ms : ms[i].service = s}
             after == KnownAfter(ms, 0)[s]
  <2>1. about # {} /\ 0 \in Nat
    BY <1>8
  <2>2. \E i \in about : after = IF ms[i].type = "ServiceRecord" THEN MDNS_RESPONSE_TTL ELSE 0
    <3>1. about # {} => \E i \in about :
            after = IF ms[i].type = "ServiceRecord" THEN MDNS_RESPONSE_TTL ELSE 0
      BY <1>3, <2>1, WhatIsKnown
    <3> QED BY <2>1, <3>1
  <2>3. after = 0
    <3> HIDE DEF after
    <3> QED BY <1>3, <2>2
  <2>4. ~IsRegistered(s)'
    <3> SUFFICES ASSUME NEW k \in Slots, serviceRecords'[k] = s PROVE FALSE
      BY DEF IsRegistered
    <3>1. k \notin ToSet(ks) /\ serviceRecords[k] = s
      BY <1>1, NoServiceIsNone
    <3>2. ks[n] = k
      BY <1>3, <1>6, <1>8, <3>1, NoServiceIsNone DEF KnownInv, OnceEach
    <3> QED BY <1>6, <3>1, <3>2
  <2> QED BY <1>5, <2>3, <2>4
<1>9. ASSUME NEW s \in Services, \A n \in DOMAIN ms : ms[n].service # s
      PROVE  known'[s] = known[s] /\ (IsRegistered(s)' <=> IsRegistered(s))
  <2>1. KnownAfter(ms, 0)[s] = known[s]
    BY <1>3, <1>9, NotSpokenOf
  <2>2. ASSUME NEW k \in Slots, serviceRecords[k] = s PROVE k \notin ToSet(ks)
    BY <1>3, <1>9, <2>2 DEF ToSet
  <2>3. IsRegistered(s)' <=> IsRegistered(s)
    BY <1>1, <2>2, NoServiceIsNone DEF IsRegistered
  <2> QED BY <1>5, <2>1, <2>3
<1>10. \A s \in Services : /\ IsRegistered(s)' => known'[s] >= MDNS_RESPONSE_TTL - e
                           /\ ~IsRegistered(s)' => known'[s] = 0
  <2> SUFFICES ASSUME NEW s \in Services
               PROVE  /\ IsRegistered(s)' => known'[s] >= MDNS_RESPONSE_TTL - e
                      /\ ~IsRegistered(s)' => known'[s] = 0
    OBVIOUS
  <2>1. CASE \E n \in DOMAIN ms : ms[n].service = s
    BY <1>8, <2>1
  <2>2. CASE \A n \in DOMAIN ms : ms[n].service # s
    <3>1. known'[s] = known[s] /\ (IsRegistered(s)' <=> IsRegistered(s))
      BY <1>9, <2>2
    <3> QED BY <1>7, <3>1
  <2> QED BY <2>1, <2>2
<1>11. Elapsed(millis, lastAnnounce)' = e
  BY <1>5 DEF Elapsed, e
<1>12. OnceEach'
  BY <1>1 DEF KnownInv, OnceEach
<1> QED BY <1>7, <1>10, <1>11, <1>12 DEF KnownInv, Remembered

\* Every step keeps the invariant.
LEMMA KnownKept ==
  BonjourTypes /\ KnownInv /\ [Next]_vars => KnownInv'
<1> SUFFICES ASSUME BonjourTypes, KnownInv, [Next]_vars PROVE KnownInv'
  OBVIOUS
<1>1. BonjourTypes'
  BY TypesKept
<1>2. query \in Queries /\ known' \in [Services -> 0 .. MDNS_RESPONSE_TTL]
  BY <1>1 DEF BonjourTypes
<1>3. Typed(Quiet)
  BY <1>2, QuietTyped
<1>4. CASE EthernetBonjour_run
  <2>1. Packets \cup {NoPacket} \subseteq MDNSPackets
    BY PacketsTyped
  <2>2. RunOn(Packets \cup {NoPacket})
    BY <1>4 DEF EthernetBonjour_run
  <2> QED BY <1>2, <2>1, <2>2, RunRemembers
<1>5. CASE EthernetBonjour_resolve
  <2>1. PICK c \in Calls : Call(DoCall(Quiet, c, millis)) /\ UNCHANGED serviceRecords
    BY <1>5 DEF EthernetBonjour_resolve
  <2>2. millis \in Clock /\ c \in Calls \cup {NoCall}
    BY DEF BonjourTypes
  <2> DEFINE d == DoCall(Quiet, c, millis)
  <2>3. Typed(d)
    BY <1>3, <2>2, QueryBegun
  <2> HIDE DEF d
  <2> QED BY <2>1, <2>3, CallRemembers DEF d
<1>6. CASE EthernetBonjour_cancel
  <2>1. PICK i \in {0, 1} : Call(cancelQuery(Quiet, i)) /\ UNCHANGED serviceRecords
    BY <1>6 DEF EthernetBonjour_cancel
  <2> DEFINE d == cancelQuery(Quiet, i)
  <2>2. Typed(d)
    BY <1>3, QueryCancelled
  <2> HIDE DEF d
  <2> QED BY <2>1, <2>2, CallRemembers DEF d
<1>7. CASE EthernetBonjour_setBonjourName
  BY <1>3, <1>7, CallRemembers DEF EthernetBonjour_setBonjourName
<1>8. CASE EthernetBonjour_addServiceRecord
  BY <1>8, AddRemembers
<1>9. CASE EthernetBonjour_removeServiceRecord
  <2> DEFINE same(s) == {k \in Slots : serviceRecords[k].port = s.port /\ serviceRecords[k].proto = s.proto}
  <2>1. \E s \in Services : (same(s) # {} /\ Release(<<Min(same(s))>>)) \/ Release(<<>>)
    BY <1>9, Zenon DEF EthernetBonjour_removeServiceRecord
  <2>2. ASSUME NEW s, same(s) # {} /\ Release(<<Min(same(s))>>)
        PROVE  \E slots \in Seq(Slots) : Release(slots)
    BY <2>2, SameService
  <2>3. <<>> \in Seq(Slots)
    BY EmptySeq
  <2>4. \E slots \in Seq(Slots) : Release(slots)
    <3> HIDE DEF same
    <3> QED BY <2>1, <2>2, <2>3
  <2> QED BY <2>4, ReleaseRemembers
<1>10. CASE EthernetBonjour_removeAllServiceRecords
  BY <1>10, SlotsInOrder, ReleaseRemembers DEF EthernetBonjour_removeAllServiceRecords
<1>11. CASE PeerIsAnswered
  <2>1. {PeerAnswer} \subseteq MDNSPackets /\ RunOn({PeerAnswer})
    BY <1>11, PacketsTyped DEF PeerIsAnswered
  <2> QED BY <1>2, <2>1, RunRemembers
<1>12. CASE PeerHears \/ UNCHANGED vars
  BY <1>12 DEF PeerHears, vars, KnownInv, OnceEach, Remembered, IsRegistered, Elapsed
<1> QED
  BY <1>4, <1>5, <1>6, <1>7, <1>8, <1>9, <1>10, <1>11, <1>12 DEF Next

\* As long as run() is called often enough, other hosts know exactly the services that
\* are registered, whatever else happens on the network and in the program.
THEOREM StaysKnownAlways == Spec => []StaysKnown
<1>1. Init => KnownInv
  <2> SUFFICES ASSUME Init PROVE KnownInv
    OBVIOUS
  <2>1. OnceEach
    BY DEF Init, OnceEach
  <2>2. Elapsed(millis, lastAnnounce) = 0
    <3> DEFINE C == ClockSpace
    <3>1. C \in Nat \ {0}
      BY Sizes
    <3> HIDE DEF C
    <3>2. 0 - 0 = C * 0 + 0 /\ 0 - 0 \in Int /\ 0 \in 0 .. C - 1
      BY <3>1
    <3>3. (0 - 0) % C = 0
      BY <3>1, <3>2, RemainderIsUnique
    <3>4. millis = 0 /\ lastAnnounce = 0
      BY DEF Init
    <3> QED BY <3>3, <3>4 DEF Elapsed, C
  <2>3. \A s \in Services : ~IsRegistered(s) /\ known[s] = 0
    BY NoServiceIsNone DEF Init, IsRegistered
  <2> QED BY <2>1, <2>2, <2>3, AnnounceTimes DEF KnownInv, Remembered
<1>2. BonjourTypes /\ KnownInv => StaysKnown
  <2> SUFFICES ASSUME BonjourTypes, KnownInv, NEW s \in Services
               PROVE  known[s] > 0 <=> IsRegistered(s)
    BY DEF StaysKnown, IsRegistered
  <2> DEFINE k == known[s]
             e == Elapsed(millis, lastAnnounce)
  <2>1. k \in Nat /\ (IsRegistered(s) => k >= MDNS_RESPONSE_TTL - e) /\ (~IsRegistered(s) => k = 0)
    BY Sizes DEF BonjourTypes, KnownInv, Remembered
  <2>2. e <= AnnounceTime + MaxPause
    BY DEF KnownInv, Remembered
  <2>3. e \in Int
    <3>1. millis - lastAnnounce \in Int
      BY Sizes DEF BonjourTypes
    <3> QED BY <3>1, Sizes DEF Elapsed
  <2> HIDE DEF k, e
  <2>4. MDNS_RESPONSE_TTL - e > 0
    BY <2>2, <2>3, AnnounceTimes, Sizes
  <2>5. MDNS_RESPONSE_TTL - e \in Int
    BY <2>3, Sizes
  <2>6. IsRegistered(s) => k > 0
    BY <2>1, <2>4, <2>5
  <2> QED BY <2>1, <2>6 DEF k
<1> QED BY <1>1, <1>2, TypesKept, KnownKept, PTL DEF Spec

-----------------------------------------------------------------------------
(* What the program is told *)

\* Nothing has been told, or the name that was looked for, of a packet taken.
Tells ==
  \/ out'.told = <<>>
  \/ /\ out'.packet \in MDNSPackets /\ IsOpen(query[0]) /\ ~IsOpen(query'[0])
     /\ \E a \in Nat : out'.told = ToldOf(a) /\ (a # 0 => IsAnswer(out'.packet, a))

\* A run tells of a name at most once.
LEMMA RunTells ==
  ASSUME BonjourTypes, NEW packets, packets \subseteq MDNSPackets, RunOn(packets)
  PROVE  Tells
<1>1. PICK p \in packets, before, during \in 0 .. MaxPause, then \in Calls \cup {NoCall}, junk \in Junk :
        Run(p, before, during, then, junk)
  BY DEF RunOn
<1> DEFINE now == (millis + before) % ClockSpace
           at  == (now + during) % ClockSpace
           d   == RunAt(p, now, at, then, junk)
<1>2. Handled(d, p)
  BY <1>1, RunTyped
<1>3. Step(d, p, before + during)
  BY <1>1 DEF Run
<1> HIDE DEF now, at, d
<1>4. query' = d.query /\ out' = Outcome(d, p)
  BY <1>3 DEF Step
<1>5. out'.told = d.told /\ out'.packet = p
  BY <1>4 DEF Outcome
<1>6. ToldOnce(d, p) /\ p \in MDNSPackets
  BY <1>2 DEF Handled
<1> QED BY <1>4, <1>5, <1>6 DEF ToldOnce, Tells

\* A call of the program tells it nothing.
LEMMA CallTells ==
  ASSUME NEW d, d.told = <<>>, Call(d)
  PROVE  Tells
BY DEF Call, Step, Outcome, Tells

\* Removing services tells it nothing.
LEMMA ReleaseTells ==
  ASSUME BonjourTypes, NEW slots \in Seq(Slots), Release(slots)
  PROVE  Tells
<1> DEFINE ks == Registered(slots)
           ms == [n \in DOMAIN ks |-> AboutService("ServiceRecordRelease", serviceRecords[ks[n]])]
           d == Sends(Quiet, ms)
<1>1. Call(d)
  BY DEF Release
<1>2. ms \in Seq(AllMessages)
  BY ReleaseTyped DEF BonjourTypes
<1>3. query \in Queries
  BY DEF BonjourTypes
<1> HIDE DEF ms
<1>4. d.told = <<>>
  BY <1>2, <1>3, QuietSends
<1> QED BY <1>1, <1>4, CallTells

\* Every step tells the program nothing or one thing.
LEMMA StepTells ==
  BonjourTypes /\ Next => Tells
<1> SUFFICES ASSUME BonjourTypes, Next PROVE Tells
  OBVIOUS
<1>1. query \in Queries /\ millis \in Clock
  BY DEF BonjourTypes
<1>2. Typed(Quiet) /\ Quiet.told = <<>>
  BY <1>1, QuietTyped
<1>3. CASE EthernetBonjour_run
  <2>1. Packets \cup {NoPacket} \subseteq MDNSPackets
    BY PacketsTyped
  <2>2. RunOn(Packets \cup {NoPacket})
    BY <1>3 DEF EthernetBonjour_run
  <2> QED BY <2>1, <2>2, RunTells
<1>4. CASE EthernetBonjour_resolve
  <2>1. PICK c \in Calls : Call(DoCall(Quiet, c, millis))
    BY <1>4 DEF EthernetBonjour_resolve
  <2>2. DoCall(Quiet, c, millis).told = <<>>
    BY <1>1, <1>2, QueryBegun
  <2> QED BY <2>1, <2>2, CallTells
<1>5. CASE EthernetBonjour_cancel
  <2>1. PICK i \in {0, 1} : Call(cancelQuery(Quiet, i))
    BY <1>5 DEF EthernetBonjour_cancel
  <2>2. cancelQuery(Quiet, i).told = <<>>
    BY <1>2, QueryCancelled
  <2> QED BY <2>1, <2>2, CallTells
<1>6. CASE EthernetBonjour_setBonjourName
  BY <1>2, <1>6, CallTells DEF EthernetBonjour_setBonjourName
<1>7. CASE EthernetBonjour_addServiceRecord
  <2>1. PICK s \in Services : Call(Sends(Quiet, <<AboutService("ServiceRecord", s)>>))
    BY <1>7 DEF EthernetBonjour_addServiceRecord
  <2> DEFINE m == AboutService("ServiceRecord", s)
  <2>2. m \in AllMessages
    BY DEF AboutService, Message, AllMessages, Messages, QueryNames
  <2> HIDE DEF m
  <2>3. <<m>> \in Seq(AllMessages)
    BY <2>2
  <2>4. Sends(Quiet, <<m>>).told = <<>>
    BY <1>1, <2>3, QuietSends
  <2> QED BY <2>1, <2>4, CallTells DEF m
<1>8. CASE EthernetBonjour_removeServiceRecord
  <2> DEFINE same(s) == {k \in Slots : serviceRecords[k].port = s.port /\ serviceRecords[k].proto = s.proto}
  <2>1. \E s \in Services : (same(s) # {} /\ Release(<<Min(same(s))>>)) \/ Release(<<>>)
    BY <1>8, Zenon DEF EthernetBonjour_removeServiceRecord
  <2>2. ASSUME NEW s, same(s) # {} /\ Release(<<Min(same(s))>>)
        PROVE  \E slots \in Seq(Slots) : Release(slots)
    BY <2>2, SameService
  <2>3. <<>> \in Seq(Slots)
    BY EmptySeq
  <2>4. \E slots \in Seq(Slots) : Release(slots)
    <3> HIDE DEF same
    <3> QED BY <2>1, <2>2, <2>3
  <2> QED BY <2>4, ReleaseTells
<1>9. CASE EthernetBonjour_removeAllServiceRecords
  BY <1>9, SlotsInOrder, ReleaseTells DEF EthernetBonjour_removeAllServiceRecords
<1>10. CASE PeerHears
  BY <1>10 DEF PeerHears, Outcome, Quiet, Tells
<1>11. CASE PeerIsAnswered
  <2>1. {PeerAnswer} \subseteq MDNSPackets /\ RunOn({PeerAnswer})
    BY <1>11, PacketsTyped DEF PeerIsAnswered
  <2> QED BY <2>1, RunTells
<1> QED BY <1>3, <1>4, <1>5, <1>6, <1>7, <1>8, <1>9, <1>10, <1>11 DEF Next

\* The program is called back for the query that is open, once, and that query is open
\* no longer: one that is open then was begun by the callback.
THEOREM AnsweredOnceAlways == Spec => AnsweredOnce
<1> DEFINE A == out'.told # <<>> =>
                  /\ Len(out'.told) = 1
                  /\ IsOpen(query[0]) /\ out'.told[1].name = BeforeLastDot(query[0].name)
                  /\ 0 \in out'.begun \/ ~IsOpen(query'[0])
<1>1. BonjourTypes /\ [Next]_vars => [A]_vars
  <2> SUFFICES ASSUME BonjourTypes, Next, out'.told # <<>> PROVE A
    OBVIOUS
  <2>1. Tells
    BY StepTells
  <2>2. PICK a \in Nat : out'.told = ToldOf(a)
    BY <2>1 DEF Tells
  <2>3. Len(out'.told) = 1 /\ out'.told[1].name = BeforeLastDot(query[0].name)
    BY <2>2 DEF ToldOf
  <2> QED BY <2>1, <2>3 DEF Tells
<1>2. AnsweredOnce <=> [][A]_vars
  BY DEF AnsweredOnce
<1> HIDE DEF A
<1> QED BY <1>1, <1>2, TypesKept, PTL DEF Spec

-----------------------------------------------------------------------------
(* Labels that match a name *)

\* w is what is left of the string v after q of its words and dots.
Follows(w, v, q) ==
  /\ w \in Seq(STRING) /\ q \in 0 .. Len(v) /\ Len(w) = Len(v) - q
  /\ \A j \in 1 .. Len(w) : w[j] = v[q + j]

\* What is left after some of what is left.
LEMMA FollowsOn ==
  ASSUME NEW v \in Seq(STRING), NEW w, NEW q, Follows(w, v, q), NEW x, NEW k, Follows(x, w, k)
  PROVE  Follows(x, v, q + k)
<1> DEFINE n == Len(v)
           m == Len(w)
           l == Len(x)
<1>1. /\ n \in Nat /\ q \in 0 .. n /\ m = n - q /\ k \in 0 .. m /\ l = m - k
      /\ x \in Seq(STRING)
  BY LenProperties DEF Follows
<1>2. (\A j \in 1 .. m : w[j] = v[q + j]) /\ (\A j \in 1 .. l : x[j] = w[k + j])
  BY DEF Follows
<1> HIDE DEF n, m, l
<1>3. q + k \in 0 .. n /\ l = n - (q + k)
  BY <1>1
<1>4. ASSUME NEW j \in 1 .. l PROVE x[j] = v[(q + k) + j]
  <2>1. k + j \in 1 .. m /\ q + (k + j) = (q + k) + j
    BY <1>1
  <2> QED BY <1>2, <2>1
<1> QED BY <1>1, <1>3, <1>4 DEF Follows, n, l

\* The end of a string.
LEMMA EndFollows ==
  ASSUME NEW v \in Seq(STRING), NEW q \in 0 .. Len(v)
  PROVE  Follows(SubSeq(v, q + 1, Len(v)), v, q)
<1> DEFINE n == Len(v)
           w == SubSeq(v, q + 1, n)
<1>1. n \in Nat /\ \A j \in 1 .. n : v[j] \in STRING
  BY LenProperties
<1> HIDE DEF n
<1>2. q \in Nat /\ q + 1 \in Int /\ n \in Int /\ \A j \in q + 1 .. n : v[j] \in STRING
  BY <1>1 DEF n
<1>3. /\ w \in Seq(STRING) /\ Len(w) = IF q + 1 <= n THEN n - (q + 1) + 1 ELSE 0
      /\ \A j \in 1 .. n - (q + 1) + 1 : w[j] = v[(q + 1) + j - 1]
  BY <1>2, SubSeqProperties
<1>4. q <= n
  BY <1>1 DEF n
<1> HIDE DEF w
<1>5. Len(w) = n - q /\ \A j \in 1 .. n - q : (q + 1) + j - 1 = q + j
  BY <1>1, <1>2, <1>3, <1>4
<1>6. n - (q + 1) + 1 = n - q
  BY <1>1, <1>2
<1>7. \A j \in 1 .. n - q : w[j] = v[q + j]
  BY <1>3, <1>5, <1>6
<1> QED BY <1>3, <1>5, <1>7 DEF Follows, w, n

\* A label that does not match leaves NoMatch; one that does is the beginning, and a dot
\* that follows it goes as well.
LEMMA PartMatched ==
  ASSUME NEW v \in Seq(STRING), NEW l \in Seq(Words)
  PROVE  LET w == matchStringPart(v, l)
             k == Len(l)
         IN  \/ w = NoMatch
             \/ /\ k \in 0 .. Len(v) /\ \A j \in 1 .. k : v[j] = l[j]
                /\ \/ Follows(w, v, k)
                   \/ k + 1 \in 1 .. Len(v) /\ v[k + 1] = Dot /\ Follows(w, v, k + 1)
<1> DEFINE w == matchStringPart(v, l)
           k == Len(l)
           n == Len(v)
           rest == SubSeq(v, k + 1, n)
<1>1. k \in Nat /\ n \in Nat /\ v \in [1 .. n -> STRING] /\ l \in [1 .. k -> Words]
  BY LenProperties
<1>2. w = IF IsPrefix(l, v) THEN IF IsPrefix(<<Dot>>, rest) THEN Tail(rest) ELSE rest ELSE NoMatch
  BY DEF matchStringPart
<1>3. CASE IsPrefix(l, v)
  <2>1. k <= n /\ SubSeq(l, 1, k) = SubSeq(v, 1, k)
    BY <1>3 DEF IsPrefix
  <2>2. k \in 0 .. n
    BY <1>1, <2>1
  <2>3. Follows(rest, v, k)
    BY <2>2, EndFollows
  <2> HIDE DEF rest, w
  <2>4. ASSUME NEW j \in 1 .. k PROVE v[j] = l[j]
    <3>1. 1 \in Int /\ k \in Int /\ k - 1 + 1 = k /\ 1 + j - 1 = j
      BY <1>1
    <3>2. (\A i \in 1 .. k : l[i] \in Words) /\ (\A i \in 1 .. k : v[i] \in STRING)
      BY <1>1, <2>1
    <3> HIDE DEF k
    <3>3. SubSeq(l, 1, k)[j] = l[j]
      BY <3>1, <3>2, SubSeqProperties
    <3>4. SubSeq(v, 1, k)[j] = v[j]
      BY <3>1, <3>2, SubSeqProperties
    <3> QED BY <2>1, <3>3, <3>4
  <2>5. CASE ~IsPrefix(<<Dot>>, rest)
    <3>1. w = rest
      BY <1>2, <1>3, <2>5
    <3> QED BY <2>2, <2>3, <2>4, <3>1 DEF w
  <2>6. CASE IsPrefix(<<Dot>>, rest)
    <3> DEFINE m == Len(rest)
               s == <<Dot>>
    <3>1. Len(s) = 1 /\ s[1] = Dot /\ Dot \in STRING /\ s \in Seq({Dot})
      BY BonjourAssumption
    <3>2. rest \in Seq(STRING) /\ m = n - k /\ m \in Nat
      BY <2>3, LenProperties DEF Follows
    <3>3. 1 <= m /\ SubSeq(s, 1, 1) = SubSeq(rest, 1, 1)
      BY <2>6, <3>1 DEF IsPrefix
    <3>4. rest[1] = Dot
      <4> HIDE DEF m
      <4>1. 1 \in 1 .. m /\ rest[1] \in STRING
        <5>1. 1 \in 1 .. m
          BY <3>3, <3>2
        <5> QED BY <3>2, <5>1, ElementOfSeq DEF m
      <4>2. /\ 1 \in Int /\ (\A i \in 1 .. 1 : s[i] \in {Dot}) /\ (\A i \in 1 .. 1 : rest[i] \in STRING)
            /\ 1 - 1 + 1 = 1 /\ 1 + 1 - 1 = 1 /\ 1 \in 1 .. 1
        BY <3>1, <4>1
      <4> HIDE DEF s
      <4>3. SubSeq(s, 1, 1)[1] = s[1]
        BY <4>2, SubSeqProperties
      <4>4. SubSeq(rest, 1, 1)[1] = rest[1]
        BY <4>2, SubSeqProperties
      <4> QED BY <3>1, <3>3, <4>3, <4>4
    <3>5. v[k + 1] = Dot
      <4>1. \A j \in 1 .. m : rest[j] = v[k + j]
        BY <2>3 DEF Follows
      <4>2. 1 \in 1 .. m
        BY <3>3, <3>2
      <4> QED BY <3>4, <4>1, <4>2
    <3>6. Follows(Tail(rest), rest, 1)
      <4> HIDE DEF m
      <4>1. rest # <<>>
        BY <3>3, <3>2 DEF m
      <4>2. /\ Tail(rest) \in Seq(STRING) /\ Len(Tail(rest)) = m - 1
            /\ \A i \in 1 .. Len(Tail(rest)) : Tail(rest)[i] = rest[i + 1]
        BY <3>2, <4>1, HeadTailProperties DEF m
      <4> DEFINE t == Tail(rest)
      <4> HIDE DEF t
      <4>3. \A i \in 1 .. Len(t) : i + 1 = 1 + i
        BY <4>2, <3>2 DEF t
      <4>4. 1 \in 0 .. m
        BY <3>3, <3>2
      <4> QED BY <4>2, <4>3, <4>4 DEF Follows, m, t
    <3>7. Follows(Tail(rest), v, k + 1)
      BY <2>3, <3>6, FollowsOn
    <3>8. k + 1 \in 1 .. n
      BY <1>1, <3>3, <3>2
    <3>9. w = Tail(rest)
      BY <1>2, <1>3, <2>6
    <3> QED BY <2>2, <2>4, <3>5, <3>7, <3>8, <3>9 DEF w
  <2> QED BY <2>5, <2>6
<1>4. CASE ~IsPrefix(l, v)
  BY <1>2, <1>4
<1> QED BY <1>3, <1>4

\* Nothing but NoMatch comes after NoMatch: no label has a dot of its own.
LEMMA NoMatchStays ==
  ASSUME NEW l \in Seq(Words) \ {<<>>}
  PROVE  matchStringPart(NoMatch, l) = NoMatch
<1> SUFFICES ASSUME IsPrefix(l, NoMatch) PROVE FALSE
  BY DEF matchStringPart
<1> DEFINE k == Len(l)
<1>1. k \in Nat /\ k # 0 /\ l \in [1 .. k -> Words]
  BY LenProperties, EmptySeq
<1>2. Len(NoMatch) = 1 /\ NoMatch[1] = Dot
  BY DEF NoMatch
<1>3. k <= 1 /\ SubSeq(l, 1, k) = SubSeq(NoMatch, 1, k)
  BY <1>2 DEF IsPrefix
<1> HIDE DEF k
<1>4. k = 1
  BY <1>1, <1>3
<1>5. /\ 1 \in Int /\ (\A i \in 1 .. 1 : l[i] \in Words) /\ (\A i \in 1 .. 1 : NoMatch[i] \in {Dot})
      /\ 1 - 1 + 1 = 1 /\ 1 + 1 - 1 = 1 /\ 1 \in 1 .. 1
  BY <1>1, <1>2, <1>4
<1>6. SubSeq(l, 1, 1)[1] = l[1]
  BY <1>5, SubSeqProperties
<1>7. SubSeq(NoMatch, 1, 1)[1] = NoMatch[1]
  BY <1>5, SubSeqProperties
<1>8. l[1] = Dot /\ l[1] \in Words
  BY <1>2, <1>3, <1>4, <1>5, <1>6, <1>7
<1> QED BY <1>8 DEF Words

-----------------------------------------------------------------------------
(* What labels spell, and what they leave *)

\* What is left of the string after each label.
LEMMA MatchRun ==
  ASSUME NEW str \in Seq(STRING), NEW labels \in Seq(Seq(Words) \ {<<>>})
  PROVE  \E r \in [0 .. Len(labels) -> Seq(STRING)] :
           /\ r[0] = str /\ \A i \in 1 .. Len(labels) : r[i] = matchStringPart(r[i - 1], labels[i])
           /\ Unmatched(str, labels) = r[Len(labels)]
<1> DEFINE s == labels
           n == Len(s)
           X == Seq(STRING)
           T == Seq(Words) \ {<<>>}
           start == str
           H(x, c) == matchStringPart(x, c)
           step == [x \in X \X T |-> H(x[1], x[2])]
           Eq(f) == f = [u \in SUBSET DOMAIN s |->
                           IF u = {} THEN start ELSE H(f[u \ {Max(u)}], s[Max(u)])]
           it == CHOOSE f : Eq(f)
<1>1. n \in Nat /\ DOMAIN s = 1 .. n /\ s \in [1 .. n -> T]
  BY LenProperties
<1>2. Unmatched(str, labels) = it[DOMAIN s]
  BY Zenon DEF Unmatched, FoldLeft, MapThenFoldSet
<1>3. \A x \in X, c \in T : H(x, c) \in X
  <2> SUFFICES ASSUME NEW x \in X, NEW c \in T PROVE matchStringPart(x, c) \in X
    OBVIOUS
  <2>1. NoMatch \in X
    BY BonjourAssumption DEF NoMatch
  <2> QED BY <2>1, PartMatched DEF Follows
<1>4. start \in X
  BY EmptySeq
<1> HIDE DEF s, n, X, T, H, start
<1>5. step \in [X \X T -> X] /\ \A x \in X, c \in T : step[<<x, c>>] = H(x, c)
  BY <1>3
<1> HIDE DEF step
<1>6. \A u \in SUBSET (1 .. n) :
        u # {} => s[Max(u)] \in T /\ u \ {Max(u)} \in SUBSET (1 .. n)
  <2> SUFFICES ASSUME NEW u \in SUBSET (1 .. n), u # {}
               PROVE  s[Max(u)] \in T /\ u \ {Max(u)} \in SUBSET (1 .. n)
    OBVIOUS
  <2>1. Max(u) \in u
    BY <1>1, Greatest
  <2> QED BY <1>1, <2>1
<1>7. Eq(it)
  <2>1. PICK f \in [SUBSET (1 .. n) -> X] : IsFold(f, start, step, s, n)
    BY <1>1, <1>4, <1>5, FoldExists
  <2>2. \A u \in SUBSET (1 .. n) :
          f[u] = IF u = {} THEN start ELSE H(f[u \ {Max(u)}], s[Max(u)])
    BY <1>5, <1>6, <2>1 DEF IsFold
  <2>3. Eq(f)
    BY <1>1, <2>2
  <2> HIDE DEF Eq
  <2> QED BY <2>3
<1>8. /\ it[{}] = start
      /\ \A u \in SUBSET (1 .. n) :
           u # {} => it[u] = H(it[u \ {Max(u)}], s[Max(u)])
  <2> HIDE DEF it
  <2> QED BY <1>1, <1>7
<1> HIDE DEF it
<1>9. IsFoldIn(it, X, start, step, s, n)
  BY <1>5, <1>6, <1>8 DEF IsFoldIn
<1>10. PICK r \in [0 .. n -> X] : IsRun(r, start, it[1 .. n], step, s, n)
  <2>1. \E r \in [0 .. n -> X] : IsRun(r, start, it[1 .. n], step, s, n)
    BY <1>1, <1>4, <1>5, <1>9, FoldRun
  <2> QED BY <2>1
<1>11. ASSUME NEW i \in 1 .. n PROVE r[i] = H(r[i - 1], s[i])
  <2>1. i - 1 \in 0 .. n /\ s[i] \in T
    BY <1>1
  <2> QED BY <1>5, <1>10, <2>1 DEF IsRun
<1>12. r[0] = start /\ \A i \in 1 .. n : r[i] = H(r[i - 1], s[i])
  BY <1>10, <1>11 DEF IsRun
<1>13. r[n] = it[DOMAIN s]
  BY <1>1, <1>10 DEF IsRun
<1> QED BY <1>2, <1>10, <1>12, <1>13 DEF n, s, X, H, start

\* What the labels spell, one after the other.
LEMMA JoinRun ==
  ASSUME NEW labels \in Seq(Seq(Words) \ {<<>>})
  PROVE  \E r \in [0 .. Len(labels) -> Seq(STRING)] :
           /\ r[0] = <<>> /\ \A i \in 1 .. Len(labels) : r[i] = r[i - 1] \o labels[i]
           /\ FoldLeft(LAMBDA x, c : x \o c, <<>>, labels) = r[Len(labels)]
<1> DEFINE s == labels
           n == Len(s)
           X == Seq(STRING)
           T == Seq(Words) \ {<<>>}
           start == <<>>
           H(x, c) == x \o c
           step == [x \in X \X T |-> H(x[1], x[2])]
           Eq(f) == f = [u \in SUBSET DOMAIN s |->
                           IF u = {} THEN start ELSE H(f[u \ {Max(u)}], s[Max(u)])]
           it == CHOOSE f : Eq(f)
<1>1. n \in Nat /\ DOMAIN s = 1 .. n /\ s \in [1 .. n -> T]
  BY LenProperties
<1>2. FoldLeft(LAMBDA x, c : x \o c, <<>>, labels) = it[DOMAIN s]
  BY Zenon DEF FoldLeft, MapThenFoldSet
<1>3. \A x \in X, c \in T : H(x, c) \in X
  <2>1. Words \subseteq STRING
    BY DEF Words
  <2>2. \A c \in T : c \in Seq(STRING)
    BY <2>1, SeqMonotonic
  <2> QED BY <2>2, ConcatProperties
<1>4. start \in X
  BY EmptySeq
<1> HIDE DEF s, n, X, T, H, start
<1>5. step \in [X \X T -> X] /\ \A x \in X, c \in T : step[<<x, c>>] = H(x, c)
  BY <1>3
<1> HIDE DEF step
<1>6. \A u \in SUBSET (1 .. n) :
        u # {} => s[Max(u)] \in T /\ u \ {Max(u)} \in SUBSET (1 .. n)
  <2> SUFFICES ASSUME NEW u \in SUBSET (1 .. n), u # {}
               PROVE  s[Max(u)] \in T /\ u \ {Max(u)} \in SUBSET (1 .. n)
    OBVIOUS
  <2>1. Max(u) \in u
    BY <1>1, Greatest
  <2> QED BY <1>1, <2>1
<1>7. Eq(it)
  <2>1. PICK f \in [SUBSET (1 .. n) -> X] : IsFold(f, start, step, s, n)
    BY <1>1, <1>4, <1>5, FoldExists
  <2>2. \A u \in SUBSET (1 .. n) :
          f[u] = IF u = {} THEN start ELSE H(f[u \ {Max(u)}], s[Max(u)])
    BY <1>5, <1>6, <2>1 DEF IsFold
  <2>3. Eq(f)
    BY <1>1, <2>2
  <2> HIDE DEF Eq
  <2> QED BY <2>3
<1>8. /\ it[{}] = start
      /\ \A u \in SUBSET (1 .. n) :
           u # {} => it[u] = H(it[u \ {Max(u)}], s[Max(u)])
  <2> HIDE DEF it
  <2> QED BY <1>1, <1>7
<1> HIDE DEF it
<1>9. IsFoldIn(it, X, start, step, s, n)
  BY <1>5, <1>6, <1>8 DEF IsFoldIn
<1>10. PICK r \in [0 .. n -> X] : IsRun(r, start, it[1 .. n], step, s, n)
  <2>1. \E r \in [0 .. n -> X] : IsRun(r, start, it[1 .. n], step, s, n)
    BY <1>1, <1>4, <1>5, <1>9, FoldRun
  <2> QED BY <2>1
<1>11. ASSUME NEW i \in 1 .. n PROVE r[i] = H(r[i - 1], s[i])
  <2>1. i - 1 \in 0 .. n /\ s[i] \in T
    BY <1>1
  <2> QED BY <1>5, <1>10, <2>1 DEF IsRun
<1>12. r[0] = start /\ \A i \in 1 .. n : r[i] = H(r[i - 1], s[i])
  BY <1>10, <1>11 DEF IsRun
<1>13. r[n] = it[DOMAIN s]
  BY <1>1, <1>10 DEF IsRun
<1> QED BY <1>2, <1>10, <1>12, <1>13 DEF n, s, X, H, start

\* The string without its dots, after each of its words and dots.
Undots(r, str) ==
  /\ r[0] = <<>>
  /\ \A i \in 1 .. Len(str) : r[i] = IF str[i] = Dot THEN r[i - 1] ELSE Append(r[i - 1], str[i])

\* The last of these is the string without its dots.
LEMMA DotsLeftOut ==
  ASSUME NEW str \in Seq(STRING)
  PROVE  \E r \in [0 .. Len(str) -> Seq(STRING)] : Undots(r, str) /\ Without(str, Dot) = r[Len(str)]
<1> DEFINE n == Len(str)
           T == ToSet(str) \ {Dot}
           A == STRING \cap T
<1>1. PICK r \in [0 .. n -> Seq(A)] : Picks(r, str, T) /\ Among(str, T) = r[n]
  BY AmongRun
<1>2. \A i \in 1 .. n : str[i] \in T <=> str[i] # Dot
  <2>1. DOMAIN str = 1 .. n
    BY LenProperties
  <2> QED BY <2>1 DEF ToSet
<1>3. A \subseteq STRING
  OBVIOUS
<1> HIDE DEF A, T
<1>4. \A x \in Seq(A) : x \in Seq(STRING)
  BY <1>3, SeqMonotonic
<1> HIDE DEF n
<1>5. r \in [0 .. n -> Seq(STRING)]
  BY <1>1, <1>4
<1>6. Undots(r, str)
  BY <1>1, <1>2 DEF Picks, Undots, n
<1>7. Without(str, Dot) = r[n]
  BY <1>1 DEF Without, T
<1> QED BY <1>5, <1>6, <1>7 DEF n

\* To append to what two sequences join to is to append to the second.
LEMMA AppendedToJoin ==
  ASSUME NEW S, NEW a \in Seq(S), NEW b \in Seq(S), NEW x \in S
  PROVE  Append(a \o b, x) = a \o (b \o <<x>>)
<1> DEFINE y == <<x>>
           u == a \o b
<1>1. y \in Seq(S)
  OBVIOUS
<1>2. u \in Seq(S)
  BY ConcatProperties
<1>3. Append(u, x) = u \o y
  BY <1>2, AppendIsConcat
<1> HIDE DEF y
<1>4. (a \o b) \o y = a \o (b \o y)
  BY <1>1, ConcatAssociative
<1> QED BY <1>3, <1>4 DEF y

\* Where a label stands in the string, it stands in the string without its dots.
LEMMA LabelKept ==
  ASSUME NEW str \in Seq(STRING), NEW r \in [0 .. Len(str) -> Seq(STRING)], Undots(r, str),
         NEW l \in Seq(Words), NEW q \in 0 .. Len(str), q + Len(l) <= Len(str),
         \A j \in 1 .. Len(l) : str[q + j] = l[j]
  PROVE  r[q + Len(l)] = r[q] \o l
<1> DEFINE n == Len(str)
           k == Len(l)
           P == {j \in 0 .. k : r[q + j] = r[q] \o SubSeq(l, 1, j)}
<1>1. n \in Nat /\ k \in Nat /\ q \in 0 .. n /\ q + k <= n
  BY LenProperties
<1>2. r[q] \in Seq(STRING)
  OBVIOUS
<1>3. l \in Seq(STRING)
  <2>1. Words \subseteq STRING
    BY DEF Words
  <2> QED BY <2>1, SeqMonotonic
<1>4. \A j \in 1 .. k : l[j] \in STRING /\ l[j] # Dot
  <2>1. \A j \in 1 .. k : l[j] \in Words
    BY LenProperties
  <2> QED BY <2>1 DEF Words
<1>5. \A j \in 1 .. k : SubSeq(l, 1, j) = SubSeq(l, 1, j - 1) \o <<l[j]>>
  <2> SUFFICES ASSUME NEW j \in 1 .. k PROVE SubSeq(l, 1, j) = SubSeq(l, 1, j - 1) \o <<l[j]>>
    OBVIOUS
  <2>1. 1 \in 1 .. k /\ j \in 1 .. k
    BY <1>1
  <2> QED BY <1>3, <2>1, SubSeqRecursiveSecond
<1>6. \A j \in 0 .. k : SubSeq(l, 1, j) \in Seq(STRING)
  <2> SUFFICES ASSUME NEW j \in 0 .. k PROVE SubSeq(l, 1, j) \in Seq(STRING)
    OBVIOUS
  <2>1. 1 \in Int /\ j \in Int /\ \A i \in 1 .. j : l[i] \in STRING
    BY <1>1, <1>4
  <2> QED BY <2>1, SubSeqProperties
<1>7. SubSeq(l, 1, 0) = <<>> /\ SubSeq(l, 1, k) = l
  BY SubSeqEmpty, SubSeqFull
<1> HIDE DEF n, k
<1>8. 0 \in P
  <2>1. q + 0 = q /\ 0 \in 0 .. k
    BY <1>1
  <2>2. r[q] \o <<>> = r[q]
    BY <1>2, ConcatEmptySeq
  <2> QED BY <1>7, <2>1, <2>2
<1>9. ASSUME NEW i \in 0 .. k - 1, i \in P PROVE i + 1 \in P
  <2> DEFINE j == i + 1
             a == r[q]
             b == SubSeq(l, 1, i)
             x == l[j]
  <2>1. j \in 1 .. k /\ j - 1 = i /\ i \in 0 .. k /\ j \in 0 .. k
    BY <1>1
  <2>2. q + j \in 1 .. n /\ (q + j) - 1 = q + i
    BY <1>1, <2>1
  <2> HIDE DEF j
  <2>3. r[q + i] = a \o b
    BY <1>9
  <2>4. str[q + j] = x /\ x \in STRING /\ x # Dot
    BY <1>4, <2>1 DEF k
  <2>5. r[q + j] = IF str[q + j] = Dot THEN r[(q + j) - 1] ELSE Append(r[(q + j) - 1], str[q + j])
    BY <2>2 DEF Undots, n
  <2>6. r[q + j] = Append(a \o b, x)
    BY <2>2, <2>3, <2>4, <2>5
  <2>7. SubSeq(l, 1, j) = b \o <<x>>
    BY <1>5, <2>1
  <2>8. b \in Seq(STRING) /\ a \in Seq(STRING)
    BY <1>2, <1>6, <2>1
  <2> HIDE DEF a, b, x
  <2>9. x \in STRING
    BY <2>4
  <2>10. Append(a \o b, x) = a \o (b \o <<x>>)
    BY <2>8, <2>9, AppendedToJoin
  <2>11. r[q + j] = a \o SubSeq(l, 1, j)
    BY <2>6, <2>7, <2>10
  <2> QED BY <2>1, <2>11 DEF a, j
<1>10. k \in P
  <2>1. \A i \in 0 .. k - 1 : i \in P => i + 1 \in P
    BY <1>9
  <2> HIDE DEF P
  <2>2. 0 .. k \subseteq P
    BY <1>1, <1>8, <2>1, InductiveUpTo
  <2> QED BY <1>1, <2>2
<1> QED BY <1>7, <1>10 DEF k

\* Labels that leave nothing of a string spell it.
LEMMA MatchedIsSpelled ==
  ASSUME NEW str \in Seq(STRING), NEW labels \in Seq(Seq(Words) \ {<<>>}),
         Unmatched(str, labels) = <<>>
  PROVE  Spell(labels, str)
<1> DEFINE n == Len(str)
           m == Len(labels)
<1>1. PICK u \in [0 .. m -> Seq(STRING)] :
        /\ u[0] = str /\ \A i \in 1 .. m : u[i] = matchStringPart(u[i - 1], labels[i])
        /\ Unmatched(str, labels) = u[m]
  BY MatchRun
<1>2. PICK c \in [0 .. m -> Seq(STRING)] :
        /\ c[0] = <<>> /\ \A i \in 1 .. m : c[i] = c[i - 1] \o labels[i]
        /\ FoldLeft(LAMBDA x, y : x \o y, <<>>, labels) = c[m]
  BY JoinRun
<1>3. PICK r \in [0 .. n -> Seq(STRING)] : Undots(r, str) /\ Without(str, Dot) = r[n]
  BY DotsLeftOut
<1>4. n \in Nat /\ m \in Nat /\ \A i \in 1 .. m : labels[i] \in Seq(Words) \ {<<>>}
  BY LenProperties
<1> DEFINE Spelled(i) == \E q \in 0 .. n : Follows(u[i], str, q) /\ c[i] = r[q]
           P == {i \in 0 .. m : u[i] = NoMatch \/ Spelled(i)}
<1>5. 0 \in P
  <2>1. Follows(str, str, 0)
    BY <1>4 DEF Follows
  <2>2. r[0] = <<>> /\ 0 \in 0 .. n /\ 0 \in 0 .. m
    BY <1>3, <1>4 DEF Undots
  <2> HIDE DEF n, m
  <2>3. Spelled(0)
    BY <1>1, <1>2, <2>1, <2>2
  <2> HIDE DEF Spelled
  <2> QED BY <2>2, <2>3
<1> HIDE DEF n, m
<1>6. ASSUME NEW i \in 0 .. m - 1, i \in P PROVE i + 1 \in P
  <2> DEFINE j == i + 1
             l == labels[j]
             k == Len(l)
             v == u[i]
             w == u[j]
  <2>1. j \in 1 .. m /\ j - 1 = i /\ i \in 0 .. m /\ j \in 0 .. m
    BY <1>4
  <2>2. u[j] = matchStringPart(u[j - 1], labels[j]) /\ c[j] = c[j - 1] \o labels[j]
    BY <1>1, <1>2, <2>1
  <2>3. l \in Seq(Words) \ {<<>>} /\ v \in Seq(STRING)
    BY <1>1, <1>4, <2>1
  <2> HIDE DEF j
  <2>4. w = matchStringPart(v, l) /\ c[j] = c[i] \o l
    BY <2>1, <2>2
  <2>5. CASE v = NoMatch
    <3>1. w = NoMatch
      BY <2>3, <2>4, <2>5, NoMatchStays
    <3> QED BY <2>1, <3>1 DEF j
  <2>6. CASE Spelled(i)
    <3>1. PICK q \in 0 .. n : Follows(v, str, q) /\ c[i] = r[q]
      BY <2>6
    <3>2. CASE w = NoMatch
      BY <2>1, <3>2 DEF j
    <3>3. CASE w # NoMatch
      <4> HIDE DEF l, v, w
      <4>1. /\ k \in 0 .. Len(v) /\ \A x \in 1 .. k : v[x] = l[x]
            /\ \/ Follows(w, v, k)
               \/ k + 1 \in 1 .. Len(v) /\ v[k + 1] = Dot /\ Follows(w, v, k + 1)
        BY <2>3, <2>4, <3>3, PartMatched
      <4>2. /\ Len(v) = n - q /\ \A x \in 1 .. Len(v) : v[x] = str[q + x]
        BY <3>1 DEF Follows, n
      <4> HIDE DEF k
      <4>3. k \in Nat /\ q + k <= n /\ q + k \in 0 .. n
        BY <1>4, <4>1, <4>2
      <4>4. \A x \in 1 .. k : x \in 1 .. Len(v)
        BY <1>4, <4>1, <4>2
      <4>5. \A x \in 1 .. k : str[q + x] = l[x]
        BY <4>1, <4>2, <4>4
      <4>6. r[q + k] = r[q] \o l
        BY <1>3, <2>3, <4>3, <4>5, LabelKept DEF n, k
      <4>7. c[j] = r[q + k]
        BY <2>4, <3>1, <4>6
      <4>8. CASE Follows(w, v, k)
        <5>1. Follows(w, str, q + k)
          BY <3>1, <4>8, FollowsOn
        <5>2. Spelled(j)
          BY <4>3, <4>7, <5>1 DEF w
        <5> HIDE DEF Spelled
        <5> QED BY <2>1, <5>2 DEF j
      <4>9. CASE k + 1 \in 1 .. Len(v) /\ v[k + 1] = Dot /\ Follows(w, v, k + 1)
        <5>1. Follows(w, str, q + (k + 1))
          BY <3>1, <4>9, FollowsOn
        <5>2. str[q + (k + 1)] = Dot
          BY <4>2, <4>9
        <5>3. q + (k + 1) \in 1 .. n /\ (q + (k + 1)) - 1 = q + k
          BY <1>4, <4>2, <4>3, <4>9
        <5>4. r[q + (k + 1)] = r[q + k]
          BY <1>3, <5>2, <5>3 DEF Undots, n
        <5>5. q + (k + 1) \in 0 .. n
          BY <5>3
        <5>6. Spelled(j)
          BY <4>7, <5>1, <5>4, <5>5 DEF w
        <5> HIDE DEF Spelled
        <5> QED BY <2>1, <5>6 DEF j
      <4> QED BY <4>1, <4>8, <4>9
    <3> QED BY <3>2, <3>3
  <2> QED BY <1>6, <2>5, <2>6
<1>7. m \in P
  <2>1. \A i \in 0 .. m - 1 : i \in P => i + 1 \in P
    BY <1>6
  <2> HIDE DEF P
  <2>2. 0 .. m \subseteq P
    BY <1>4, <1>5, <2>1, InductiveUpTo
  <2> QED BY <1>4, <2>2
<1>8. u[m] = <<>> /\ u[m] # NoMatch
  <2>1. u[m] = <<>>
    BY <1>1
  <2>2. Len(NoMatch) # Len(<<>>)
    BY DEF NoMatch
  <2> QED BY <2>1, <2>2, Zenon
<1>9. PICK q \in 0 .. n : Follows(<<>>, str, q) /\ c[m] = r[q]
  BY <1>7, <1>8
<1>10. q = n
  <2>1. Len(<<>>) = n - q /\ Len(<<>>) = 0
    BY <1>9 DEF Follows, n
  <2> QED BY <1>4, <2>1
<1> QED BY <1>2, <1>3, <1>9, <1>10, Zenon DEF Spell

\* The names that are looked for are strings.
LEMMA QueryIsString ==
  ASSUME query \in Queries
  PROVE  query[0].name \in Seq(STRING)
<1>1. query[0].name \in QueryNames(0)
  BY DEF Queries
<1>2. MDNS_TLD \in Seq(STRING)
  <2>1. Dot \in STRING /\ "local" \in STRING
    BY BonjourAssumption
  <2> QED BY <2>1 DEF MDNS_TLD
<1>3. \A h \in HostNames : h \o MDNS_TLD \in Seq(STRING)
  <2>1. HostNames \subseteq Seq(STRING)
    BY BonjourAssumption
  <2> QED BY <1>2, <2>1, ConcatProperties
<1> DEFINE N == {h \o MDNS_TLD : h \in HostNames}
           T == {t.name \o postfixForProtocol(t.proto) : t \in ServiceTypes}
<1>4. \A c \in Calls : c.i = 0 => c.name \in N
  <2>1. Calls = [i : {0}, name : N, timeout : Timeouts] \cup [i : {1}, name : T, timeout : Timeouts]
    BY DEF Calls
  <2> HIDE DEF N, T
  <2>2. \A c \in [i : {0}, name : N, timeout : Timeouts] : c.name \in N
    OBVIOUS
  <2>3. \A c \in [i : {1}, name : T, timeout : Timeouts] : c.i = 1
    OBVIOUS
  <2> QED BY <2>1, <2>2, <2>3
<1>5. <<>> \in Seq(STRING)
  BY EmptySeq
<1> QED BY <1>1, <1>3, <1>4, <1>5 DEF QueryNames

\* The address a name is told to have is that of an answer which spells the name, unless
\* a pointer leaves it open how the answer spells it.
THEOREM TellsWhatWasAnsweredAlways == Spec => TellsWhatWasAnswered
<1> DEFINE Says(k, address) ==
             LET r == out'.packet.answers[k] IN
             /\ r.type = "A" /\ r.data.address = address
             /\ r.name.ptr # 0 \/ Spell(r.name.labels, query[0].name)
           A == \A n \in DOMAIN out'.told : out'.told[n].address # 0 =>
                  \E k \in DOMAIN out'.packet.answers : Says(k, out'.told[n].address)
<1>1. BonjourTypes /\ [Next]_vars => [A]_vars
  <2> SUFFICES ASSUME BonjourTypes, Next, NEW n \in DOMAIN out'.told, out'.told[n].address # 0
               PROVE  \E k \in DOMAIN out'.packet.answers : Says(k, out'.told[n].address)
    OBVIOUS
  <2> DEFINE p == out'.packet
  <2>1. out'.told # <<>>
    OBVIOUS
  <2>2. Tells
    BY StepTells
  <2>3. PICK a \in Nat : out'.told = ToldOf(a) /\ (a # 0 => IsAnswer(p, a))
    BY <2>1, <2>2 DEF Tells
  <2>4. out'.told[n].address = a
    BY <2>3 DEF ToldOf
  <2>5. PICK k \in DOMAIN p.answers :
          LET r == p.answers[k] IN
          /\ r.type = "A" /\ r.data.address = a
          /\ r.name.ptr # 0 \/ Unmatched(query[0].name, r.name.labels) = <<>>
    BY <2>3, <2>4 DEF IsAnswer
  <2> DEFINE r == p.answers[k]
             ls == r.name.labels
  <2>6. ls \in Seq(Seq(Words) \ {<<>>})
    <3>1. p \in MDNSPackets
      BY <2>1, <2>2 DEF Tells
    <3> HIDE DEF p
    <3>2. p.answers \in Seq(Records)
      BY <3>1 DEF MDNSPackets
    <3>3. r \in Records
      BY <3>2
    <3> HIDE DEF r
    <3>4. r.name \in Names
      BY <3>3 DEF Records
    <3> QED BY <3>4 DEF Names, Words
  <2>7. query[0].name \in Seq(STRING)
    BY QueryIsString DEF BonjourTypes
  <2> HIDE DEF ls
  <2>8. Unmatched(query[0].name, ls) = <<>> => Spell(ls, query[0].name)
    BY <2>6, <2>7, MatchedIsSpelled
  <2>9. Says(k, a)
    BY <2>5, <2>8 DEF ls
  <2> QED BY <2>4, <2>5, <2>9
<1>2. TellsWhatWasAnswered <=> [][A]_vars
  BY DEF TellsWhatWasAnswered
<1> HIDE DEF A
<1> QED BY <1>1, <1>2, TypesKept, PTL DEF Spec

-----------------------------------------------------------------------------
(* A name that is asked for in full *)

\* Nothing is left out of a sequence whose members are all in the set.
LEMMA AllAmong ==
  ASSUME NEW A, NEW s \in Seq(A), NEW T, \A i \in 1 .. Len(s) : s[i] \in T
  PROVE  Among(s, T) = s
<1> DEFINE n == Len(s)
<1>1. PICK r \in [0 .. n -> Seq(A \cap T)] : Picks(r, s, T) /\ Among(s, T) = r[n]
  BY AmongRun
<1>2. n \in Nat /\ \A i \in 1 .. n : s[i] \in A \cap T
  BY LenProperties
<1>3. s \in Seq(A \cap T)
  <2> DEFINE B == A \cap T
  <2>1. s \in [1 .. n -> B]
    <3>1. s \in [1 .. n -> A]
      BY LenProperties
    <3> QED BY <1>2, <3>1
  <2> HIDE DEF B, n
  <2>2. s \in Seq(B)
    BY <1>2, <2>1, SeqDef
  <2> QED BY <2>2 DEF B
<1> DEFINE B == A \cap T
           P == {i \in 0 .. n : Len(r[i]) = i /\ \A j \in 1 .. i : r[i][j] = s[j]}
<1> HIDE DEF B
<1>4. r \in [0 .. n -> Seq(B)] /\ s \in Seq(B) /\ \A i \in 1 .. n : s[i] \in B
  BY <1>1, <1>2, <1>3 DEF B
<1>5. 0 \in P
  <2>1. r[0] = <<>> /\ 0 \in 0 .. n /\ Len(<<>>) = 0
    BY <1>1, <1>2 DEF Picks
  <2> HIDE DEF n
  <2> QED BY <2>1
<1>6. ASSUME NEW i \in 0 .. n - 1, i \in P PROVE i + 1 \in P
  <2> DEFINE k == i + 1
             a == r[i]
             x == s[k]
  <2>1. k \in 1 .. n /\ k - 1 = i /\ k \in 0 .. n /\ i \in 0 .. n /\ 1 .. k = (1 .. i) \cup {k}
    BY <1>2
  <2>2. Len(a) = i /\ \A j \in 1 .. i : a[j] = s[j]
    BY <1>6
  <2> HIDE DEF n, k
  <2>3. a \in Seq(B) /\ x \in B
    BY <1>4, <2>1
  <2>4. r[k] = Append(a, x)
    <3>1. r[k] = IF s[k] \in T THEN Append(r[k - 1], s[k]) ELSE r[k - 1]
      BY <1>1, <2>1 DEF Picks, n
    <3>2. s[k] \in T
      BY <2>3 DEF B
    <3> QED BY <2>1, <3>1, <3>2
  <2> HIDE DEF a, x
  <2>5. /\ Len(Append(a, x)) = Len(a) + 1
        /\ \A j \in 1 .. Len(a) : Append(a, x)[j] = a[j]
        /\ Append(a, x)[Len(a) + 1] = x
    BY <2>3, AppendProperties
  <2>6. Len(r[k]) = k /\ (\A j \in 1 .. i : r[k][j] = s[j]) /\ r[k][k] = s[k]
    BY <2>2, <2>4, <2>5 DEF k, x
  <2>7. \A j \in 1 .. k : r[k][j] = s[j]
    BY <2>1, <2>6
  <2> QED BY <2>1, <2>6, <2>7 DEF k
<1>7. n \in P
  <2>1. \A i \in 0 .. n - 1 : i \in P => i + 1 \in P
    BY <1>6
  <2> HIDE DEF P, n
  <2>2. 0 .. n \subseteq P
    BY <1>2, <1>5, <2>1, InductiveUpTo
  <2> QED BY <1>2, <2>2
<1> DEFINE t == r[n]
<1>8. t \in Seq(B) /\ Len(t) = Len(s) /\ \A i \in 1 .. Len(t) : t[i] = s[i]
  BY <1>2, <1>4, <1>7
<1> HIDE DEF t
<1>9. t = s
  BY <1>4, <1>8, SeqEqual
<1> QED BY <1>1, <1>9 DEF t

\* A label that a string begins with matches it; it leaves what is behind the dot that
\* follows it, or nothing.
LEMMA BeginningMatches ==
  ASSUME NEW v \in Seq(STRING), NEW l \in Seq(Words), Len(l) <= Len(v),
         \A j \in 1 .. Len(l) : v[j] = l[j]
  PROVE  LET w == matchStringPart(v, l)
             k == Len(l)
         IN  /\ k = Len(v) => w = <<>>
             /\ k < Len(v) /\ v[k + 1] = Dot => Follows(w, v, k + 1)
<1> DEFINE w == matchStringPart(v, l)
           k == Len(l)
           n == Len(v)
           rest == SubSeq(v, k + 1, n)
<1>1. k \in Nat /\ n \in Nat /\ k <= n /\ \A j \in 1 .. n : v[j] \in STRING
  BY LenProperties
<1>2. IsPrefix(l, v)
  <2> DEFINE b == SubSeq(v, 1, k)
  <2>1. SubSeq(l, 1, k) = l
    BY SubSeqFull
  <2>2. l \in Seq(STRING)
    <3>1. Words \subseteq STRING
      BY DEF Words
    <3> QED BY <3>1, SeqMonotonic
  <2>3. b \in Seq(STRING) /\ Len(b) = k /\ \A j \in 1 .. k : b[j] = v[j]
    <3> HIDE DEF k, n
    <3>1. 1 \in Int /\ k \in Int /\ \A j \in 1 .. k : v[j] \in STRING
      BY <1>1
    <3>2. /\ SubSeq(v, 1, k) \in Seq(STRING) /\ Len(SubSeq(v, 1, k)) = IF 1 <= k THEN k - 1 + 1 ELSE 0
          /\ \A j \in 1 .. k - 1 + 1 : SubSeq(v, 1, k)[j] = v[1 + j - 1]
      BY <3>1, SubSeqProperties
    <3> HIDE DEF b
    <3>3. k - 1 + 1 = k /\ \A j \in 1 .. k : 1 + j - 1 = j
      BY <1>1
    <3>4. (IF 1 <= k THEN k - 1 + 1 ELSE 0) = k
      BY <1>1
    <3>5. \A j \in 1 .. k : b[j] = v[j]
      BY <3>2, <3>3 DEF b
    <3> QED BY <3>2, <3>4, <3>5 DEF b
  <2> HIDE DEF b
  <2>4. b = l
    <3>1. Len(b) = Len(l) /\ \A j \in 1 .. Len(b) : b[j] = l[j]
      BY <2>3
    <3> QED BY <2>2, <2>3, <3>1, SeqEqual
  <2> QED BY <1>1, <2>1, <2>4 DEF IsPrefix, b
<1>3. w = IF IsPrefix(<<Dot>>, rest) THEN Tail(rest) ELSE rest
  BY <1>2 DEF matchStringPart
<1>4. ASSUME k = n PROVE w = <<>>
  <2>1. n < k + 1 /\ k + 1 \in Int /\ n \in Int
    BY <1>1, <1>4
  <2> HIDE DEF k, n
  <2>2. rest = <<>>
    BY <2>1, SubSeqEmpty
  <2>3. ~IsPrefix(<<Dot>>, <<>>)
    BY DEF IsPrefix
  <2> HIDE DEF rest, w
  <2> QED BY <1>3, <2>2, <2>3
<1>5. ASSUME k < n, v[k + 1] = Dot PROVE Follows(w, v, k + 1)
  <2>1. k \in 0 .. n /\ k + 1 \in 1 .. n
    BY <1>1, <1>5
  <2>2. Follows(rest, v, k)
    BY <2>1, EndFollows
  <2> HIDE DEF rest, w
  <2> DEFINE m == Len(rest)
             s == <<Dot>>
  <2>3. rest \in Seq(STRING) /\ m = n - k /\ \A j \in 1 .. m : rest[j] = v[k + j]
    BY <2>2 DEF Follows
  <2> HIDE DEF m
  <2>4. m \in Nat /\ m >= 1 /\ 1 \in 1 .. m /\ rest[1] = Dot
    BY <1>1, <1>5, <2>3
  <2>5. IsPrefix(s, rest)
    <3> DEFINE b == SubSeq(rest, 1, 1)
    <3>1. Len(s) = 1 /\ s[1] = Dot /\ s \in Seq({Dot})
      OBVIOUS
    <3>2. 1 \in Int /\ (\A i \in 1 .. 1 : rest[i] \in {Dot})
      BY <2>4
    <3>3. /\ SubSeq(rest, 1, 1) \in Seq({Dot}) /\ Len(SubSeq(rest, 1, 1)) = IF 1 <= 1 THEN 1 - 1 + 1 ELSE 0
          /\ \A i \in 1 .. 1 - 1 + 1 : SubSeq(rest, 1, 1)[i] = rest[1 + i - 1]
      BY <3>2, SubSeqProperties
    <3>4. (IF 1 <= 1 THEN 1 - 1 + 1 ELSE 0) = 1 /\ 1 \in 1 .. 1 - 1 + 1 /\ 1 + 1 - 1 = 1
      OBVIOUS
    <3>5. b \in Seq({Dot}) /\ Len(b) = 1 /\ b[1] = Dot
      BY <2>4, <3>3, <3>4
    <3> HIDE DEF b, s
    <3>6. Len(b) = Len(s) /\ \A i \in 1 .. Len(b) : b[i] = s[i]
      BY <3>1, <3>5
    <3>7. b = s
      BY <3>1, <3>5, <3>6, SeqEqual
    <3>8. SubSeq(s, 1, 1) = s
      <4>1. SubSeq(s, 1, Len(s)) = s
        BY <3>1, SubSeqFull
      <4> QED BY <3>1, <4>1
    <3>9. Len(s) <= Len(rest)
      BY <2>4, <3>1 DEF m
    <3> QED BY <3>1, <3>7, <3>8, <3>9 DEF IsPrefix, b
  <2>6. Follows(Tail(rest), rest, 1)
    <3>1. rest # <<>>
      BY <2>4 DEF m
    <3>2. /\ Tail(rest) \in Seq(STRING) /\ Len(Tail(rest)) = m - 1
          /\ \A i \in 1 .. Len(Tail(rest)) : Tail(rest)[i] = rest[i + 1]
      BY <2>3, <3>1, HeadTailProperties DEF m
    <3> DEFINE t == Tail(rest)
    <3> HIDE DEF t
    <3>3. \A i \in 1 .. Len(t) : i + 1 = 1 + i
      BY <3>2, <2>4 DEF t
    <3>4. 1 \in 0 .. m
      BY <2>4
    <3> QED BY <3>2, <3>3, <3>4 DEF Follows, m, t
  <2>7. Follows(Tail(rest), v, k + 1)
    BY <2>2, <2>6, FollowsOn
  <2> QED BY <1>3, <2>5, <2>7
<1> QED BY <1>4, <1>5

\* Where labels stand in the first i words and dots of a string: one after the other,
\* a dot between two of them, and none of them empty but perhaps the last.
Places(s, ls, i, str) ==
  LET m == Len(ls) IN
  /\ s \in [1 .. m -> Nat] /\ s[1] = 0 /\ s[m] + Len(ls[m]) = i
  /\ \A k \in 1 .. m : s[k] + Len(ls[k]) <= i
  /\ \A k \in 1 .. m : \A j \in 1 .. Len(ls[k]) : str[s[k] + j] = ls[k][j]
  /\ \A k \in 1 .. m - 1 : /\ s[k + 1] = s[k] + Len(ls[k]) + 1 /\ str[s[k + 1]] = Dot
                           /\ ls[k] # <<>>

\* The label that is written is not empty where a dot follows it, nor at the end.
LEMMA LastNotEmpty ==
  ASSUME NEW str, IsName(str), NEW ls \in Labels, NEW i \in 0 .. Len(str), NEW s,
         Places(s, ls, i, str), i = Len(str) \/ str[i + 1] = Dot
  PROVE  ls[Len(ls)] # <<>>
<1> DEFINE m == Len(ls)
           n == Len(str)
<1>1. m \in Nat /\ m # 0 /\ n \in Nat /\ n # 0
  <2>1. str \in Seq(STRING) /\ str # <<>> /\ ls \in Seq(Seq(Words)) /\ ls # <<>>
    BY DEF IsName, Labels
  <2> QED BY <2>1, LenProperties, EmptySeq
<1>2. /\ s[1] = 0 /\ s[m] + Len(ls[m]) = i /\ s \in [1 .. m -> Nat]
      /\ \A k \in 1 .. m - 1 : str[s[k + 1]] = Dot
  BY DEF Places
<1>3. \A j \in 1 .. n : str[j] = Dot => j # 1 /\ j # n /\ str[j + 1] # Dot
  BY DEF IsName
<1>4. i = n \/ (i \in 0 .. n - 1 /\ str[i + 1] = Dot) \/ (i = n /\ str[i + 1] = Dot)
  BY <1>1
<1> SUFFICES ASSUME ls[m] = <<>> PROVE FALSE
  OBVIOUS
<1>5. s[m] = i
  <2>1. Len(ls[m]) = 0
    OBVIOUS
  <2> HIDE DEF m
  <2>2. s[m] \in Nat
    BY <1>1, <1>2
  <2> QED BY <1>2, <2>1, <2>2
<1> HIDE DEF m, n
<1>6. CASE m = 1
  <2>1. i = 0
    BY <1>2, <1>5, <1>6
  <2>2. str[1] = Dot /\ 1 \in 1 .. n
    BY <1>1, <1>4, <2>1
  <2> QED BY <1>3, <2>2
<1>7. CASE m # 1
  <2>1. m - 1 \in 1 .. m - 1 /\ (m - 1) + 1 = m
    BY <1>1, <1>7
  <2>2. str[i] = Dot
    BY <1>2, <1>5, <2>1
  <2>3. CASE i = 0
    <3>1. str[1] = Dot /\ 1 \in 1 .. n
      BY <1>1, <1>4, <2>3
    <3> QED BY <1>3, <3>1
  <2>4. CASE i # 0
    <3>1. i \in 1 .. n
      BY <1>1, <2>4 DEF n
    <3>2. i # n /\ str[i + 1] # Dot
      BY <1>3, <2>2, <3>1
    <3> QED BY <1>4, <3>2
  <2> QED BY <2>3, <2>4
<1> QED BY <1>6, <1>7

\* The next word or dot of a name.
LEMMA PlacesGrow ==
  ASSUME NEW str, IsName(str), NEW ls \in Labels, NEW i \in 0 .. Len(str) - 1, NEW s,
         Places(s, ls, i, str)
  PROVE  \E t : Places(t, AddTo(ls, str[i + 1]), i + 1, str)
<1> DEFINE m == Len(ls)
           n == Len(str)
           c == str[i + 1]
           k == i + 1
           new == AddTo(ls, c)
<1>1. m \in Nat /\ m # 0 /\ n \in Nat /\ ls \in Seq(Seq(Words)) /\ str \in Seq(STRING)
  <2>1. str \in Seq(STRING) /\ str # <<>> /\ ls \in Seq(Seq(Words)) /\ ls # <<>>
    BY DEF IsName, Labels
  <2> QED BY <2>1, LenProperties, EmptySeq
<1>2. /\ s \in [1 .. m -> Nat] /\ s[1] = 0 /\ s[m] + Len(ls[m]) = i
      /\ \A j \in 1 .. m : s[j] + Len(ls[j]) <= i
  BY DEF Places
<1>3. \A x \in 1 .. m : \A j \in 1 .. Len(ls[x]) : str[s[x] + j] = ls[x][j]
  BY DEF Places
<1>4. \A x \in 1 .. m - 1 : s[x + 1] = s[x] + Len(ls[x]) + 1 /\ str[s[x + 1]] = Dot /\ ls[x] # <<>>
  BY DEF Places
<1>5. k \in 1 .. n /\ i \in 0 .. n /\ k \in Nat /\ c \in STRING
  <2>1. k \in 1 .. n /\ i \in 0 .. n /\ k \in Nat
    BY <1>1
  <2> HIDE DEF k
  <2>2. str[k] \in STRING
    BY <1>1, <2>1, ElementOfSeq
  <2> QED BY <2>1, <2>2 DEF k
<1>6. \A x \in 1 .. m : ls[x] \in Seq(Words) /\ Len(ls[x]) \in Nat
  <2> SUFFICES ASSUME NEW x \in 1 .. m PROVE ls[x] \in Seq(Words) /\ Len(ls[x]) \in Nat
    OBVIOUS
  <2> DEFINE L == Seq(Words)
  <2>1. ls[x] \in L
    <3> HIDE DEF L
    <3>1. ls \in Seq(L)
      BY <1>1 DEF L
    <3> QED BY <3>1, ElementOfSeq
  <2> QED BY <2>1, LenProperties
<1>7. CASE c = Dot
  <2> DEFINE e == <<>>
             L == Seq(Words)
             t == [x \in 1 .. m + 1 |-> IF x = m + 1 THEN k ELSE s[x]]
  <2>1. ls[m] # <<>>
    BY <1>5, <1>7, LastNotEmpty
  <2>2. new = Append(ls, e)
    BY <1>7 DEF AddTo
  <2>3. ls \in Seq(L) /\ e \in L /\ Len(e) = 0
    BY <1>1, EmptySeq
  <2> HIDE DEF L, e, c
  <2>4. /\ Len(Append(ls, e)) = m + 1 /\ (\A x \in 1 .. m : Append(ls, e)[x] = ls[x])
        /\ Append(ls, e)[m + 1] = e
    BY <2>3, AppendProperties
  <2> HIDE DEF new
  <2>5. Len(new) = m + 1 /\ (\A x \in 1 .. m : new[x] = ls[x]) /\ new[m + 1] = e
    BY <2>2, <2>4
  <2>6. /\ m + 1 \in 1 .. m + 1 /\ 1 \in 1 .. m /\ m \in 1 .. m
        /\ \A x \in 1 .. m + 1 : x = m + 1 \/ x \in 1 .. m
        /\ \A x \in 1 .. m : x # m + 1 /\ x \in 1 .. m + 1
    BY <1>1
  <2> HIDE DEF m
  <2>7. t[m + 1] = k /\ \A x \in 1 .. m : t[x] = s[x]
    BY <2>6
  <2>8. t \in [1 .. m + 1 -> Nat]
    BY <1>2, <1>5, <2>6
  <2> HIDE DEF t, k
  <2>9. t[m + 1] + Len(new[m + 1]) = k
    BY <1>5, <2>3, <2>5, <2>7
  <2>10. \A x \in 1 .. m + 1 : t[x] + Len(new[x]) <= k
    <3>1. ASSUME NEW x \in 1 .. m PROVE t[x] + Len(new[x]) <= k
      <4>1. s[x] \in Nat /\ Len(ls[x]) \in Nat /\ s[x] + Len(ls[x]) <= i
        BY <1>2, <1>6
      <4>2. t[x] = s[x] /\ new[x] = ls[x]
        BY <2>5, <2>7
      <4>3. s[x] + Len(ls[x]) <= k
        BY <4>1 DEF k
      <4> QED BY <4>2, <4>3
    <3>2. t[m + 1] + Len(new[m + 1]) <= k
      BY <1>5, <2>9
    <3> QED BY <2>6, <3>1, <3>2
  <2>11. \A x \in 1 .. m + 1 : \A j \in 1 .. Len(new[x]) : str[t[x] + j] = new[x][j]
    <3>1. ASSUME NEW x \in 1 .. m PROVE \A j \in 1 .. Len(new[x]) : str[t[x] + j] = new[x][j]
      BY <1>3, <2>5, <2>7
    <3>2. 1 .. Len(new[m + 1]) = {}
      BY <2>3, <2>5
    <3> QED BY <2>6, <3>1, <3>2
  <2>12. ASSUME NEW x \in 1 .. (m + 1) - 1
         PROVE  t[x + 1] = t[x] + Len(new[x]) + 1 /\ str[t[x + 1]] = Dot /\ new[x] # <<>>
    <3>1. x \in 1 .. m
      BY <1>1
    <3>2. CASE x = m
      <4>1. t[x + 1] = k /\ t[x] = s[m] /\ new[x] = ls[m]
        BY <2>5, <2>7, <3>1, <3>2
      <4>2. s[m] + Len(ls[m]) + 1 = k
        BY <1>2 DEF k
      <4>3. str[k] = Dot
        BY <1>7 DEF k, c
      <4> QED BY <2>1, <4>1, <4>2, <4>3 DEF m
    <3>3. CASE x # m
      <4>1. x \in 1 .. m - 1 /\ x + 1 \in 1 .. m
        BY <1>1, <3>1, <3>3
      <4>2. t[x + 1] = s[x + 1] /\ t[x] = s[x] /\ new[x] = ls[x]
        BY <2>5, <2>7, <3>1, <4>1
      <4> QED BY <1>4, <4>1, <4>2
    <3> QED BY <3>2, <3>3
  <2>13. t[1] = 0
    BY <1>2, <2>6, <2>7
  <2>14. Places(t, new, k, str)
    BY <2>5, <2>8, <2>9, <2>10, <2>11, <2>12, <2>13 DEF Places
  <2> QED BY <2>14 DEF new, k, c
<1>8. CASE c # Dot
  <2> DEFINE last == Append(ls[m], c)
             L == Seq(Words)
  <2>1. new = [ls EXCEPT ![m] = last]
    BY <1>8 DEF AddTo
  <2>2. /\ last \in L /\ Len(last) = Len(ls[m]) + 1 /\ last[Len(ls[m]) + 1] = c
        /\ \A j \in 1 .. Len(ls[m]) : last[j] = ls[m][j]
    <3>1. m \in 1 .. m
      BY <1>1
    <3>2. ls[m] \in Seq(Words) /\ c \in Words
      BY <1>5, <1>6, <1>8, <3>1 DEF Words
    <3> DEFINE b == ls[m]
    <3> HIDE DEF b, c
    <3>3. /\ Append(b, c) \in Seq(Words) /\ Len(Append(b, c)) = Len(b) + 1 /\ Append(b, c)[Len(b) + 1] = c
          /\ \A j \in 1 .. Len(b) : Append(b, c)[j] = b[j]
      BY <3>2, AppendProperties DEF b
    <3> QED BY <3>3 DEF b
  <2>3. m \in 1 .. m /\ 1 \in 1 .. m
    BY <1>1
  <2> HIDE DEF last, L, c
  <2>4. ls \in Seq(L)
    BY <1>1 DEF L
  <2>5. /\ Len([ls EXCEPT ![m] = last]) = m
        /\ \A x \in 1 .. m : [ls EXCEPT ![m] = last][x] = IF x = m THEN last ELSE ls[x]
    BY <2>2, <2>3, <2>4, ExceptSeq
  <2> HIDE DEF new
  <2>6. Len(new) = m /\ new[m] = last /\ \A x \in 1 .. m : x # m => new[x] = ls[x]
    BY <2>1, <2>3, <2>5
  <2> HIDE DEF m
  <2>7. s[m] + Len(new[m]) = k
    <3>1. s[m] \in Nat /\ Len(ls[m]) \in Nat /\ s[m] + Len(ls[m]) = i
      BY <1>2, <1>6, <2>3
    <3>2. s[m] + (Len(ls[m]) + 1) = k
      BY <3>1
    <3> QED BY <2>2, <2>6, <3>2
  <2> HIDE DEF k
  <2>8. \A x \in 1 .. m : s[x] + Len(new[x]) <= k
    <3> SUFFICES ASSUME NEW x \in 1 .. m PROVE s[x] + Len(new[x]) <= k
      OBVIOUS
    <3>1. CASE x = m
      BY <1>5, <2>7, <3>1
    <3>2. CASE x # m
      <4>1. s[x] \in Nat /\ Len(ls[x]) \in Nat /\ s[x] + Len(ls[x]) <= i
        BY <1>2, <1>6
      <4>2. s[x] + Len(ls[x]) <= k
        BY <4>1 DEF k
      <4> QED BY <2>6, <3>2, <4>2
    <3> QED BY <3>1, <3>2
  <2>9. \A x \in 1 .. m : \A j \in 1 .. Len(new[x]) : str[s[x] + j] = new[x][j]
    <3> SUFFICES ASSUME NEW x \in 1 .. m, NEW j \in 1 .. Len(new[x]) PROVE str[s[x] + j] = new[x][j]
      OBVIOUS
    <3>1. CASE x = m
      <4> DEFINE b == Len(ls[m])
      <4>1. b \in Nat /\ j \in 1 .. b + 1
        BY <1>6, <2>2, <2>3, <2>6, <3>1
      <4>2. \A y \in 1 .. b : str[s[m] + y] = ls[m][y]
        BY <1>3, <2>3
      <4>3. s[m] + b = i /\ s[m] \in Nat
        BY <1>2, <2>3
      <4>4. last[b + 1] = c /\ \A y \in 1 .. b : last[y] = ls[m][y]
        BY <2>2
      <4> HIDE DEF b
      <4>5. CASE j = b + 1
        <5>1. s[m] + j = k
          BY <4>1, <4>3, <4>5 DEF k
        <5>2. str[k] = c
          BY DEF c, k
        <5> QED BY <2>6, <3>1, <4>4, <4>5, <5>1, <5>2
      <4>6. CASE j # b + 1
        <5>1. j \in 1 .. b
          BY <4>1, <4>6
        <5> QED BY <2>6, <3>1, <4>2, <4>4, <5>1
      <4> QED BY <4>5, <4>6
    <3>2. CASE x # m
      BY <1>3, <2>6, <3>2
    <3> QED BY <3>1, <3>2
  <2>10. \A x \in 1 .. m - 1 : /\ s[x + 1] = s[x] + Len(new[x]) + 1 /\ str[s[x + 1]] = Dot
                               /\ new[x] # <<>>
    <3> SUFFICES ASSUME NEW x \in 1 .. m - 1
                 PROVE  s[x + 1] = s[x] + Len(new[x]) + 1 /\ str[s[x + 1]] = Dot /\ new[x] # <<>>
      OBVIOUS
    <3>1. x \in 1 .. m /\ x # m
      BY <1>1
    <3>2. new[x] = ls[x]
      BY <2>6, <3>1
    <3> QED BY <1>4, <3>2
  <2>11. Places(s, new, k, str)
    BY <1>2, <2>6, <2>7, <2>8, <2>9, <2>10 DEF Places
  <2> QED BY <2>11 DEF new, k, c
<1> QED BY <1>7, <1>8

\* The labels of a name stand in it one after the other, from its beginning to its end.
LEMMA NamePlaces ==
  ASSUME NEW str, IsName(str)
  PROVE  LET ls == writeDNSName(str).labels
         IN  /\ ls \in Seq(Seq(Words) \ {<<>>}) /\ ls # <<>>
             /\ \E s : Places(s, ls, Len(str), str)
<1> DEFINE n == Len(str)
<1>1. str \in Seq(STRING) /\ n \in Nat
  BY LenProperties DEF IsName
<1>2. PICK r \in [0 .. n -> Labels] :
        Writes(r, str) /\ writeDNSName(str) = [labels |-> Without(r[n], <<>>), ptr |-> 0]
  BY <1>1, NameRun
<1> DEFINE P == {i \in 0 .. n : \E s : Places(s, r[i], i, str)}
<1>3. 0 \in P
  <2> DEFINE e == << <<>> >>
             s == [k \in {1} |-> 0]
  <2>1. Len(e) = 1 /\ e[1] = <<>> /\ Len(<<>>) = 0 /\ 1 .. 1 = {1} /\ 1 .. 1 - 1 = {} /\ 1 .. 0 = {}
    OBVIOUS
  <2>2. s \in [{1} -> Nat] /\ s[1] = 0
    OBVIOUS
  <2> HIDE DEF e, s, n
  <2>3. Places(s, e, 0, str)
    BY <2>1, <2>2 DEF Places
  <2>4. r[0] = e /\ 0 \in 0 .. n
    BY <1>1, <1>2 DEF Writes, e
  <2> QED BY <2>3, <2>4
<1>4. ASSUME NEW i \in 0 .. n - 1, i \in P PROVE i + 1 \in P
  <2>1. PICK s : Places(s, r[i], i, str)
    BY <1>4
  <2>2. i \in 0 .. n /\ i + 1 \in 0 .. n /\ i + 1 \in 1 .. n /\ (i + 1) - 1 = i
    BY <1>1
  <2>3. r[i] \in Labels
    BY <2>2
  <2>4. \E t : Places(t, AddTo(r[i], str[i + 1]), i + 1, str)
    BY <2>1, <2>3, PlacesGrow
  <2>5. r[i + 1] = AddTo(r[i], str[i + 1])
    <3>1. \A j \in 1 .. n : r[j] = AddTo(r[j - 1], str[j])
      BY <1>2 DEF Writes
    <3> DEFINE k == i + 1
    <3> HIDE DEF k, n
    <3>2. k \in 1 .. n /\ k - 1 = i
      BY <2>2 DEF k
    <3> QED BY <3>1, <3>2 DEF k
  <2> QED BY <2>2, <2>4, <2>5
<1>5. n \in P
  <2>1. \A i \in 0 .. n - 1 : i \in P => i + 1 \in P
    BY <1>4
  <2> HIDE DEF P, n
  <2>2. 0 .. n \subseteq P
    BY <1>1, <1>3, <2>1, InductiveUpTo
  <2> QED BY <1>1, <2>2
<1> DEFINE ls == r[n]
           m == Len(ls)
           L == Seq(Words)
<1>6. PICK s : Places(s, ls, n, str)
  BY <1>5
<1>7. ls \in Labels /\ ls \in Seq(L) /\ ls # <<>> /\ n \in 0 .. n
  BY <1>1, <1>2 DEF Labels
<1> HIDE DEF ls
<1>8. ls[m] # <<>>
  BY <1>6, <1>7, LastNotEmpty
<1>9. \A k \in 1 .. m : ls[k] \in L \ {<<>>}
  <2>1. m \in Nat /\ \A k \in 1 .. m : ls[k] \in L
    <3> HIDE DEF L
    <3> QED BY <1>7, LenProperties
  <2>2. \A k \in 1 .. m - 1 : ls[k] # <<>>
    BY <1>6 DEF Places
  <2> HIDE DEF m, L
  <2>3. \A k \in 1 .. m : k = m \/ k \in 1 .. m - 1
    BY <2>1
  <2> QED BY <1>8, <2>1, <2>2, <2>3 DEF m
<1>10. Without(ls, <<>>) = ls
  <2> DEFINE T == ToSet(ls) \ {<<>>}
  <2>1. \A k \in 1 .. m : ls[k] \in T
    <3>1. DOMAIN ls = 1 .. m
      <4> HIDE DEF L
      <4> QED BY <1>7, LenProperties
    <3> QED BY <1>9, <3>1 DEF ToSet
  <2> HIDE DEF T, L
  <2>2. Among(ls, T) = ls
    BY <1>7, <2>1, AllAmong
  <2> QED BY <2>2 DEF Without, T
<1>11. ls \in Seq(L \ {<<>>})
  <2> DEFINE M == L \ {<<>>}
  <2>1. m \in Nat /\ ls \in [1 .. m -> M]
    <3>1. m \in Nat /\ ls \in [1 .. m -> L]
      <4> HIDE DEF L
      <4> QED BY <1>7, LenProperties
    <3> QED BY <1>9, <3>1
  <2> HIDE DEF M, m
  <2>2. ls \in Seq(M)
    BY <2>1, SeqDef
  <2> QED BY <2>2 DEF M
<1>12. writeDNSName(str).labels = ls
  BY <1>2, <1>10 DEF ls
<1> QED BY <1>6, <1>7, <1>11, <1>12

\* A name is matched by what is written for it.
LEMMA NameMatches ==
  ASSUME NEW str, IsName(str)
  PROVE  Unmatched(str, writeDNSName(str).labels) = <<>>
<1> DEFINE ls == writeDNSName(str).labels
           m == Len(ls)
           n == Len(str)
<1>1. ls \in Seq(Seq(Words) \ {<<>>}) /\ ls # <<>>
  BY NamePlaces
<1>2. PICK s : Places(s, ls, n, str)
  BY NamePlaces
<1>3. str \in Seq(STRING) /\ n \in Nat
  BY LenProperties DEF IsName
<1> HIDE DEF ls
<1>4. PICK u \in [0 .. m -> Seq(STRING)] :
        /\ u[0] = str /\ \A i \in 1 .. m : u[i] = matchStringPart(u[i - 1], ls[i])
        /\ Unmatched(str, ls) = u[m]
  BY <1>1, <1>3, MatchRun
<1>5. m \in Nat /\ m # 0 /\ \A i \in 1 .. m : ls[i] \in Seq(Words) /\ Len(ls[i]) \in Nat
  <2> DEFINE M == Seq(Words) \ {<<>>}
  <2>1. ls \in Seq(M)
    BY <1>1
  <2> HIDE DEF M
  <2>2. m \in Nat /\ m # 0 /\ \A i \in 1 .. m : ls[i] \in M
    BY <1>1, <2>1, LenProperties, EmptySeq
  <2> HIDE DEF m
  <2>3. \A i \in 1 .. m : ls[i] \in Seq(Words)
    BY <2>2 DEF M
  <2> QED BY <2>2, <2>3, LenProperties
<1>6. /\ s \in [1 .. m -> Nat] /\ s[1] = 0 /\ s[m] + Len(ls[m]) = n
      /\ \A k \in 1 .. m : s[k] + Len(ls[k]) <= n
  BY <1>2 DEF Places
<1>7. \A k \in 1 .. m : \A j \in 1 .. Len(ls[k]) : str[s[k] + j] = ls[k][j]
  BY <1>2 DEF Places
<1>8. \A k \in 1 .. m - 1 : s[k + 1] = s[k] + Len(ls[k]) + 1 /\ str[s[k + 1]] = Dot
  BY <1>2 DEF Places
<1> HIDE DEF m, n
<1> DEFINE P == {i \in 0 .. m - 1 : Follows(u[i], str, s[i + 1])}
\* A label that comes next stands at the beginning of what is left.
<1>9. ASSUME NEW i \in 0 .. m - 1, Follows(u[i], str, s[i + 1])
      PROVE  LET v == u[i]
                 l == ls[i + 1]
             IN  /\ v \in Seq(STRING) /\ l \in Seq(Words) /\ Len(l) <= Len(v)
                 /\ \A j \in 1 .. Len(l) : v[j] = l[j]
                 /\ Len(v) = n - s[i + 1] /\ u[i + 1] = matchStringPart(v, l)
                 /\ \A j \in 1 .. Len(v) : v[j] = str[s[i + 1] + j]
  <2> DEFINE k == i + 1
             v == u[i]
             l == ls[k]
             q == s[k]
  <2>1. k \in 1 .. m /\ k - 1 = i
    BY <1>5
  <2>2. v \in Seq(STRING) /\ q \in Nat /\ Len(v) = n - q /\ \A j \in 1 .. Len(v) : v[j] = str[q + j]
    BY <1>9 DEF Follows, n
  <2> HIDE DEF k
  <2>3. l \in Seq(Words) /\ Len(l) \in Nat /\ q + Len(l) <= n
    BY <1>5, <1>6, <2>1
  <2>4. \A j \in 1 .. Len(l) : str[q + j] = l[j]
    BY <1>7, <2>1
  <2>5. u[k] = matchStringPart(u[k - 1], ls[k])
    BY <1>4, <2>1
  <2> HIDE DEF l, q, v
  <2>6. Len(l) <= Len(v)
    BY <1>3, <2>2, <2>3
  <2>7. \A j \in 1 .. Len(l) : j \in 1 .. Len(v)
    BY <1>3, <2>2, <2>3
  <2>8. \A j \in 1 .. Len(l) : v[j] = l[j]
    BY <2>2, <2>4, <2>7
  <2> QED BY <2>1, <2>2, <2>3, <2>5, <2>6, <2>8 DEF k, l, q, v
<1>10. 0 \in P
  <2>1. Follows(str, str, 0)
    BY <1>3 DEF Follows, n
  <2>2. 0 \in 0 .. m - 1 /\ 0 + 1 = 1
    BY <1>5
  <2> QED BY <1>4, <1>6, <2>1, <2>2
<1>11. ASSUME NEW i \in 0 .. (m - 1) - 1, i \in P PROVE i + 1 \in P
  <2> DEFINE k == i + 1
             v == u[i]
             l == ls[k]
             q == s[k]
             b == Len(l)
  <2>1. k \in 1 .. m - 1 /\ i \in 0 .. m - 1 /\ k \in 0 .. m - 1 /\ k \in 1 .. m /\ k + 1 \in 1 .. m
    BY <1>5
  <2>2. Follows(v, str, q)
    BY <1>11
  <2>3. /\ v \in Seq(STRING) /\ l \in Seq(Words) /\ b <= Len(v)
        /\ \A j \in 1 .. b : v[j] = l[j]
    BY <1>9, <1>11, <2>1
  <2>4. Len(v) = n - q /\ u[k] = matchStringPart(v, l) /\ \A j \in 1 .. Len(v) : v[j] = str[q + j]
    BY <1>9, <1>11, <2>1
  <2> HIDE DEF k
  <2>5. s[k + 1] = q + b + 1 /\ str[s[k + 1]] = Dot
    BY <1>8, <2>1
  <2>6. q \in Nat /\ b \in Nat /\ s[k + 1] <= n
    <3>1. q \in Nat /\ b \in Nat
      BY <1>5, <1>6, <2>1
    <3>2. s[k + 1] \in Nat /\ Len(ls[k + 1]) \in Nat /\ s[k + 1] + Len(ls[k + 1]) <= n
      BY <1>5, <1>6, <2>1
    <3>3. s[k + 1] <= n
      BY <1>3, <3>2
    <3> QED BY <3>1, <3>3
  <2> HIDE DEF v, l, q
  <2>7. b < Len(v) /\ b + 1 \in 1 .. Len(v) /\ q + (b + 1) = s[k + 1]
    <3> HIDE DEF b
    <3> QED BY <1>3, <2>4, <2>5, <2>6
  <2>8. v[b + 1] = Dot
    BY <2>4, <2>5, <2>7
  <2>9. Follows(u[k], v, b + 1)
    BY <2>3, <2>4, <2>7, <2>8, BeginningMatches
  <2>10. Follows(u[k], str, q + (b + 1))
    BY <1>3, <2>2, <2>9, FollowsOn
  <2> QED BY <2>1, <2>7, <2>10 DEF k
<1>12. m - 1 \in P
  <2>1. \A i \in 0 .. (m - 1) - 1 : i \in P => i + 1 \in P
    BY <1>11
  <2> HIDE DEF P
  <2> DEFINE z == m - 1
  <2>2. z \in Nat /\ z \in 0 .. z
    BY <1>5
  <2> HIDE DEF z
  <2>3. \A i \in 0 .. z - 1 : i \in P => i + 1 \in P
    BY <2>1 DEF z
  <2>4. 0 .. z \subseteq P
    BY <1>10, <2>2, <2>3, InductiveUpTo
  <2> QED BY <2>2, <2>4 DEF z
<1>13. u[m] = <<>>
  <2> DEFINE i == m - 1
             v == u[i]
             l == ls[m]
  <2>1. i \in 0 .. m - 1 /\ i + 1 = m /\ m \in 1 .. m /\ Follows(v, str, s[i + 1])
    BY <1>5, <1>12
  <2> HIDE DEF i
  <2>2. /\ v \in Seq(STRING) /\ l \in Seq(Words) /\ Len(l) <= Len(v)
        /\ \A j \in 1 .. Len(l) : v[j] = l[j]
    BY <1>9, <2>1
  <2>3. Len(v) = n - s[m] /\ u[m] = matchStringPart(v, l)
    BY <1>9, <2>1
  <2>4. Len(l) = Len(v)
    <3>1. s[m] \in Nat /\ Len(ls[m]) \in Nat
      BY <1>5, <1>6, <2>1
    <3> QED BY <1>3, <1>6, <2>3, <3>1
  <2> HIDE DEF v, l
  <2> QED BY <2>2, <2>3, <2>4, BeginningMatches
<1> QED BY <1>4, <1>13 DEF ls, m

-----------------------------------------------------------------------------
(* Questions *)

\* A question that is answered to by the name j, as a run compares them.
Hits(j, q) == Unmatched(servNames(j), q.name.labels) = <<>>

Asks == [records : SUBSET (0 .. NumMDNSServiceRecords + 1), wantsIPv6Addr : BOOLEAN]
NothingAsked == [records |-> {}, wantsIPv6Addr |-> FALSE]
ServiceTypesAsked == {"PTR", "TXT", "SRV"}

\* What one question adds to those before it.
LEMMA QuestionHandled ==
  ASSUME NEW a \in Asks, NEW q
  PROVE  LET b == HandleQuestion(a, q)
         IN  /\ b \in Asks /\ a.records \subseteq b.records
             /\ 0 \in b.records <=> 0 \in a.records \/ (Hits(0, q) /\ q.type = "A")
             /\ b.wantsIPv6Addr => a.wantsIPv6Addr \/ (Hits(0, q) /\ q.type = "AAAA")
             /\ \A j \in 1 .. NumMDNSServiceRecords + 1 :
                  Hits(j, q) /\ q.type \in ServiceTypesAsked => j \in b.records
<1> DEFINE N == NumMDNSServiceRecords + 1
           hits == {j \in 0 .. N \ a.records : Hits(j, q)}
           now == {j \in hits : q.type \in IF j = 0 THEN {"A"} ELSE ServiceTypesAsked}
           six == a.wantsIPv6Addr \/ (0 \in hits /\ q.type = "AAAA")
           b == HandleQuestion(a, q)
<1>1. N \in Nat /\ 0 \in 0 .. N /\ \A j \in 1 .. N : j \in 0 .. N /\ j # 0
  BY Sizes
<1>2. b = [records |-> a.records \cup now, wantsIPv6Addr |-> six]
  BY DEF HandleQuestion, Hits, ServiceTypesAsked
<1>3. a.records \subseteq 0 .. N /\ a.wantsIPv6Addr \in BOOLEAN
  BY DEF Asks
<1> HIDE DEF N
<1>4. now \subseteq 0 .. N /\ six \in BOOLEAN
  BY <1>3
<1>5. b.records = a.records \cup now /\ b.wantsIPv6Addr = six
  BY <1>2
<1>6. 0 \in now <=> 0 \notin a.records /\ Hits(0, q) /\ q.type = "A"
  BY <1>1
<1>7. ASSUME NEW j \in 1 .. N, Hits(j, q), q.type \in ServiceTypesAsked
      PROVE  j \in a.records \cup now
  BY <1>1, <1>7
<1>8. six => a.wantsIPv6Addr \/ (Hits(0, q) /\ q.type = "AAAA")
  OBVIOUS
<1> HIDE DEF now, six, hits
<1>9. b \in Asks
  <2> DEFINE u == a.records \cup now
  <2>1. u \subseteq 0 .. N
    BY <1>3, <1>4
  <2> HIDE DEF u, b
  <2>2. b = [records |-> u, wantsIPv6Addr |-> six]
    BY <1>2 DEF u
  <2>3. b \in [records : SUBSET (0 .. N), wantsIPv6Addr : BOOLEAN]
    BY <1>4, <2>1, <2>2
  <2> QED BY <2>3 DEF Asks, N
<1> HIDE DEF b
<1>10. \A j \in 1 .. N : Hits(j, q) /\ q.type \in ServiceTypesAsked => j \in b.records
  BY <1>5, <1>7
<1>11. 0 \in b.records <=> 0 \in a.records \/ (Hits(0, q) /\ q.type = "A")
  BY <1>5, <1>6
<1> QED BY <1>5, <1>8, <1>9, <1>10, <1>11 DEF b, N

\* What has been asked for after each question.
LEMMA QuestionRun ==
  ASSUME NEW qs \in Seq(Records)
  PROVE  \E r \in [0 .. Len(qs) -> Asks] :
           /\ r[0] = NothingAsked /\ \A i \in 1 .. Len(qs) : r[i] = HandleQuestion(r[i - 1], qs[i])
           /\ FoldLeft(HandleQuestion, NothingAsked, qs) = r[Len(qs)]
<1> DEFINE s == qs
           n == Len(s)
           X == Asks
           T == Records
           start == NothingAsked
           H(x, c) == HandleQuestion(x, c)
           step == [x \in X \X T |-> H(x[1], x[2])]
           Eq(f) == f = [u \in SUBSET DOMAIN s |->
                           IF u = {} THEN start ELSE H(f[u \ {Max(u)}], s[Max(u)])]
           it == CHOOSE f : Eq(f)
<1>1. n \in Nat /\ DOMAIN s = 1 .. n /\ s \in [1 .. n -> T]
  BY LenProperties
<1>2. FoldLeft(HandleQuestion, NothingAsked, qs) = it[DOMAIN s]
  BY Zenon DEF FoldLeft, MapThenFoldSet
<1>3. \A x \in X, c \in T : H(x, c) \in X
  BY QuestionHandled
<1>4. start \in X
  BY DEF Asks, NothingAsked
<1> HIDE DEF s, n, X, T, H, start
<1>5. step \in [X \X T -> X] /\ \A x \in X, c \in T : step[<<x, c>>] = H(x, c)
  BY <1>3
<1> HIDE DEF step
<1>6. \A u \in SUBSET (1 .. n) :
        u # {} => s[Max(u)] \in T /\ u \ {Max(u)} \in SUBSET (1 .. n)
  <2> SUFFICES ASSUME NEW u \in SUBSET (1 .. n), u # {}
               PROVE  s[Max(u)] \in T /\ u \ {Max(u)} \in SUBSET (1 .. n)
    OBVIOUS
  <2>1. Max(u) \in u
    BY <1>1, Greatest
  <2> QED BY <1>1, <2>1
<1>7. Eq(it)
  <2>1. PICK f \in [SUBSET (1 .. n) -> X] : IsFold(f, start, step, s, n)
    BY <1>1, <1>4, <1>5, FoldExists
  <2>2. \A u \in SUBSET (1 .. n) :
          f[u] = IF u = {} THEN start ELSE H(f[u \ {Max(u)}], s[Max(u)])
    BY <1>5, <1>6, <2>1 DEF IsFold
  <2>3. Eq(f)
    BY <1>1, <2>2
  <2> HIDE DEF Eq
  <2> QED BY <2>3
<1>8. /\ it[{}] = start
      /\ \A u \in SUBSET (1 .. n) :
           u # {} => it[u] = H(it[u \ {Max(u)}], s[Max(u)])
  <2> HIDE DEF it
  <2> QED BY <1>1, <1>7
<1> HIDE DEF it
<1>9. IsFoldIn(it, X, start, step, s, n)
  BY <1>5, <1>6, <1>8 DEF IsFoldIn
<1>10. PICK r \in [0 .. n -> X] : IsRun(r, start, it[1 .. n], step, s, n)
  <2>1. \E r \in [0 .. n -> X] : IsRun(r, start, it[1 .. n], step, s, n)
    BY <1>1, <1>4, <1>5, <1>9, FoldRun
  <2> QED BY <2>1
<1>11. ASSUME NEW i \in 1 .. n PROVE r[i] = H(r[i - 1], s[i])
  <2>1. i - 1 \in 0 .. n /\ s[i] \in T
    BY <1>1
  <2> QED BY <1>5, <1>10, <2>1 DEF IsRun
<1>12. r[0] = start /\ \A i \in 1 .. n : r[i] = H(r[i - 1], s[i])
  BY <1>10, <1>11 DEF IsRun
<1>13. r[n] = it[DOMAIN s]
  BY <1>1, <1>10 DEF IsRun
<1> QED BY <1>2, <1>10, <1>12, <1>13 DEF n, s, X, H, start

\* A question of these types that is answered to by the name j.
AskedIn(p, j, types) ==
  /\ ~p.response /\ p.port = MDNS_SERVER_PORT
  /\ \E k \in DOMAIN p.questions : p.questions[k].type \in types /\ Hits(j, p.questions[k])

\* What is asked for in all is what some question of the packet asks for.
LEMMA QuestionsAsked ==
  ASSUME NEW p \in MDNSPackets
  PROVE  LET a == RecordsAskedFor(p)
         IN  /\ 0 \in a.records <=> AskedIn(p, 0, {"A"})
             /\ a.wantsIPv6Addr => AskedIn(p, 0, {"AAAA"})
             /\ \A j \in 1 .. NumMDNSServiceRecords + 1 :
                  AskedIn(p, j, ServiceTypesAsked) => j \in a.records
<1> DEFINE on == ~p.response /\ p.port = MDNS_SERVER_PORT
           qs == IF on THEN p.questions ELSE <<>>
           n == Len(qs)
           N == NumMDNSServiceRecords + 1
           a == RecordsAskedFor(p)
<1>1. qs \in Seq(Records)
  <2>1. p.questions \in Seq(Records)
    BY DEF MDNSPackets
  <2> QED BY <2>1, EmptySeq
<1>2. a = FoldLeft(HandleQuestion, NothingAsked, qs)
  BY Zenon DEF RecordsAskedFor, NothingAsked
<1>3. \A j, types : AskedIn(p, j, types) <=> \E k \in DOMAIN qs : qs[k].type \in types /\ Hits(j, qs[k])
  <2>1. DOMAIN <<>> = {}
    OBVIOUS
  <2> QED BY <2>1 DEF AskedIn
<1> HIDE DEF qs, a
<1>4. n \in Nat /\ DOMAIN qs = 1 .. n
  BY <1>1, LenProperties
<1>5. PICK r \in [0 .. n -> Asks] :
        /\ r[0] = NothingAsked /\ \A i \in 1 .. n : r[i] = HandleQuestion(r[i - 1], qs[i])
        /\ a = r[n]
  BY <1>1, <1>2, QuestionRun
<1> DEFINE By(i, j, types) == \E k \in 1 .. i : qs[k].type \in types /\ Hits(j, qs[k])
           Says(i) == /\ 0 \in r[i].records <=> By(i, 0, {"A"})
                      /\ r[i].wantsIPv6Addr => By(i, 0, {"AAAA"})
                      /\ \A j \in 1 .. N : By(i, j, ServiceTypesAsked) => j \in r[i].records
           P == {i \in 0 .. n : Says(i)}
<1> HIDE DEF n, N
<1>6. 0 \in P
  <2>1. r[0].records = {} /\ r[0].wantsIPv6Addr = FALSE
    BY <1>5 DEF NothingAsked
  <2>2. 1 .. 0 = {} /\ 0 \in 0 .. n
    BY <1>4
  <2> QED BY <2>1, <2>2
<1>7. ASSUME NEW i \in 0 .. n - 1, i \in P PROVE i + 1 \in P
  <2> DEFINE k == i + 1
             x == r[i]
             y == r[k]
             q == qs[k]
  <2>1. k \in 1 .. n /\ k - 1 = i /\ k \in 0 .. n /\ i \in 0 .. n /\ 1 .. k = (1 .. i) \cup {k}
    BY <1>4
  <2> HIDE DEF k
  <2>2. y = HandleQuestion(x, q) /\ x \in Asks
    BY <1>5, <2>1
  <2>3. /\ x.records \subseteq y.records
        /\ 0 \in y.records <=> 0 \in x.records \/ (Hits(0, q) /\ q.type = "A")
        /\ y.wantsIPv6Addr => x.wantsIPv6Addr \/ (Hits(0, q) /\ q.type = "AAAA")
        /\ \A j \in 1 .. N : Hits(j, q) /\ q.type \in ServiceTypesAsked => j \in y.records
    <3> HIDE DEF x, y, q
    <3> QED BY <2>2, QuestionHandled DEF N
  <2>4. Says(i)
    BY <1>7
  <2>5. \A j, types : By(k, j, types) <=> By(i, j, types) \/ (q.type \in types /\ Hits(j, q))
    BY <2>1
  <2> HIDE DEF By
  <2>6. 0 \in y.records <=> By(k, 0, {"A"})
    BY <2>3, <2>4, <2>5
  <2>7. y.wantsIPv6Addr => By(k, 0, {"AAAA"})
    BY <2>3, <2>4, <2>5
  <2>8. \A j \in 1 .. N : By(k, j, ServiceTypesAsked) => j \in y.records
    BY <2>3, <2>4, <2>5
  <2>9. Says(k)
    BY <2>6, <2>7, <2>8
  <2> HIDE DEF Says
  <2> QED BY <2>1, <2>9 DEF k
<1>8. n \in P
  <2>1. \A i \in 0 .. n - 1 : i \in P => i + 1 \in P
    BY <1>7
  <2> HIDE DEF P
  <2>2. 0 .. n \subseteq P
    BY <1>4, <1>6, <2>1, InductiveUpTo
  <2> QED BY <1>4, <2>2
<1>9. Says(n)
  BY <1>8
<1>10. \A j, types : AskedIn(p, j, types) <=> By(n, j, types)
  BY <1>3, <1>4
<1> HIDE DEF By
<1> QED BY <1>5, <1>9, <1>10 DEF a, N

-----------------------------------------------------------------------------
(* Answers to questions *)

Answering == {"MyIPAnswer", "NoIPv6AddrAvailable"}

\* The messages that answer what was asked for.
LEMMA RequestsAnswered ==
  ASSUME serviceRecords \in [Slots -> Services \cup {NoService}], NEW asks
  PROVE  LET sent == ToSet(HandleRequests(asks))
         IN  /\ Message("MyIPAnswer") \in sent <=> 0 \in asks.records
             /\ Message("NoIPv6AddrAvailable") \in sent => asks.wantsIPv6Addr
             /\ \A k \in Slots :
                  serviceRecords[k] # NoService /\ (1 \in asks.records \/ k + 1 \in asks.records) =>
                    AboutService("ServiceRecord", serviceRecords[k]) \in sent
<1> DEFINE all == [k \in Slots |-> k]
           T == {k \in Slots : {1, k + 1} \intersect asks.records # {}}
           slots == Among(all, T)
           x == Message("MyIPAnswer")
           y == Message("NoIPv6AddrAvailable")
           mine == IF 0 \in asks.records THEN <<x>> ELSE <<>>
           six == IF asks.wantsIPv6Addr THEN <<y>> ELSE <<>>
           told == Announcements(slots)
           both == mine \o told
<1>1. HandleRequests(asks) = both \o six
  BY DEF HandleRequests
<1>2. slots \in Seq(Slots) /\ ToSet(slots) = T
  <2>1. all \in Seq(Slots) /\ ToSet(all) = Slots /\ Slots \cap T = T /\ T \subseteq Slots
    BY SlotsInOrder
  <2> HIDE DEF all, T
  <2>2. slots \in Seq(Slots \cap T) /\ ToSet(slots) = ToSet(all) \cap T
    BY <2>1, AmongMembers
  <2> HIDE DEF slots
  <2>3. slots \in Seq(Slots)
    BY <2>1, <2>2, SeqMonotonic
  <2> QED BY <2>1, <2>2, <2>3
<1> HIDE DEF slots
<1>3. /\ told \in Seq(Unasked) /\ told \in Seq(Sendable)
      /\ \A k \in T : serviceRecords[k] # NoService =>
           AboutService("ServiceRecord", serviceRecords[k]) \in ToSet(told)
  BY <1>2, Announced
<1>4. x \in Sendable /\ y \in Sendable
  BY DEF Sendable, Message, Messages, QueryNames
<1>5. x.type = "MyIPAnswer" /\ y.type = "NoIPv6AddrAvailable" /\ x # y
  BY DEF Message
<1> HIDE DEF x, y, told
<1>6. ToSet(<<x>>) = {x} /\ ToSet(<<y>>) = {y} /\ ToSet(<<>>) = {}
  <2>1. \A m : DOMAIN <<m>> = {1} /\ <<m>>[1] = m
    OBVIOUS
  <2>2. \A m : ToSet(<<m>>) = {m}
    BY <2>1 DEF ToSet
  <2>3. ToSet(<<>>) = {}
    BY DEF ToSet
  <2> QED BY <2>2, <2>3
<1>7. mine \in Seq(Sendable) /\ six \in Seq(Sendable)
  BY <1>4
<1>8. /\ ToSet(mine) = IF 0 \in asks.records THEN {x} ELSE {}
      /\ ToSet(six) = IF asks.wantsIPv6Addr THEN {y} ELSE {}
  BY <1>6
<1> HIDE DEF mine, six
<1>9. both \in Seq(Sendable) /\ ToSet(both) = ToSet(mine) \cup ToSet(told)
  BY <1>3, <1>7, JoinMembers, ConcatProperties
<1> HIDE DEF both
<1>10. ToSet(HandleRequests(asks)) = ToSet(mine) \cup ToSet(told) \cup ToSet(six)
  BY <1>1, <1>7, <1>9, JoinMembers
<1>11. \A m \in ToSet(told) : m.type \notin Answering
  <2>1. \A n \in DOMAIN told : told[n] \in Unasked
    BY <1>3, LenProperties
  <2>2. \A m \in Unasked : m.type \notin Answering
    BY DEF Unasked, Answering
  <2> QED BY <2>1, <2>2 DEF ToSet
<1>12. x \notin ToSet(told) /\ y \notin ToSet(told)
  BY <1>5, <1>11 DEF Answering
<1>13. ASSUME NEW k \in Slots, serviceRecords[k] # NoService,
              1 \in asks.records \/ k + 1 \in asks.records
       PROVE  AboutService("ServiceRecord", serviceRecords[k]) \in ToSet(HandleRequests(asks))
  <2>1. k \in T
    BY <1>13
  <2> QED BY <1>3, <1>10, <1>13, <2>1
<1>14. x \in ToSet(HandleRequests(asks)) <=> 0 \in asks.records
  BY <1>5, <1>8, <1>10, <1>12
<1>15. y \in ToSet(HandleRequests(asks)) => asks.wantsIPv6Addr
  BY <1>5, <1>8, <1>10, <1>12
<1> QED BY <1>13, <1>14, <1>15 DEF x, y

\* Among all a run says, the answers are those to the questions.
LEMMA AnswersAmong ==
  ASSUME NEW said, NEW ms \in Seq(Sendable),
         \E u \in Seq(Unasked) : SaysMore(said, u \o ms)
  PROVE  /\ ToSet(ms) \subseteq ToSet(said)
         /\ \A m \in ToSet(said) : m.type \in Answering => m \in ToSet(ms)
<1>1. PICK u \in Seq(Unasked) : SaysMore(said, u \o ms)
  OBVIOUS
<1>2. PICK v \in Seq(Unasked) : said = (u \o ms) \o v
  BY <1>1 DEF SaysMore
<1>3. Unasked \subseteq Sendable /\ \A m \in Unasked : m.type \notin Answering
  BY DEF Unasked, Answering
<1>4. u \in Seq(Sendable) /\ v \in Seq(Sendable)
  BY <1>3, SeqMonotonic
<1>5. u \o ms \in Seq(Sendable) /\ ToSet(u \o ms) = ToSet(u) \cup ToSet(ms)
  BY <1>4, JoinMembers, ConcatProperties
<1>6. ToSet(said) = ToSet(u) \cup ToSet(ms) \cup ToSet(v)
  <2> DEFINE w == u \o ms
  <2> HIDE DEF w
  <2>1. w \in Seq(Sendable)
    BY <1>5 DEF w
  <2>2. ToSet(w \o v) = ToSet(w) \cup ToSet(v)
    BY <1>4, <2>1, JoinMembers
  <2> QED BY <1>2, <1>5, <2>2 DEF w
<1>7. ASSUME NEW s \in Seq(Unasked) PROVE ToSet(s) \subseteq Unasked
  <2>1. \A n \in DOMAIN s : s[n] \in Unasked
    BY LenProperties
  <2> QED BY <2>1 DEF ToSet
<1> QED BY <1>3, <1>6, <1>7

\* What a step says to a packet.
AnswersTo(p, sent) ==
  /\ (Message("MyIPAnswer") \in sent) <=> AsksFor(p, bonjourName, {"A"})
  /\ Message("NoIPv6AddrAvailable") \in sent => AsksFor(p, bonjourName, {"AAAA"})
  /\ \A k \in Slots :
       LET s == serviceRecords[k] IN
       /\ s # NoService
       /\ \/ AsksFor(p, servName(s), {"PTR", "SRV", "TXT"})
          \/ AsksFor(p, DNS_SD_SERVICE, {"PTR", "SRV", "TXT"})
       => AboutService("ServiceRecord", s) \in sent

\* The name of service discovery is a name.
LEMMA DiscoveryIsName == IsName(DNS_SD_SERVICE)
<1> DEFINE n == DNS_SD_SERVICE
<1>1. n = <<"_services", ".", "_dns-sd", ".", "_udp", ".", "local">>
  BY DEF DNS_SD_SERVICE, Dot
<1>2. {"_services", ".", "_dns-sd", "_udp", "local"} \subseteq STRING
  BY BonjourAssumption DEF Dot
<1>3. n \in Seq(STRING) /\ n # <<>> /\ Len(n) = 7
  BY <1>1, <1>2
<1>4. \A i \in 1 .. 7 : n[i] = "." => i \in {2, 4, 6}
  BY <1>1
<1>5. n[3] # "." /\ n[5] # "." /\ n[7] # "."
  BY <1>1
<1>6. ASSUME NEW i \in 1 .. 7, n[i] = "." PROVE i # 1 /\ i # 7 /\ n[i + 1] # "."
  <2> HIDE DEF n
  <2> QED BY <1>4, <1>5, <1>6
<1> HIDE DEF n
<1>7. IsName(n)
  BY <1>3, <1>6 DEF IsName, Dot
<1> QED BY <1>7 DEF n

\* To ask for a name is to have a question that hits it.
LEMMA AskedIsHit ==
  ASSUME NEW p, NEW str, IsName(str), NEW j, servNames(j) = str, NEW types,
         AsksFor(p, str, types)
  PROVE  AskedIn(p, j, types)
<1>1. ~p.response /\ p.port = MDNS_SERVER_PORT
  BY DEF AsksFor
<1>2. PICK k \in DOMAIN p.questions :
        p.questions[k].type \in types /\ p.questions[k].name = writeDNSName(str)
  BY DEF AsksFor
<1>3. Hits(j, p.questions[k])
  BY <1>2, NameMatches DEF Hits
<1> QED BY <1>1, <1>2, <1>3 DEF AskedIn

\* A question that hits the name of the device asks for it.
LEMMA HitIsAsked ==
  ASSUME OwnNames, bonjourName \in {h \o MDNS_TLD : h \in Hosts},
         NEW p \in MDNSPackets, AsksByName(p), NEW types, AskedIn(p, 0, types)
  PROVE  AsksFor(p, bonjourName, types)
<1>1. PICK h \in Hosts : bonjourName = h \o MDNS_TLD
  OBVIOUS
<1>2. ~p.response /\ p.port = MDNS_SERVER_PORT
  BY DEF AskedIn
<1>3. PICK k \in DOMAIN p.questions : p.questions[k].type \in types /\ Hits(0, p.questions[k])
  BY DEF AskedIn
<1> DEFINE q == p.questions[k]
           ls == q.name.labels
<1>4. ls \in Seq(Seq(Words) \ {<<>>})
  <2>1. p.questions \in Seq(Records)
    BY DEF MDNSPackets
  <2>2. q \in Records
    BY <2>1
  <2> HIDE DEF q
  <2>3. q.name \in Names
    BY <2>2 DEF Records
  <2> QED BY <2>3 DEF Names, Words
<1>5. bonjourName \in Seq(STRING)
  BY <1>1 DEF OwnNames, IsName
<1>6. Unmatched(bonjourName, ls) = <<>>
  BY <1>3 DEF Hits, servNames
<1> HIDE DEF ls
<1>7. Spell(ls, bonjourName)
  BY <1>4, <1>5, <1>6, MatchedIsSpelled
<1>8. q.name = writeDNSName(bonjourName)
  BY <1>1, <1>7 DEF AsksByName, ls
<1> QED BY <1>2, <1>3, <1>8 DEF AsksFor

\* A run answers what is asked.
LEMMA RunAnswers ==
  ASSUME OwnNames, BonjourTypes, NEW packets, packets \subseteq MDNSPackets,
         \A p \in packets : AsksByName(p), RunOn(packets)
  PROVE  AnswersTo(out'.packet, ToSet(out'.sent))
<1>1. PICK p \in packets, before, during \in 0 .. MaxPause, then \in Calls \cup {NoCall}, junk \in Junk :
        Run(p, before, during, then, junk)
  BY DEF RunOn
<1> DEFINE now == (millis + before) % ClockSpace
           at  == (now + during) % ClockSpace
           d   == RunAt(p, now, at, then, junk)
           a   == RecordsAskedFor(p)
           ms  == HandleRequests(a)
<1>2. \E u \in Seq(Unasked) : SaysMore(d.sent, u \o ms)
  BY <1>1, RunTyped
<1>3. Step(d, p, before + during)
  BY <1>1 DEF Run
<1> HIDE DEF now, at, d
<1>4. out'.sent = d.sent /\ out'.packet = p
  BY <1>3 DEF Step, Outcome
<1>5. serviceRecords \in [Slots -> Services \cup {NoService}]
      /\ bonjourName \in {h \o MDNS_TLD : h \in Hosts}
  BY DEF BonjourTypes
<1>6. /\ 0 \in a.records <=> AskedIn(p, 0, {"A"})
      /\ a.wantsIPv6Addr => AskedIn(p, 0, {"AAAA"})
      /\ \A j \in 1 .. NumMDNSServiceRecords + 1 : AskedIn(p, j, ServiceTypesAsked) => j \in a.records
  BY <1>1, QuestionsAsked
<1> HIDE DEF a
<1> DEFINE sent == ToSet(d.sent)
<1>7. /\ Message("MyIPAnswer") \in ToSet(ms) <=> 0 \in a.records
      /\ Message("NoIPv6AddrAvailable") \in ToSet(ms) => a.wantsIPv6Addr
      /\ \A k \in Slots :
           serviceRecords[k] # NoService /\ (1 \in a.records \/ k + 1 \in a.records) =>
             AboutService("ServiceRecord", serviceRecords[k]) \in ToSet(ms)
  BY <1>5, RequestsAnswered
<1>8. ms \in Seq(Sendable)
  BY <1>5, RequestsHandled
<1> HIDE DEF ms
<1>9. ToSet(ms) \subseteq sent /\ \A m \in sent : m.type \in Answering => m \in ToSet(ms)
  BY <1>2, <1>8, AnswersAmong
<1> HIDE DEF sent
<1>10. Message("MyIPAnswer").type \in Answering /\ Message("NoIPv6AddrAvailable").type \in Answering
  BY DEF Message, Answering
<1>11. servNames(0) = bonjourName /\ servNames(1) = DNS_SD_SERVICE
  BY DEF servNames
<1>12. IsName(bonjourName)
  BY <1>5 DEF OwnNames
<1>13. \A types : AskedIn(p, 0, types) <=> AsksFor(p, bonjourName, types)
  BY <1>1, <1>5, <1>11, <1>12, HitIsAsked, AskedIsHit
<1>14. Message("MyIPAnswer") \in sent <=> AsksFor(p, bonjourName, {"A"})
  BY <1>6, <1>7, <1>9, <1>10, <1>13
<1>15. Message("NoIPv6AddrAvailable") \in sent => AsksFor(p, bonjourName, {"AAAA"})
  BY <1>6, <1>7, <1>9, <1>10, <1>13
<1>16. ASSUME NEW k \in Slots, serviceRecords[k] # NoService,
              \/ AsksFor(p, servName(serviceRecords[k]), {"PTR", "SRV", "TXT"})
              \/ AsksFor(p, DNS_SD_SERVICE, {"PTR", "SRV", "TXT"})
       PROVE  AboutService("ServiceRecord", serviceRecords[k]) \in sent
  <2> DEFINE s == serviceRecords[k]
  <2>1. {"PTR", "SRV", "TXT"} = ServiceTypesAsked
    BY DEF ServiceTypesAsked
  <2>2. /\ k \in Nat /\ k # 0 /\ k + 1 # 0 /\ k + 1 # 1 /\ (k + 1) - 1 = k
        /\ k + 1 \in 1 .. NumMDNSServiceRecords + 1 /\ 1 \in 1 .. NumMDNSServiceRecords + 1
    BY Sizes DEF Slots
  <2>3. CASE AsksFor(p, servName(s), {"PTR", "SRV", "TXT"})
    <3>1. servNames(k + 1) = servName(s)
      BY <1>16, <2>2 DEF servNames
    <3>2. IsName(servName(s))
      <4>1. s \in Services
        BY <1>5, <1>16
      <4> QED BY <4>1 DEF OwnNames
    <3>3. AskedIn(p, k + 1, ServiceTypesAsked)
      BY <2>1, <2>3, <3>1, <3>2, AskedIsHit
    <3> QED BY <1>6, <1>7, <1>9, <1>16, <2>2, <3>3
  <2>4. CASE AsksFor(p, DNS_SD_SERVICE, {"PTR", "SRV", "TXT"})
    <3>1. AskedIn(p, 1, ServiceTypesAsked)
      BY <1>11, <2>1, <2>4, DiscoveryIsName, AskedIsHit
    <3> QED BY <1>6, <1>7, <1>9, <1>16, <2>2, <3>1
  <2> QED BY <1>16, <2>3, <2>4
<1> QED BY <1>4, <1>14, <1>15, <1>16 DEF AnswersTo, sent

\* A step that takes no packet has nothing to answer, and says nothing that would be an
\* answer.
LEMMA NothingToAnswer ==
  ASSUME NEW ms, \A n \in DOMAIN ms : ms[n].type \notin Answering
  PROVE  AnswersTo(NoPacket, ToSet(ms))
<1>1. NoPacket.questions = <<>> /\ DOMAIN <<>> = {}
  BY DEF NoPacket, Packet
<1>2. \A str, types : ~AsksFor(NoPacket, str, types)
  BY <1>1 DEF AsksFor
<1>3. Message("MyIPAnswer").type \in Answering /\ Message("NoIPv6AddrAvailable").type \in Answering
  BY DEF Message, Answering
<1>4. \A m \in ToSet(ms) : m.type \notin Answering
  BY DEF ToSet
<1> QED BY <1>2, <1>3, <1>4 DEF AnswersTo

\* A call of the program that sends no answers.
LEMMA CallAnswers ==
  ASSUME NEW d, \A n \in DOMAIN d.sent : d.sent[n].type \notin Answering, Call(d)
  PROVE  AnswersTo(out'.packet, ToSet(out'.sent))
<1>1. out'.packet = NoPacket /\ out'.sent = d.sent
  BY DEF Call, Step, Outcome
<1> QED BY <1>1, NothingToAnswer

\* Every step answers what is asked.
LEMMA StepAnswers ==
  ASSUME OwnNames, AskedByName, BonjourTypes, Next
  PROVE  AnswersTo(out'.packet, ToSet(out'.sent))
<1> DEFINE Silent(ms) == \A n \in DOMAIN ms : ms[n].type \notin Answering
<1>1. query \in Queries /\ millis \in Clock
      /\ serviceRecords \in [Slots -> Services \cup {NoService}]
  BY DEF BonjourTypes
<1>2. Typed(Quiet) /\ Quiet.sent = <<>>
  BY <1>1, QuietTyped
<1>3. Silent(<<>>)
  OBVIOUS
<1>4. CASE EthernetBonjour_run
  <2>1. Packets \cup {NoPacket} \subseteq MDNSPackets
    BY PacketsTyped
  <2>2. RunOn(Packets \cup {NoPacket})
    BY <1>4 DEF EthernetBonjour_run
  <2>3. AsksByName(NoPacket)
    BY DEF AsksByName, NoPacket, Packet
  <2>4. \A p \in Packets \cup {NoPacket} : AsksByName(p)
    BY <2>3 DEF AskedByName
  <2> QED BY <2>1, <2>2, <2>4, RunAnswers
<1>5. CASE EthernetBonjour_resolve
  <2>1. PICK c \in Calls : Call(DoCall(Quiet, c, millis))
    BY <1>5 DEF EthernetBonjour_resolve
  <2> DEFINE ms == DoCall(Quiet, c, millis).sent
  <2>2. SaysMore(ms, <<>>)
    BY <1>1, <1>2, QueryBegun
  <2> HIDE DEF ms
  <2>3. PICK v \in Seq(Unasked) : ms = <<>> \o v
    BY <2>2 DEF SaysMore
  <2>4. ms \in Seq(Unasked)
    BY <2>3, ConcatEmptySeq
  <2>5. \A m \in Unasked : m.type \notin Answering
    BY DEF Unasked, Answering
  <2>6. Silent(ms)
    <3>1. \A n \in DOMAIN ms : ms[n] \in Unasked
      BY <2>4, LenProperties
    <3> QED BY <2>5, <3>1
  <2> QED BY <2>1, <2>6, CallAnswers DEF ms
<1>6. CASE EthernetBonjour_cancel
  <2>1. PICK i \in {0, 1} : Call(cancelQuery(Quiet, i))
    BY <1>6 DEF EthernetBonjour_cancel
  <2>2. cancelQuery(Quiet, i).sent = <<>>
    BY <1>2, QueryCancelled
  <2> QED BY <1>3, <2>1, <2>2, CallAnswers
<1>7. CASE EthernetBonjour_setBonjourName
  BY <1>2, <1>3, <1>7, CallAnswers DEF EthernetBonjour_setBonjourName
<1>8. CASE EthernetBonjour_addServiceRecord
  <2>1. PICK s \in Services : Call(Sends(Quiet, <<AboutService("ServiceRecord", s)>>))
    BY <1>8 DEF EthernetBonjour_addServiceRecord
  <2> DEFINE m == AboutService("ServiceRecord", s)
             ms == <<m>>
  <2>2. m \in AllMessages /\ m.type \notin Answering
    BY DEF AboutService, Message, AllMessages, Messages, QueryNames, Answering
  <2> HIDE DEF m
  <2>3. ms \in Seq(AllMessages) /\ DOMAIN ms = {1} /\ ms[1] = m
    BY <2>2
  <2> HIDE DEF ms
  <2>4. Sends(Quiet, ms).sent = ms
    BY <1>1, <2>3, QuietSends
  <2>5. Silent(ms)
    BY <2>2, <2>3
  <2> QED BY <2>1, <2>4, <2>5, CallAnswers DEF m, ms
<1> DEFINE ms(slots) == [n \in DOMAIN Registered(slots) |->
                           AboutService("ServiceRecordRelease", serviceRecords[Registered(slots)[n]])]
<1>9. ASSUME NEW slots \in Seq(Slots), Release(slots)
      PROVE  AnswersTo(out'.packet, ToSet(out'.sent))
  <2>1. Call(Sends(Quiet, ms(slots)))
    BY <1>9 DEF Release
  <2>2. /\ ms(slots) \in Seq(AllMessages)
        /\ \A n \in DOMAIN ms(slots) : ms(slots)[n].type = "ServiceRecordRelease"
    BY <1>1, ReleaseTyped
  <2> HIDE DEF ms
  <2>3. Silent(ms(slots))
    BY <2>2 DEF Answering
  <2>4. Sends(Quiet, ms(slots)).sent = ms(slots)
    BY <1>1, <2>2, QuietSends
  <2> QED BY <2>1, <2>3, <2>4, CallAnswers
<1>10. CASE EthernetBonjour_removeServiceRecord
  <2> DEFINE same(s) == {k \in Slots : serviceRecords[k].port = s.port /\ serviceRecords[k].proto = s.proto}
  <2>1. \E s \in Services : (same(s) # {} /\ Release(<<Min(same(s))>>)) \/ Release(<<>>)
    BY <1>10, Zenon DEF EthernetBonjour_removeServiceRecord
  <2>2. ASSUME NEW s, same(s) # {} /\ Release(<<Min(same(s))>>)
        PROVE  \E slots \in Seq(Slots) : Release(slots)
    BY <2>2, SameService
  <2>3. <<>> \in Seq(Slots)
    BY EmptySeq
  <2>4. \E slots \in Seq(Slots) : Release(slots)
    <3> HIDE DEF same
    <3> QED BY <2>1, <2>2, <2>3
  <2> QED BY <1>9, <2>4
<1>11. CASE EthernetBonjour_removeAllServiceRecords
  BY <1>9, <1>11, SlotsInOrder DEF EthernetBonjour_removeAllServiceRecords
<1>12. CASE PeerHears
  <2>1. out' = Outcome(Quiet, NoPacket)
    BY <1>12 DEF PeerHears
  <2>2. out'.packet = NoPacket /\ out'.sent = <<>>
    BY <1>2, <2>1 DEF Outcome
  <2> QED BY <1>3, <2>2, NothingToAnswer
<1>13. CASE PeerIsAnswered
  <2>1. {PeerAnswer} \subseteq MDNSPackets /\ RunOn({PeerAnswer})
    BY <1>13, PacketsTyped DEF PeerIsAnswered
  <2>2. PeerAnswer.questions = <<>> /\ DOMAIN <<>> = {}
    BY DEF PeerAnswer, sendMDNSMessage, Message, Packet
  <2>3. AsksByName(PeerAnswer)
    BY <2>2 DEF AsksByName
  <2> QED BY <2>1, <2>3, RunAnswers
<1> QED BY <1>4, <1>5, <1>6, <1>7, <1>8, <1>10, <1>11, <1>12, <1>13 DEF Next

\* The device answers what other hosts ask for and it has, several questions of a packet
\* as well, and gives its address to none that did not ask.
THEOREM AnswersWhatIsAskedAlways ==
  ASSUME OwnNames, AskedByName
  PROVE  Spec => AnswersWhatIsAsked
<1> DEFINE A == AnswersTo(out'.packet, ToSet(out'.sent))
<1>1. BonjourTypes /\ [Next]_vars => [A]_vars
  <2> SUFFICES ASSUME BonjourTypes, Next PROVE A
    OBVIOUS
  <2> QED BY StepAnswers
<1>2. AnswersWhatIsAsked <=> [][A]_vars
  BY DEF AnswersWhatIsAsked, AnswersTo
<1> HIDE DEF A
<1> QED BY <1>1, <1>2, TypesKept, PTL DEF Spec
=============================================================================
