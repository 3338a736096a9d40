------------------------ MODULE RuntimeOutboxProofs ------------------------
(***************************************************************************)
(* What the outbox operations return, for every queue and every bound.     *)
(***************************************************************************)
EXTENDS RuntimeOutbox, FiniteSetTheorems, SequenceTheorems, WellFoundedInduction, TLAPS

(* The n-th element of a finite set of positions exists, so a subsequence  *)
(* visits exactly the chosen positions, in increasing order.               *)
LEMMA NthProperties ==
  ASSUME NEW k \in Nat, NEW P \in SUBSET (1..k)
  PROVE  /\ Cardinality(P) \in Nat
         /\ Cardinality(P) <= k
         /\ \A n \in 1..Cardinality(P) : Nth(P, n) \in P
         /\ \A m, n \in 1..Cardinality(P) : m < n => Nth(P, m) < Nth(P, n)
         /\ \A p \in P : \E n \in 1..Cardinality(P) : Nth(P, n) = p
<1> DEFINE upTo(p) == {r \in P : r <= p}
           rank == [p \in P |-> Cardinality(upTo(p))]
<1>1. IsFiniteSet(P) /\ Cardinality(P) \in Nat /\ Cardinality(P) <= k
  <2>1. IsFiniteSet(1..k) /\ Cardinality(1..k) = k
    BY FS_Interval
  <2> QED
    BY <2>1, FS_Subset, FS_CardinalityType
<1>2. ASSUME NEW p \in P
      PROVE  rank[p] \in 1..Cardinality(P)
  <2>1. IsFiniteSet(upTo(p)) /\ Cardinality(upTo(p)) <= Cardinality(P)
    BY <1>1, FS_Subset
  <2>2. upTo(p) # {}
    BY <1>1
  <2> QED
    BY <1>1, <2>1, <2>2, FS_CardinalityType, FS_EmptySet
<1>3. ASSUME NEW p \in P, NEW q \in P, p < q
      PROVE  rank[p] < rank[q]
  <2>0. \A r \in P : r <= p => r <= q
    BY <1>3
  <2>4. q <= q /\ ~(q <= p)
    BY <1>3
  <2>1. upTo(p) \in SUBSET upTo(q) /\ q \in upTo(q) /\ q \notin upTo(p)
    BY <2>0, <2>4
  <2>2. IsFiniteSet(upTo(q)) /\ IsFiniteSet(upTo(p))
    BY <1>1, FS_Subset
  <2>3. Cardinality(upTo(p)) <= Cardinality(upTo(q)) /\ Cardinality(upTo(p)) # Cardinality(upTo(q))
    BY <2>1, <2>2, FS_Subset
  <2> QED
    BY <2>2, <2>3, FS_CardinalityType
<1>4. rank \in Injection(P, 1..Cardinality(P))
  <2>1. \A p, q \in P : p # q => p < q \/ q < p
    OBVIOUS
  <2> HIDE DEF rank
  <2>2. \A p, q \in P : rank[p] = rank[q] => p = q
    BY <1>2, <1>3, <2>1
  <2>3. rank \in [P -> 1..Cardinality(P)]
    BY <1>2 DEF rank
  <2> QED
    BY <2>2, <2>3 DEF Injection, IsInjective
<1>5. rank \in Surjection(P, 1..Cardinality(P))
  <2>1. IsFiniteSet(1..Cardinality(P)) /\ Cardinality(1..Cardinality(P)) = Cardinality(P)
    BY <1>1, FS_Interval
  <2> QED
    BY <1>4, <2>1, FS_Injection
<1>6. \A n \in 1..Cardinality(P) : Nth(P, n) \in P /\ rank[Nth(P, n)] = n
  BY <1>5 DEF Surjection, Nth
<1>7. \A p \in P : Nth(P, rank[p]) = p
  BY <1>2, <1>4, <1>6 DEF Injection, IsInjective
<1>8. ASSUME NEW m \in 1..Cardinality(P), NEW n \in 1..Cardinality(P), m < n
      PROVE  Nth(P, m) < Nth(P, n)
  <2> HIDE DEF rank
  <2>1. Nth(P, m) \in P /\ Nth(P, n) \in P
    BY <1>6
  <2>2. rank[Nth(P, m)] = m /\ rank[Nth(P, n)] = n
    BY <1>6
  <2>3. rank[Nth(P, m)] < rank[Nth(P, n)]
    BY <1>8, <2>2
  <2>4. \A p, q \in P : p < q \/ p = q \/ q < p
    OBVIOUS
  <2>5. ~(rank[Nth(P, n)] < rank[Nth(P, m)])
    BY <2>2, <1>8
  <2> QED
    BY <1>3, <2>1, <2>3, <2>4, <2>5
<1> HIDE DEF rank
<1> QED
  BY <1>1, <1>2, <1>6, <1>7, <1>8

(* A subsequence holds exactly the elements at the chosen positions.       *)
LEMMA AtPositionsProperties ==
  ASSUME NEW S, NEW s \in Seq(S), NEW P \in SUBSET DOMAIN s
  PROVE  /\ AtPositions(s, P) \in Seq(S)
         /\ Len(AtPositions(s, P)) = Cardinality(P)
         /\ Cardinality(P) \in Nat
         /\ Range(AtPositions(s, P)) = {s[p] : p \in P}
         /\ \A n \in 1..Cardinality(P) : /\ AtPositions(s, P)[n] = s[Nth(P, n)]
                                         /\ Nth(P, n) \in P
<1> DEFINE t == AtPositions(s, P)
<1>1. Len(s) \in Nat /\ DOMAIN s = 1..Len(s) /\ \A i \in DOMAIN s : s[i] \in S
  BY LenProperties, ElementOfSeq
<1>2. /\ Cardinality(P) \in Nat
      /\ \A n \in 1..Cardinality(P) : Nth(P, n) \in P
      /\ \A p \in P : \E n \in 1..Cardinality(P) : Nth(P, n) = p
  BY <1>1, NthProperties
<1>3. t \in [1..Cardinality(P) -> S]
  BY <1>1, <1>2 DEF AtPositions
<1>4. t \in Seq(S) /\ Len(t) = Cardinality(P)
  BY <1>2, <1>3, SeqDef, LenProperties
<1>5. \A n \in 1..Cardinality(P) : t[n] = s[Nth(P, n)]
  BY DEF AtPositions
<1>6. DOMAIN t = 1..Cardinality(P)
  BY DEF AtPositions
<1> HIDE DEF t
<1>7. Range(t) = {s[p] : p \in P}
  BY <1>2, <1>5, <1>6 DEF Range
<1> QED
  BY <1>2, <1>4, <1>5, <1>7 DEF t

(* A non-empty set of positions has a least and a greatest element.        *)
LEMMA ExtremePositions ==
  ASSUME NEW k \in Nat, NEW P \in SUBSET (1..k), P # {}
  PROVE  /\ \E i \in P : \A j \in P : i <= j
         /\ \E i \in P : \A j \in P : j <= i
<1> DEFINE c == Cardinality(P)
<1>1. /\ c \in Nat
      /\ \A n \in 1..c : Nth(P, n) \in P
      /\ \A m, n \in 1..c : m < n => Nth(P, m) < Nth(P, n)
      /\ \A p \in P : \E n \in 1..c : Nth(P, n) = p
  BY NthProperties
<1> HIDE DEF c
<1>2. 1 \in 1..c /\ c \in 1..c
  <2>1. PICK p \in P : TRUE
    OBVIOUS
  <2>2. PICK n \in 1..c : Nth(P, n) = p
    BY <1>1
  <2> QED
    BY <1>1, <2>2
<1>3. \A n \in 1..c : Nth(P, n) \in Int
  <2>1. \A p \in P : p \in Int
    OBVIOUS
  <2> QED
    BY <1>1, <2>1
<1>4. ASSUME NEW j \in P
      PROVE  Nth(P, 1) <= j /\ j <= Nth(P, c)
  <2>1. PICK n \in 1..c : Nth(P, n) = j
    BY <1>1
  <2>2. Nth(P, 1) <= Nth(P, n)
    <3>1. n = 1 \/ 1 < n
      BY <1>1
    <3>2. n = 1 \/ Nth(P, 1) < Nth(P, n)
      BY <1>1, <1>2, <3>1
    <3> QED
      BY <1>2, <1>3, <3>2
  <2>3. Nth(P, n) <= Nth(P, c)
    <3>1. n = c \/ n < c
      BY <1>1
    <3>2. n = c \/ Nth(P, n) < Nth(P, c)
      BY <1>1, <1>2, <3>1
    <3> QED
      BY <1>2, <1>3, <3>2
  <2> QED
    BY <2>1, <2>2, <2>3
<1> QED
  BY <1>1, <1>2, <1>4

(* An acknowledgement removes the events it names and no other, and never  *)
(* lengthens the queue nor repeats an event in it.                         *)
LEMMA WithoutProperties ==
  ASSUME NEW S, NEW q \in Seq(S), NEW ids
  PROVE  /\ Without(q, ids) \in Seq(S)
         /\ Range(Without(q, ids)) = Range(q) \ ids
         /\ Len(Without(q, ids)) <= Len(q)
         /\ NoDuplicates(q) => NoDuplicates(Without(q, ids))
<1> DEFINE P == {i \in DOMAIN q : q[i] \notin ids}
           t == Without(q, ids)
<1>1. Len(q) \in Nat /\ DOMAIN q = 1..Len(q)
  BY LenProperties
<1>2. P \in SUBSET DOMAIN q
  OBVIOUS
<1>3. /\ t \in Seq(S)
      /\ Len(t) = Cardinality(P)
      /\ Range(t) = {q[p] : p \in P}
      /\ \A n \in 1..Cardinality(P) : t[n] = q[Nth(P, n)] /\ Nth(P, n) \in P
  BY <1>2, AtPositionsProperties DEF Without
<1>4. Range(t) = Range(q) \ ids
  BY <1>3 DEF Range
<1>5. /\ Cardinality(P) <= Len(q)
      /\ \A m, n \in 1..Cardinality(P) : m < n => Nth(P, m) < Nth(P, n)
      /\ Cardinality(P) \in Nat
  BY <1>1, <1>2, NthProperties
<1>6. ASSUME NoDuplicates(q)
      PROVE  NoDuplicates(t)
  <2>1. DOMAIN t = 1..Cardinality(P)
    BY <1>3, LenProperties
  <2>2. SUFFICES ASSUME NEW m \in 1..Cardinality(P), NEW n \in 1..Cardinality(P), t[m] = t[n]
                 PROVE  m = n
    BY <2>1 DEF NoDuplicates
  <2> HIDE DEF P, t
  <2>3. Nth(P, m) = Nth(P, n)
    BY <1>2, <1>3, <1>6, <2>2 DEF NoDuplicates
  <2>4. Nth(P, m) \in Int /\ m \in Int /\ n \in Int
    BY <1>1, <1>2, <1>3
  <2> QED
    BY <1>5, <2>3, <2>4
<1> QED
  BY <1>3, <1>4, <1>5, <1>6

(* Pushing adds the events that are not queued yet, each once.             *)
LEMMA PushProperties ==
  ASSUME NEW S, NEW q \in Seq(S), NEW events \in Seq(S)
  PROVE  /\ Push(q, events) \in Seq(S)
         /\ Range(Push(q, events)) = Range(q) \cup Range(events)
         /\ NoDuplicates(q) => NoDuplicates(Push(q, events))
<1> DEFINE s == q \o events
           P == {i \in DOMAIN s : \/ i <= Len(q)
                                  \/ \A j \in 1..(i-1) : s[j] # s[i]}
           t == Push(q, events)
<1>1. s \in Seq(S) /\ Range(s) = Range(q) \cup Range(events)
  BY ConcatProperties, RangeConcatenation
<1>2. Len(s) \in Nat /\ DOMAIN s = 1..Len(s) /\ Len(q) \in Nat /\ DOMAIN q = 1..Len(q)
  BY <1>1, LenProperties
<1>3. \A i \in 1..Len(q) : i \in DOMAIN s /\ s[i] = q[i]
  BY ConcatProperties, LenProperties
<1> HIDE DEF s
<1>4. P \in SUBSET DOMAIN s
  OBVIOUS
<1>5. /\ t \in Seq(S)
      /\ Len(t) = Cardinality(P)
      /\ Range(t) = {s[p] : p \in P}
      /\ \A n \in 1..Cardinality(P) : t[n] = s[Nth(P, n)] /\ Nth(P, n) \in P
  <2>1. t = AtPositions(s, P)
    BY DEF Push, s
  <2> HIDE DEF t, P
  <2> QED
    BY <1>1, <1>4, <2>1, AtPositionsProperties
<1>6. ASSUME NEW i \in DOMAIN s
      PROVE  \E p \in P : s[p] = s[i]
  <2> DEFINE Q == {j \in DOMAIN s : s[j] = s[i]}
  <2>1. Q \in SUBSET (1..Len(s)) /\ Q # {}
    BY <1>2
  <2>2. PICK p \in Q : \A j \in Q : p <= j
    BY <1>2, <2>1, ExtremePositions
  <2>3. ASSUME NEW j \in 1..(p-1)
        PROVE  s[j] # s[p]
    <3>1. j \in DOMAIN s /\ ~(p <= j)
      BY <1>2, <2>1
    <3> QED
      BY <2>2, <3>1
  <2> QED
    BY <2>2, <2>3
<1>7. Range(t) = Range(s)
  <2>1. Range(s) = {s[i] : i \in DOMAIN s}
    BY DEF Range
  <2>2. {s[p] : p \in P} = {s[i] : i \in DOMAIN s}
    BY <1>4, <1>6
  <2> HIDE DEF t, P
  <2> QED
    BY <1>5, <2>1, <2>2
<1>8. ASSUME NoDuplicates(q)
      PROVE  NoDuplicates(t)
  <2>1. \A i, j \in P : i < j => s[i] # s[j]
    <3> SUFFICES ASSUME NEW i \in P, NEW j \in P, i < j
                 PROVE  s[i] # s[j]
      OBVIOUS
    <3>1. i \in Nat /\ j \in Nat /\ 1 <= i
      BY <1>2
    <3>2. CASE j <= Len(q)
      <4>1. i \in 1..Len(q) /\ j \in 1..Len(q) /\ i # j
        BY <1>2, <3>1, <3>2
      <4> QED
        BY <1>2, <1>3, <1>8, <4>1 DEF NoDuplicates
    <3>3. CASE \A k \in 1..(j-1) : s[k] # s[j]
      BY <3>1, <3>3
    <3> QED
      BY <3>2, <3>3
  <2>2. DOMAIN t = 1..Cardinality(P) /\ Cardinality(P) \in Nat
    BY <1>2, <1>4, <1>5, LenProperties, NthProperties
  <2>3. \A m, n \in 1..Cardinality(P) : m < n => Nth(P, m) < Nth(P, n)
    BY <1>2, <1>4, NthProperties
  <2>4. SUFFICES ASSUME NEW m \in 1..Cardinality(P), NEW n \in 1..Cardinality(P), t[m] = t[n]
                 PROVE  m = n
    BY <2>2 DEF NoDuplicates
  <2> HIDE DEF P, t
  <2>5. m < n \/ m = n \/ n < m
    BY <2>2
  <2> QED
    BY <1>5, <2>1, <2>3, <2>4, <2>5
<1> QED
  BY <1>1, <1>5, <1>7, <1>8

(* Appending never exceeds the bound, never repeats an event, and drops    *)
(* something only by filling the queue to its bound.                       *)
LEMMA AppendedProperties ==
  ASSUME NEW S, NEW q \in Seq(S), NEW events \in Seq(S)
  PROVE  /\ Appended(q, events) \in Seq(S)
         /\ Len(Appended(q, events)) \in 0..OutboxCap
         /\ Range(Appended(q, events)) \subseteq Range(q) \cup Range(events)
         /\ \/ Range(Appended(q, events)) = Range(q) \cup Range(events)
            \/ Len(Appended(q, events)) = OutboxCap
         /\ NoDuplicates(q) => NoDuplicates(Appended(q, events))
<1> DEFINE p == Push(q, events)
           t == SubSeq(p, Len(p) - OutboxCap + 1, Len(p))
<1>1. /\ p \in Seq(S)
      /\ Range(p) = Range(q) \cup Range(events)
      /\ NoDuplicates(q) => NoDuplicates(p)
  BY PushProperties
<1>2. Appended(q, events) = IF Len(p) > OutboxCap THEN t ELSE p
  BY DEF Appended, Newest
<1> HIDE DEF p
<1>3. Len(p) \in Nat /\ DOMAIN p = 1..Len(p) /\ OutboxCap \in Nat /\ OutboxCap > 0
  BY <1>1, LenProperties, OutboxCapAssumption
<1>4. CASE Len(p) <= OutboxCap
  <2>1. ~(Len(p) > OutboxCap) /\ Len(p) \in 0..OutboxCap
    BY <1>3, <1>4
  <2>2. Appended(q, events) = p
    BY <1>2, <2>1
  <2> QED
    BY <1>1, <2>1, <2>2
<1>5. CASE Len(p) > OutboxCap
  <2> DEFINE d == Len(p) - OutboxCap
  <2>1. d \in Nat /\ d + OutboxCap = Len(p)
    BY <1>3, <1>5
  <2>2. \A i \in (d + 1)..Len(p) : i \in DOMAIN p /\ p[i] \in S
    BY <1>1, <1>3, <2>1, ElementOfSeq
  <2>3. /\ t \in Seq(S)
        /\ Len(t) = OutboxCap
        /\ \A i \in 1..OutboxCap : t[i] = p[d + i]
    <3>1. d + 1 \in Int /\ Len(p) \in Int /\ d + 1 <= Len(p) /\ Len(p) - (d + 1) + 1 = OutboxCap
      BY <1>3, <2>1
    <3> HIDE DEF d
    <3>2. t = SubSeq(p, d + 1, Len(p))
      BY DEF d
    <3> HIDE DEF t
    <3>3. \A i \in 1..OutboxCap : (d + 1) + i - 1 = d + i
      BY <2>1
    <3>4. /\ t \in Seq(S)
          /\ Len(t) = Len(p) - (d + 1) + 1
          /\ \A i \in 1..(Len(p) - (d + 1) + 1) : t[i] = p[(d + 1) + i - 1]
      BY <2>2, <3>1, <3>2, SubSeqProperties
    <3> QED
      BY <3>1, <3>3, <3>4
  <2>4. DOMAIN t = 1..OutboxCap
    BY <2>3, LenProperties
  <2> HIDE DEF t, d
  <2>5. \A i \in 1..OutboxCap : d + i \in DOMAIN p
    BY <1>3, <2>1
  <2>6. Range(t) \subseteq Range(p)
    BY <2>3, <2>4, <2>5 DEF Range
  <2>7. NoDuplicates(p) => NoDuplicates(t)
    <3> SUFFICES ASSUME NoDuplicates(p), NEW i \in 1..OutboxCap, NEW j \in 1..OutboxCap, t[i] = t[j]
                 PROVE  i = j
      BY <2>4 DEF NoDuplicates
    <3>1. d + i = d + j
      BY <2>3, <2>5 DEF NoDuplicates
    <3> QED
      BY <2>1, <3>1
  <2>8. Appended(q, events) = t
    BY <1>2, <1>5
  <2>9. OutboxCap \in 0..OutboxCap
    BY <1>3
  <2> QED
    BY <1>1, <2>3, <2>6, <2>7, <2>8, <2>9
<1> QED
  BY <1>3, <1>4, <1>5

(* A page is a sequence of queued events.                                  *)
LEMMA EventPageProperties ==
  ASSUME NEW S, NEW q \in Seq(S), NEW start \in Nat \ {0}, NEW limit \in Nat
  PROVE  /\ EventPage(q, start, limit) \in Seq(S)
         /\ Range(EventPage(q, start, limit)) \subseteq Range(q)
         /\ Len(EventPage(q, start, limit)) <= limit
<1> DEFINE last == IF start + limit - 1 < Len(q) THEN start + limit - 1 ELSE Len(q)
           t == SubSeq(q, start, last)
<1>1. Len(q) \in Nat /\ DOMAIN q = 1..Len(q)
  BY LenProperties
<1>2. last \in Int /\ last <= Len(q) /\ last <= start + limit - 1
  BY <1>1
<1> HIDE DEF last
<1>3. \A i \in start..last : i \in DOMAIN q /\ q[i] \in S
  BY <1>1, <1>2, ElementOfSeq
<1> DEFINE n == last - start + 1
<1>4. /\ t \in Seq(S)
      /\ Len(t) = IF start <= last THEN n ELSE 0
      /\ \A i \in 1..n : t[i] = q[start + i - 1]
  BY <1>2, <1>3, SubSeqProperties
<1>5. EventPage(q, start, limit) = t
  BY DEF EventPage, last
<1>6. DOMAIN t = 1..Len(t)
  BY <1>4, LenProperties
<1> HIDE DEF t
<1>7. ASSUME NEW i \in DOMAIN t
      PROVE  t[i] \in Range(q)
  <2>1. i \in 1..n /\ start + i - 1 \in start..last
    BY <1>2, <1>4, <1>6
  <2>2. t[i] = q[start + i - 1] /\ start + i - 1 \in DOMAIN q
    BY <1>3, <1>4, <2>1
  <2> QED
    BY <2>2 DEF Range
<1>8. Range(t) \subseteq Range(q)
  BY <1>7 DEF Range
<1>9. Len(t) <= limit
  BY <1>2, <1>4
<1> QED
  BY <1>4, <1>5, <1>8, <1>9

(* A queue without repetitions has as many events as positions.            *)
LEMMA QueueCardinality ==
  ASSUME NEW S, NEW q \in Seq(S), NoDuplicates(q)
  PROVE  IsFiniteSet(Range(q)) /\ Cardinality(Range(q)) = Len(q)
<1>1. Len(q) \in Nat /\ DOMAIN q = 1..Len(q) /\ q \in [1..Len(q) -> S]
  BY LenProperties
<1>2. q \in [1..Len(q) -> Range(q)]
  BY <1>1 DEF Range
<1>3. q \in Bijection(1..Len(q), Range(q))
  BY <1>1, <1>2 DEF Bijection, Injection, IsInjective, Surjection, NoDuplicates, Range
<1>4. ExistsBijection(1..Len(q), Range(q))
  BY <1>3 DEF ExistsBijection
<1>5. IsFiniteSet(1..Len(q)) /\ Cardinality(1..Len(q)) = Len(q)
  BY <1>1, FS_Interval
<1> QED
  BY <1>4, <1>5, FS_Bijection
-----------------------------------------------------------------------------
(* An increasing enumeration of a set of positions is the one that Nth is. *)
LEMMA NthIs ==
  ASSUME NEW k \in Nat, NEW P \in SUBSET (1..k), NEW c \in Nat, NEW f \in [1..c -> P],
         \A m, n \in 1..c : m < n => f[m] < f[n],
         \A p \in P : \E n \in 1..c : f[n] = p
  PROVE  Cardinality(P) = c /\ \A n \in 1..c : Nth(P, n) = f[n]
<1>0. \A m \in 1..c : f[m] \in P /\ f[m] \in Int
  <2>1. \A m \in 1..c : f[m] \in P
    OBVIOUS
  <2>2. \A p \in P : p \in Int
    OBVIOUS
  <2> QED
    BY <2>1, <2>2
<1>1. \A m, n \in 1..c : f[m] = f[n] => m = n
  <2>1. \A m, n \in 1..c : m < n \/ m = n \/ n < m
    OBVIOUS
  <2> QED
    BY <1>0, <2>1
<1>2. \A m, n \in 1..c : f[m] <= f[n] <=> m <= n
  <2>1. \A m, n \in 1..c : m < n \/ m = n \/ n < m
    OBVIOUS
  <2> QED
    BY <1>0, <1>1, <2>1
<1>3. ASSUME NEW n \in 0..c, NEW Q, Q = {f[m] : m \in 1..n}
      PROVE  Cardinality(Q) = n
  <2> DEFINE g == [m \in 1..n |-> f[m]]
  <2>1. 1..n \subseteq 1..c
    OBVIOUS
  <2>2. g \in Bijection(1..n, Q)
    BY <1>1, <1>3, <2>1 DEF Bijection, Injection, IsInjective, Surjection
  <2>3. ExistsBijection(1..n, Q)
    BY <2>2 DEF ExistsBijection
  <2>4. IsFiniteSet(1..n) /\ Cardinality(1..n) = n
    BY FS_Interval
  <2> QED
    BY <2>3, <2>4, FS_Bijection
<1>4. Cardinality(P) = c
  <2>1. P = {f[m] : m \in 1..c}
    OBVIOUS
  <2>2. c \in 0..c
    OBVIOUS
  <2> QED
    BY <1>3, <2>1, <2>2
<1>5. ASSUME NEW n \in 1..c
      PROVE  Cardinality({r \in P : r <= f[n]}) = n
  <2>1. \A r \in P : r <= f[n] <=> \E m \in 1..n : f[m] = r
    <3>1. ASSUME NEW r \in P, r <= f[n] PROVE \E m \in 1..n : f[m] = r
      <4>1. PICK m \in 1..c : f[m] = r
        OBVIOUS
      <4>2. m <= n
        BY <1>2, <3>1, <4>1
      <4> QED
        BY <4>1, <4>2
    <3>2. ASSUME NEW m \in 1..n PROVE f[m] <= f[n]
      BY <1>2
    <3> QED
      BY <3>1, <3>2
  <2>3. \A m \in 1..n : f[m] \in P
    BY <1>0
  <2>4. {r \in P : r <= f[n]} = {f[m] : m \in 1..n}
    BY <2>1, <2>3
  <2>2. n \in 0..c
    OBVIOUS
  <2> QED
    BY <1>3, <2>2, <2>4
<1>6. ASSUME NEW n \in 1..c
      PROVE  Nth(P, n) = f[n]
  <2>1. f[n] \in P
    OBVIOUS
  <2>2. \A p \in P : Cardinality({r \in P : r <= p}) = n => p = f[n]
    BY <1>5
  <2> QED
    BY <1>5, <2>1, <2>2 DEF Nth
<1> QED
  BY <1>4, <1>6
=============================================================================
