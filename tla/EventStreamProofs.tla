------------------------- MODULE EventStreamProofs -------------------------
(***************************************************************************)
(* Theorems about EventStream, for every set of events, every window,      *)
(* every bound of the outbox and of the connection, and any number of      *)
(* streams and failures.                                                   *)
(***************************************************************************)
EXTENDS EventStream, RuntimeOutboxProofs

PagePositions(fs) == {i \in DOMAIN fs : fs[i].kind = "page"}

LEMMA PagesInProperties ==
  ASSUME NEW S, NEW fs \in Seq(S)
  PROVE  /\ Cardinality(PagePositions(fs)) \in Nat
         /\ DOMAIN PagesIn(fs) = 1..Cardinality(PagePositions(fs))
         /\ \A n \in 1..Cardinality(PagePositions(fs)) :
              /\ Nth(PagePositions(fs), n) \in PagePositions(fs)
              /\ PagesIn(fs)[n] = fs[Nth(PagePositions(fs), n)].events
<1>1. Len(fs) \in Nat /\ DOMAIN fs = 1..Len(fs)
  BY LenProperties
<1>2. PagePositions(fs) \in SUBSET (1..Len(fs))
  BY <1>1 DEF PagePositions
<1> QED
  BY <1>1, <1>2, NthProperties DEF PagesIn, PagePositions

LEMMA PagesInType ==
  ASSUME NEW fs \in Seq(Frames)
  PROVE  PagesIn(fs) \in Seq(Seq(Events))
<1>1. Len(fs) \in Nat /\ DOMAIN fs = 1..Len(fs) /\ \A i \in 1..Len(fs) : fs[i] \in Frames
  BY LenProperties, ElementOfSeq
<1>2. \A i \in PagePositions(fs) : fs[i].events \in Seq(Events)
  BY <1>1 DEF PagePositions, Frames, PageFrame, OtherFrame
<1>3. PagesIn(fs) \in [1..Cardinality(PagePositions(fs)) -> Seq(Events)]
  BY <1>2, PagesInProperties DEF PagesIn, PagePositions
<1> QED
  BY <1>3, PagesInProperties, SeqDef

(* The pages of two sequences of frames, one after the other.              *)
LEMMA PagesInConcat ==
  ASSUME NEW a \in Seq(Frames), NEW b \in Seq(Frames)
  PROVE  PagesIn(a \o b) = PagesIn(a) \o PagesIn(b)
<1> DEFINE PA == PagePositions(a)
           PB == PagePositions(b)
           P  == PagePositions(a \o b)
           ca == Cardinality(PA)
           cb == Cardinality(PB)
           f  == [n \in 1..(ca + cb) |-> IF n <= ca THEN Nth(PA, n) ELSE Len(a) + Nth(PB, n - ca)]
<1>1. /\ Len(a) \in Nat /\ DOMAIN a = 1..Len(a)
      /\ Len(b) \in Nat /\ DOMAIN b = 1..Len(b)
      /\ a \o b \in Seq(Frames) /\ Len(a \o b) = Len(a) + Len(b)
      /\ DOMAIN (a \o b) = 1..(Len(a) + Len(b))
      /\ \A i \in 1..(Len(a) + Len(b)) : (a \o b)[i] = IF i <= Len(a) THEN a[i] ELSE b[i - Len(a)]
  BY LenProperties, ConcatProperties
<1>2. PA \in SUBSET (1..Len(a)) /\ PB \in SUBSET (1..Len(b)) /\ P \in SUBSET (1..(Len(a) + Len(b)))
  BY <1>1 DEF PagePositions
<1>3. /\ ca \in Nat
      /\ \A n \in 1..ca : Nth(PA, n) \in PA
      /\ \A m, n \in 1..ca : m < n => Nth(PA, m) < Nth(PA, n)
      /\ \A p \in PA : \E n \in 1..ca : Nth(PA, n) = p
  BY <1>1, <1>2, NthProperties
<1>4. /\ cb \in Nat
      /\ \A n \in 1..cb : Nth(PB, n) \in PB
      /\ \A m, n \in 1..cb : m < n => Nth(PB, m) < Nth(PB, n)
      /\ \A p \in PB : \E n \in 1..cb : Nth(PB, n) = p
  BY <1>1, <1>2, NthProperties
<1>5. \A i \in 1..(Len(a) + Len(b)) :
        i \in P <=> IF i <= Len(a) THEN i \in PA ELSE i - Len(a) \in PB
  BY <1>1 DEF PagePositions
<1> HIDE DEF PA, PB, P, ca, cb
<1>6. \A n \in 1..(ca + cb) : n <= ca => n \in 1..ca
  BY <1>3
<1>7. \A n \in 1..(ca + cb) : ~(n <= ca) => n - ca \in 1..cb
  BY <1>3, <1>4
<1>8. ASSUME NEW n \in 1..(ca + cb)
      PROVE  f[n] \in P
  <2>1. CASE n <= ca
    <3>1. f[n] = Nth(PA, n) /\ Nth(PA, n) \in PA
      BY <1>3, <1>6, <2>1
    <3>2. \A i \in PA : i \in 1..(Len(a) + Len(b)) /\ i <= Len(a)
      BY <1>1, <1>2
    <3> HIDE DEF f
    <3> QED
      BY <1>5, <3>1, <3>2
  <2>2. CASE ~(n <= ca)
    <3>1. f[n] = Len(a) + Nth(PB, n - ca) /\ Nth(PB, n - ca) \in PB
      BY <1>4, <1>7, <2>2
    <3>2. \A i \in PB : /\ Len(a) + i \in 1..(Len(a) + Len(b)) /\ ~(Len(a) + i <= Len(a))
                         /\ (Len(a) + i) - Len(a) = i
      BY <1>1, <1>2
    <3> HIDE DEF f
    <3> QED
      BY <1>5, <3>1, <3>2
  <2> QED
    BY <2>1, <2>2
<1>9. f \in [1..(ca + cb) -> P]
  BY <1>8
<1>10. ASSUME NEW m \in 1..(ca + cb), NEW n \in 1..(ca + cb), m < n
       PROVE  f[m] < f[n]
  <2>1. CASE n <= ca
    <3>1. m \in 1..ca /\ n \in 1..ca
      BY <1>3, <1>10, <2>1
    <3> QED
      BY <1>3, <1>10, <3>1
  <2>2. CASE ~(m <= ca)
    <3>1. m - ca \in 1..cb /\ n - ca \in 1..cb /\ m - ca < n - ca /\ ~(n <= ca)
      BY <1>3, <1>4, <1>10, <2>2
    <3>2. Nth(PB, m - ca) < Nth(PB, n - ca) /\ Nth(PB, m - ca) \in PB /\ Nth(PB, n - ca) \in PB
      BY <1>4, <3>1
    <3>4. \A i \in PB : i \in Int
      BY <1>2
    <3>3. f[m] = Len(a) + Nth(PB, m - ca) /\ f[n] = Len(a) + Nth(PB, n - ca)
      BY <2>2, <3>1
    <3> QED
      BY <1>1, <3>2, <3>3, <3>4
  <2>3. CASE m <= ca /\ ~(n <= ca)
    <3>1. m \in 1..ca /\ n - ca \in 1..cb
      BY <1>6, <1>7, <2>3
    <3>2. Nth(PA, m) \in 1..Len(a) /\ Nth(PB, n - ca) \in 1..Len(b)
      BY <1>2, <1>3, <1>4, <3>1
    <3>3. f[m] = Nth(PA, m) /\ f[n] = Len(a) + Nth(PB, n - ca)
      BY <2>3
    <3> QED
      BY <1>1, <3>2, <3>3
  <2> QED
    BY <1>3, <1>4, <1>10, <2>1, <2>2, <2>3
<1>11. ASSUME NEW p \in P
       PROVE  \E n \in 1..(ca + cb) : f[n] = p
  <2>1. CASE p <= Len(a)
    <3>1. p \in PA
      BY <1>2, <1>5, <2>1
    <3>2. PICK n \in 1..ca : Nth(PA, n) = p
      BY <1>3, <3>1
    <3>3. n \in 1..(ca + cb) /\ n <= ca
      BY <1>3, <1>4
    <3> QED
      BY <3>2, <3>3
  <2>2. CASE ~(p <= Len(a))
    <3>1. p - Len(a) \in PB /\ p \in Int
      BY <1>2, <1>5, <2>2
    <3>2. PICK n \in 1..cb : Nth(PB, n) = p - Len(a)
      BY <1>4, <3>1
    <3>3. n + ca \in 1..(ca + cb) /\ ~(n + ca <= ca) /\ (n + ca) - ca = n
      BY <1>3, <1>4
    <3>4. f[n + ca] = Len(a) + Nth(PB, n)
      BY <3>3
    <3> QED
      BY <1>1, <3>1, <3>2, <3>3, <3>4
  <2> QED
    BY <2>1, <2>2
<1> HIDE DEF f
<1>12. Cardinality(P) = ca + cb /\ \A n \in 1..(ca + cb) : Nth(P, n) = f[n]
  <2>1. Len(a) + Len(b) \in Nat /\ ca + cb \in Nat
    BY <1>1, <1>3, <1>4
  <2> QED
    BY <1>2, <1>9, <1>10, <1>11, <2>1, NthIs
<1>13. PagesIn(a \o b) \in Seq(Seq(Events)) /\ PagesIn(a) \in Seq(Seq(Events))
       /\ PagesIn(b) \in Seq(Seq(Events))
  BY <1>1, PagesInType
<1>14. DOMAIN PagesIn(a \o b) = 1..(ca + cb) /\ DOMAIN PagesIn(a) = 1..ca /\ DOMAIN PagesIn(b) = 1..cb
  BY <1>1, <1>12, PagesInProperties DEF P, PA, PB, ca, cb
<1>15. Len(PagesIn(a \o b)) = ca + cb /\ Len(PagesIn(a)) = ca /\ Len(PagesIn(b)) = cb
  BY <1>3, <1>4, <1>13, <1>14, LenProperties
<1>16. ASSUME NEW n \in 1..(ca + cb)
       PROVE  PagesIn(a \o b)[n] = (PagesIn(a) \o PagesIn(b))[n]
  <2>0. PagesIn(a \o b)[n] = (a \o b)[Nth(P, n)].events
    BY <1>1, <1>12, PagesInProperties DEF P
  <2>1. PagesIn(a \o b)[n] = (a \o b)[f[n]].events /\ f[n] \in 1..(Len(a) + Len(b))
    BY <1>2, <1>9, <1>12, <2>0
  <2>2. (PagesIn(a) \o PagesIn(b))[n] = IF n <= ca THEN PagesIn(a)[n] ELSE PagesIn(b)[n - ca]
    BY <1>13, <1>15, ConcatProperties
  <2>3. CASE n <= ca
    <3>1. f[n] = Nth(PA, n) /\ f[n] \in 1..Len(a)
      BY <1>2, <1>3, <1>6, <2>3 DEF f
    <3>2. PagesIn(a)[n] = a[Nth(PA, n)].events
      BY <1>6, <2>3, PagesInProperties DEF PA, ca
    <3> QED
      BY <1>1, <2>1, <2>2, <2>3, <3>1, <3>2
  <2>4. CASE ~(n <= ca)
    <3>1. f[n] = Len(a) + Nth(PB, n - ca) /\ Nth(PB, n - ca) \in 1..Len(b)
      BY <1>2, <1>4, <1>7, <2>4 DEF f
    <3>2. PagesIn(b)[n - ca] = b[Nth(PB, n - ca)].events
      BY <1>7, <2>4, PagesInProperties DEF PB, cb
    <3>3. ~(f[n] <= Len(a)) /\ f[n] - Len(a) = Nth(PB, n - ca)
      BY <1>1, <3>1
    <3> QED
      BY <1>1, <2>1, <2>2, <2>4, <3>1, <3>2, <3>3
  <2> QED
    BY <2>3, <2>4
<1>17. PagesIn(a) \o PagesIn(b) \in Seq(Seq(Events)) /\ Len(PagesIn(a) \o PagesIn(b)) = ca + cb
  BY <1>13, <1>15, ConcatProperties
<1> QED
  BY <1>13, <1>15, <1>16, <1>17, SeqEqual

LEMMA PagesInEmpty == PagesIn(<< >>) = << >>
<1>1. PagePositions(<< >>) = {}
  BY DEF PagePositions
<1>2. Cardinality(PagePositions(<< >>)) = 0
  BY <1>1, FS_EmptySet
<1>3. << >> \in Seq(Frames)
  BY EmptySeq
<1>4. PagesIn(<< >>) \in Seq(Seq(Events)) /\ DOMAIN PagesIn(<< >>) = 1..0
  BY <1>2, <1>3, PagesInType, PagesInProperties
<1>5. Len(PagesIn(<< >>)) = 0
  BY <1>4, LenProperties
<1> QED
  BY <1>4, <1>5, EmptySeq

(* The page of a frame, as a sequence.                                     *)
PageOf(f) == IF f.kind = "page" THEN <<f.events>> ELSE << >>

LEMMA PagesInOne ==
  ASSUME NEW f \in Frames
  PROVE  PagesIn(<<f>>) = PageOf(f)
<1>1. <<f>> \in Seq(Frames) /\ DOMAIN <<f>> = {1} /\ <<f>>[1] = f
  OBVIOUS
<1>2. PagesIn(<<f>>) \in Seq(Seq(Events))
  BY <1>1, PagesInType
<1>3. CASE f.kind = "page"
  <2>1. PagePositions(<<f>>) = {1}
    BY <1>1, <1>3 DEF PagePositions
  <2>2. Cardinality(PagePositions(<<f>>)) = 1
    BY <2>1, FS_Singleton
  <2>3. DOMAIN PagesIn(<<f>>) = 1..1 /\ PagesIn(<<f>>)[1] = f.events
    <3>1. 1 \in 1..Cardinality(PagePositions(<<f>>))
      BY <2>2
    <3>2. Nth(PagePositions(<<f>>), 1) = 1
      BY <1>1, <2>1, <3>1, PagesInProperties
    <3>3. DOMAIN PagesIn(<<f>>) = 1..1
      BY <1>1, <2>2, PagesInProperties
    <3>4. PagesIn(<<f>>)[1] = <<f>>[Nth(PagePositions(<<f>>), 1)].events
      BY <1>1, <3>1, PagesInProperties
    <3> QED
      BY <3>2, <3>3, <3>4
  <2>4. Len(PagesIn(<<f>>)) = 1
    BY <1>2, <2>3, LenProperties
  <2>5. <<f.events>> \in Seq(Seq(Events)) /\ Len(<<f.events>>) = 1 /\ <<f.events>>[1] = f.events
    BY <1>3 DEF Frames, PageFrame, OtherFrame
  <2>6. PagesIn(<<f>>) = <<f.events>>
    BY <1>2, <2>3, <2>4, <2>5, SeqEqual
  <2> QED
    BY <1>3, <2>6 DEF PageOf
<1>4. CASE f.kind # "page"
  <2>1. PagePositions(<<f>>) = {}
    BY <1>1, <1>4 DEF PagePositions
  <2>2. Cardinality(PagePositions(<<f>>)) = 0
    BY <2>1, FS_EmptySet
  <2>3. DOMAIN PagesIn(<<f>>) = 1..0
    BY <1>1, <2>2, PagesInProperties
  <2>4. Len(PagesIn(<<f>>)) = 0
    BY <1>2, <2>3, LenProperties
  <2> QED
    BY <1>2, <1>4, <2>4, EmptySeq DEF PageOf
<1> QED
  BY <1>3, <1>4
-----------------------------------------------------------------------------
(* What a page of the outbox is.                                           *)
LEMMA StartAfterType ==
  ASSUME NEW S, NEW q \in Seq(S), NEW c
  PROVE  StartAfter(q, c) \in Nat \ {0}
<1>1. Len(q) \in Nat /\ DOMAIN q = 1..Len(q)
  BY LenProperties
<1>2. CASE \E i \in DOMAIN q : q[i] = c
  <2> DEFINE P == {i \in DOMAIN q : q[i] = c}
             pos == CHOOSE n \in DOMAIN q : q[n] = c /\ \A j \in 1..(n-1) : q[j] # c
  <2>1. PICK i \in P : \A j \in P : i <= j
    <3>1. P \in SUBSET (1..Len(q)) /\ P # {}
      BY <1>1, <1>2
    <3> HIDE DEF P
    <3> QED
      BY <1>1, <3>1, ExtremePositions
  <2>2. \A j \in 1..(i-1) : q[j] # c
    BY <1>1, <2>1
  <2>3. \E n \in DOMAIN q : q[n] = c /\ \A j \in 1..(n-1) : q[j] # c
    BY <2>1, <2>2
  <2>4. pos \in DOMAIN q
    BY <2>3
  <2>5. StartAfter(q, c) = 1 + pos
    BY <1>2 DEF StartAfter
  <2> HIDE DEF pos
  <2> QED
    BY <1>1, <2>4, <2>5
<1>3. CASE ~ \E i \in DOMAIN q : q[i] = c
  BY <1>3 DEF StartAfter
<1> QED
  BY <1>2, <1>3

LEMMA RangeCardinality ==
  ASSUME NEW S, NEW q \in Seq(S)
  PROVE  IsFiniteSet(Range(q)) /\ Cardinality(Range(q)) \in Nat /\ Cardinality(Range(q)) <= Len(q)
<1>1. Len(q) \in Nat /\ DOMAIN q = 1..Len(q) /\ q \in [1..Len(q) -> S]
  BY LenProperties
<1>2. q \in [1..Len(q) -> Range(q)]
  BY <1>1 DEF Range
<1>3. q \in Surjection(1..Len(q), Range(q))
  BY <1>1, <1>2 DEF Surjection, Range
<1>4. IsFiniteSet(1..Len(q)) /\ Cardinality(1..Len(q)) = Len(q)
  BY <1>1, FS_Interval
<1> QED
  BY <1>1, <1>3, <1>4, FS_Surjection, FS_CardinalityType

LEMMA StreamPageProperties ==
  ASSUME outbox \in Seq(Events), NEW limit \in Nat
  PROVE  /\ StreamPage(limit) \in Seq(Events)
         /\ Range(StreamPage(limit)) \subseteq Range(outbox) \ sentIds
         /\ IsFiniteSet(Range(StreamPage(limit)))
         /\ Cardinality(Range(StreamPage(limit))) \in Nat
         /\ Cardinality(Range(StreamPage(limit))) <= limit
<1> DEFINE P == {i \in DOMAIN outbox : i >= StartAfter(outbox, cursor) /\ outbox[i] \notin sentIds}
           t == AtPositions(outbox, P)
           p == EventPage(t, 1, limit)
<1>1. P \in SUBSET DOMAIN outbox
  OBVIOUS
<1>2. t \in Seq(Events) /\ Range(t) = {outbox[i] : i \in P}
  BY <1>1, AtPositionsProperties
<1>3. Range(t) \subseteq Range(outbox) \ sentIds
  BY <1>2 DEF Range
<1> HIDE DEF P
<1>4. StreamPage(limit) = p
  BY DEF StreamPage, P
<1> HIDE DEF t
<1>5. p \in Seq(Events) /\ Range(p) \subseteq Range(t) /\ Len(p) <= limit
  BY <1>2, EventPageProperties
<1>6. IsFiniteSet(Range(p)) /\ Cardinality(Range(p)) \in Nat /\ Cardinality(Range(p)) <= Len(p)
      /\ Len(p) \in Nat
  BY <1>5, RangeCardinality, LenProperties
<1> QED
  BY <1>3, <1>4, <1>5, <1>6
-----------------------------------------------------------------------------
(* Types, with the bounds of the channels and of the phases apart.         *)
PCs == {"off", "reading", "ingesting", "persisted", "acking", "closing"}

Types ==
  /\ outbox \in Seq(Events)
  /\ serving \in BOOLEAN
  /\ cursor \in Events \cup {NoEvent}
  /\ inFlight \in SUBSET Events
  /\ IsFiniteSet(inFlight) /\ Cardinality(inFlight) <= MaxInFlight
  /\ sentIds \in SUBSET Events
  /\ requests \in Seq(Request)
  /\ frames \in Seq(Frames)
  /\ pc \in PCs
  /\ page \in Seq(Events)
  /\ pending \in Seq(Frames)
  /\ aside \in Seq(Frames)
  /\ persisted \in SUBSET Events
  /\ sent \in Seq(Seq(Events))
  /\ handled \in Seq(Seq(Events))
  /\ emitted \in SUBSET Events
  /\ evicted \in SUBSET Events
  /\ streams \in 0..MaxStreams
  /\ faults \in 0..MaxFaults

LEMMA FrameTypes ==
  /\ \A p \in Seq(Events) : Frame("page", p) \in Frames
  /\ \A k \in {"heartbeat", "acked", "closed", "refused"} : Frame(k, << >>) \in Frames
  /\ \A f \in Frames : f.events \in Seq(Events)
  /\ \A f \in Frames : f.kind \in {"page", "heartbeat", "acked", "closed", "refused"}
<1>1. \A p \in Seq(Events) : Frame("page", p) \in Frames
  BY DEF Frame, Frames, PageFrame
<1>2. \A k \in {"heartbeat", "acked", "closed", "refused"} : Frame(k, << >>) \in OtherFrame
  BY DEF Frame, OtherFrame
<1>3. \A f \in PageFrame : f.events \in Seq(Events) /\ f.kind = "page"
  BY DEF PageFrame
<1>4. \A f \in OtherFrame : f.events = << >> /\ f.kind \in {"heartbeat", "acked", "closed", "refused"}
  BY DEF OtherFrame
<1>5. << >> \in Seq(Events)
  BY EmptySeq
<1> QED
  BY <1>1, <1>2, <1>3, <1>4, <1>5 DEF Frames

(* How the two sides talk: a request is answered once and before the next  *)
(* one is made, and only pages and heartbeats are put aside.               *)
OnlyPushed(fs) == \A i \in DOMAIN fs : fs[i].kind \in {"page", "heartbeat"}
NoEmptyPage(fs) == \A i \in DOMAIN fs : fs[i].kind = "page" => fs[i].events # << >>

OneAnswer(fs) ==
  \A i, j \in DOMAIN fs :
    fs[i].kind \notin {"page", "heartbeat"} /\ fs[j].kind \notin {"page", "heartbeat"} => i = j

Protocol ==
  /\ Len(requests) <= 1
  /\ Len(frames) <= FrameBuffer
  /\ page # << >> <=> pc \in {"ingesting", "persisted", "acking"}
  /\ aside # << >> => pc \in {"acking", "closing"}
  /\ OnlyPushed(pending) /\ OnlyPushed(aside)
  /\ NoEmptyPage(frames) /\ NoEmptyPage(pending) /\ NoEmptyPage(aside)
  /\ pc \in {"reading", "ingesting", "persisted"} => requests = << >> /\ OnlyPushed(frames)
  /\ pc \in {"acking", "closing"}
       => /\ requests # << >> => OnlyPushed(frames)
          /\ OneAnswer(frames)
  /\ pc = "acking" /\ requests # << >> => Head(requests).events = page
  /\ pc = "closing" /\ requests # << >> => Head(requests).kind = "close"

LEMMA NextFrameType ==
  ASSUME Types, HasNext
  PROVE  /\ NextFrame \in Frames
         /\ TakeFrame => pending' \in Seq(Frames) /\ frames' \in Seq(Frames)
BY HeadTailProperties DEF Types, HasNext, NextFrame, TakeFrame

(* An answer is never read from what was put aside.                        *)
LEMMA AnswerIsNext ==
  ASSUME Types, Protocol, HasNext, NextFrame.kind \notin {"page", "heartbeat"}
  PROVE  pending = << >> /\ frames # << >> /\ NextFrame = Head(frames)
<1>1. CASE pending # << >>
  <2>1. 1 \in DOMAIN pending /\ Head(pending) = pending[1]
    BY <1>1 DEF Types
  <2> QED
    BY <1>1, <2>1 DEF Protocol, OnlyPushed, NextFrame
<1> QED
  BY <1>1 DEF HasNext, NextFrame

LEMMA QueueType ==
  ASSUME Types, NEW e \in Events, Queue(e)
  PROVE  Types'
<1>1. <<e>> \in Seq(Events)
  OBVIOUS
<1>2. outbox' \in Seq(Events)
  BY <1>1, AppendedProperties DEF Queue, Types
<1>3. Range(outbox) \subseteq Events
  BY RangeOfSeq DEF Types
<1> QED
  BY <1>2, <1>3 DEF Queue, Types, agentVars, clientVars

LEMMA OtherPersistsType ==
  ASSUME Types, NEW n \in 1..OutboxCap, OtherPersists(n)
  PROVE  Types' /\ Range(SubSeq(outbox, 1, n)) \subseteq Range(outbox)
<1> DEFINE taken == Range(SubSeq(outbox, 1, n))
<1>1. persisted' = persisted \cup taken /\ n \in 1..Len(outbox)
  BY DEF OtherPersists
<1>2. n \in Int /\ \A i \in 1..n : i \in 1..Len(outbox)
  BY <1>1, LenProperties DEF Types
<1>3. SubSeq(outbox, 1, n) \in Seq(Events) /\ taken \subseteq Range(outbox)
  <2>1. \A i \in 1..n : outbox[i] \in Events /\ outbox[i] \in Range(outbox)
    BY <1>2, ElementOfSeq, LenProperties DEF Types, Range
  <2>2. /\ SubSeq(outbox, 1, n) \in Seq(Events) /\ Len(SubSeq(outbox, 1, n)) = n
        /\ \A i \in 1..n : SubSeq(outbox, 1, n)[i] = outbox[i]
    BY <1>2, <2>1, SubSeqProperties
  <2> QED
    BY <2>1, <2>2, LenProperties DEF Range
<1>4. taken \subseteq Events
  BY <1>3, RangeOfSeq
<1> HIDE DEF taken
<1>5. Types'
  BY <1>1, <1>4 DEF OtherPersists, Types, queueVars, agentVars, clientVars
<1> QED
  BY <1>3, <1>5 DEF taken

LEMMA OtherAcksType ==
  ASSUME Types, NEW ids \in SUBSET Events, OtherAcks(ids)
  PROVE  Types'
<1>1. outbox' \in Seq(Events)
  BY WithoutProperties DEF Types, OtherAcks
<1> QED
  BY <1>1 DEF OtherAcks, Types, agentVars, clientVars

(* What another pass does.                                                 *)
OtherPass == \/ \E n \in 1..OutboxCap : OtherPersists(n)
             \/ \E ids \in SUBSET Events : OtherAcks(ids)

LEMMA OpenType ==
  ASSUME Types, Open
  PROVE  Types'
<1>1. IsFiniteSet({}) /\ Cardinality({}) = 0
  BY FS_EmptySet
<1> QED
  BY <1>1, StreamAssumption DEF Open, Types, queueVars, PCs

LEMMA AvailableType ==
  ASSUME Types
  PROVE  Available \in Nat /\ Cardinality(inFlight) \in Nat
         /\ Cardinality(inFlight) + Available = MaxInFlight
BY FS_CardinalityType, StreamAssumption DEF Available, Types

LEMMA PushPageType ==
  ASSUME Types, PushPage
  PROVE  Types'
<1> DEFINE p == StreamPage(Available)
<1>1. p \in Seq(Events) /\ p # << >>
  BY AvailableType, StreamPageProperties DEF PushPage, Types
<1>2. Range(p) \subseteq Events
  BY <1>1, RangeOfSeq
<1>3. p[Len(p)] \in Events
  BY <1>1, LenProperties, ElementOfSeq, EmptySeq
<1>4. Frame("page", p) \in Frames
  BY <1>1, FrameTypes
<1>5. /\ inFlight' = inFlight \cup Range(p) /\ sentIds' = sentIds \cup Range(p)
      /\ cursor' = p[Len(p)] /\ frames' = Append(frames, Frame("page", p)) /\ sent' = Append(sent, p)
      /\ UNCHANGED <<queueVars, serving, requests, clientVars, persisted, handled, streams, faults>>
  BY DEF PushPage
<1> HIDE DEF p
<1>6. frames' \in Seq(Frames) /\ sent' \in Seq(Seq(Events))
  BY <1>1, <1>4, <1>5, AppendProperties DEF Types
<1>7. IsFiniteSet(inFlight') /\ Cardinality(inFlight') <= MaxInFlight
  <2>1. IsFiniteSet(Range(p)) /\ Cardinality(Range(p)) \in Nat /\ Cardinality(Range(p)) <= Available
    BY AvailableType, StreamPageProperties DEF Types, p
  <2>2. /\ IsFiniteSet(inFlight \cup Range(p))
        /\ Cardinality(inFlight \cup Range(p))
             = Cardinality(inFlight) + Cardinality(Range(p)) - Cardinality(inFlight \cap Range(p))
    BY <2>1, FS_Union DEF Types
  <2>3. Cardinality(inFlight \cap Range(p)) \in Nat
    BY <2>1, FS_Intersection, FS_CardinalityType
  <2>4. MaxInFlight \in Nat
    BY StreamAssumption
  <2> QED
    BY <1>5, <2>1, <2>2, <2>3, <2>4, AvailableType
<1> QED
  BY <1>2, <1>3, <1>5, <1>6, <1>7 DEF Types, queueVars, clientVars

LEMMA AgentType ==
  ASSUME Types, PushHeartbeat \/ HandleAck \/ Refuse \/ HandleClose \/ SeeEof \/ StreamFails
  PROVE  Types'
<1>1. CASE PushHeartbeat
  <2>1. frames' \in Seq(Frames)
    BY <1>1, FrameTypes, AppendProperties DEF PushHeartbeat, Types
  <2> QED
    BY <1>1, <2>1 DEF PushHeartbeat, Types, queueVars, agentVars, clientVars
<1>2. CASE HandleAck
  <2>1. frames' \in Seq(Frames)
    BY <1>2, FrameTypes, AppendProperties DEF HandleAck, Types
  <2>2. outbox' \in Seq(Events)
    BY <1>2, WithoutProperties DEF HandleAck, Types
  <2>3. requests' \in Seq(Request)
    BY <1>2, HeadTailProperties DEF HandleAck, Types
  <2>4. inFlight' \in SUBSET Events
    BY <1>2 DEF HandleAck, Types
  <2>5. IsFiniteSet(inFlight') /\ Cardinality(inFlight') <= MaxInFlight
    <3>1. inFlight' \in SUBSET inFlight
      BY <1>2 DEF HandleAck
    <3>2. IsFiniteSet(inFlight') /\ Cardinality(inFlight') <= Cardinality(inFlight)
      BY <3>1, FS_Subset DEF Types
    <3> QED
      BY <3>2, StreamAssumption, FS_CardinalityType DEF Types
  <2> QED
    BY <1>2, <2>1, <2>2, <2>3, <2>4, <2>5 DEF HandleAck, Types, clientVars
<1>3. CASE Refuse
  <2>1. frames' \in Seq(Frames)
    BY <1>3, FrameTypes, AppendProperties DEF Refuse, Types
  <2>2. requests' \in Seq(Request)
    BY <1>3, HeadTailProperties DEF Refuse, Types
  <2> QED
    BY <1>3, <2>1, <2>2, StreamAssumption DEF Refuse, Types, queueVars, agentVars, clientVars
<1>4. CASE HandleClose
  <2>1. frames' \in Seq(Frames)
    BY <1>4, FrameTypes, AppendProperties DEF HandleClose, Types
  <2>2. requests' \in Seq(Request)
    BY <1>4, HeadTailProperties DEF HandleClose, Types
  <2> QED
    BY <1>4, <2>1, <2>2 DEF HandleClose, Types, queueVars, clientVars
<1>5. CASE SeeEof
  BY <1>5 DEF SeeEof, Types, queueVars, clientVars
<1>6. CASE StreamFails
  <2>1. requests' \in Seq(Request)
    BY <1>6, EmptySeq DEF StreamFails
  <2>2. faults' \in 0..MaxFaults
    BY <1>6, StreamAssumption DEF StreamFails, Types
  <2> QED
    BY <1>6, <2>1, <2>2 DEF StreamFails, Types, queueVars, clientVars
<1> QED
  BY <1>1, <1>2, <1>3, <1>4, <1>5, <1>6

LEMMA ControllerType ==
  ASSUME Types, Protocol,
         \/ ReadFrame \/ Ingest \/ SendAck \/ SendClose
         \/ PutAside \/ AckAnswered \/ Return \/ ControllerFails
  PROVE  Types'
<1>1. CASE ReadFrame
  <2>1. HasNext /\ TakeFrame
    BY <1>1 DEF ReadFrame
  <2>2. NextFrame \in Frames /\ pending' \in Seq(Frames) /\ frames' \in Seq(Frames)
    BY <2>1, NextFrameType
  <2>3. NextFrame.events \in Seq(Events)
    BY <2>2, FrameTypes
  <2>4. page' \in Seq(Events) /\ pc' \in PCs
    BY <1>1, <2>3 DEF ReadFrame, Types, PCs
  <2> QED
    BY <1>1, <2>2, <2>4 DEF ReadFrame, Types, queueVars, agentVars
<1>2. CASE Ingest
  <2>1. Range(page) \subseteq Events
    BY RangeOfSeq DEF Types
  <2> QED
    BY <1>2, <2>1 DEF Ingest, Types, queueVars, agentVars, PCs
<1>3. CASE SendAck
  <2>1. [kind |-> "ack", events |-> page] \in Request
    BY DEF Types, Request
  <2>2. requests' \in Seq(Request)
    BY <1>3, <2>1, AppendProperties DEF SendAck, Types
  <2> QED
    BY <1>3, <2>2 DEF SendAck, Types, queueVars, agentVars, PCs
<1>4. CASE SendClose
  <2>1. [kind |-> "close", events |-> << >>] \in Request
    BY EmptySeq DEF Request
  <2>2. requests' \in Seq(Request)
    BY <1>4, <2>1, AppendProperties DEF SendClose, Types
  <2> QED
    BY <1>4, <2>2 DEF SendClose, Types, queueVars, agentVars, PCs
<1>5. CASE PutAside
  <2>1. HasNext /\ TakeFrame
    BY <1>5 DEF PutAside
  <2>2. NextFrame \in Frames /\ pending' \in Seq(Frames) /\ frames' \in Seq(Frames)
    BY <2>1, NextFrameType
  <2>3. aside' \in Seq(Frames)
    BY <1>5, <2>2, AppendProperties DEF PutAside, Types
  <2> QED
    BY <1>5, <2>2, <2>3 DEF PutAside, Types, queueVars, agentVars
<1>6. CASE AckAnswered
  <2>1. pending = << >> /\ frames # << >>
    BY <1>6, AnswerIsNext DEF AckAnswered
  <2>2. frames' \in Seq(Frames) /\ pending' \in Seq(Frames)
    BY <1>6, <2>1, HeadTailProperties, ConcatProperties DEF AckAnswered, Types
  <2>3. handled' \in Seq(Seq(Events))
    BY <1>6, AppendProperties DEF AckAnswered, Types
  <2> QED
    BY <1>6, <2>2, <2>3, EmptySeq DEF AckAnswered, Types, queueVars, agentVars, PCs
<1>7. CASE Return \/ ControllerFails
  <2>1. Finish /\ faults' \in 0..MaxFaults
    BY <1>7, StreamAssumption DEF Return, ControllerFails, Types
  <2> QED
    BY <2>1, EmptySeq DEF Finish, Types, queueVars, agentVars, PCs
<1> QED
  BY <1>1, <1>2, <1>3, <1>4, <1>5, <1>6, <1>7
-----------------------------------------------------------------------------
(* The protocol is kept.                                                   *)
LEMMA AppendFrame ==
  ASSUME NEW fs \in Seq(Frames), NEW f \in Frames
  PROVE  /\ OnlyPushed(fs) /\ f.kind \in {"page", "heartbeat"} => OnlyPushed(Append(fs, f))
         /\ NoEmptyPage(fs) /\ (f.kind = "page" => f.events # << >>) => NoEmptyPage(Append(fs, f))
         /\ Len(Append(fs, f)) = Len(fs) + 1
<1>1. /\ Len(fs) \in Nat /\ DOMAIN fs = 1..Len(fs)
      /\ Append(fs, f) \in Seq(Frames) /\ Len(Append(fs, f)) = Len(fs) + 1
      /\ \A i \in 1..Len(fs) : Append(fs, f)[i] = fs[i]
      /\ Append(fs, f)[Len(fs) + 1] = f
  BY LenProperties, AppendProperties
<1>2. DOMAIN Append(fs, f) = 1..(Len(fs) + 1)
  BY <1>1, LenProperties
<1>3. \A i \in 1..(Len(fs) + 1) : i \in 1..Len(fs) \/ i = Len(fs) + 1
  BY <1>1
<1> QED
  BY <1>1, <1>2, <1>3 DEF OnlyPushed, NoEmptyPage

LEMMA TailFrames ==
  ASSUME NEW fs \in Seq(Frames), fs # << >>
  PROVE  /\ OnlyPushed(fs) => OnlyPushed(Tail(fs)) /\ Head(fs).kind \in {"page", "heartbeat"}
         /\ NoEmptyPage(fs)
              => NoEmptyPage(Tail(fs)) /\ (Head(fs).kind = "page" => Head(fs).events # << >>)
         /\ Len(Tail(fs)) = Len(fs) - 1 /\ Len(fs) \in Nat
<1>1. /\ Len(fs) \in Nat \ {0} /\ DOMAIN fs = 1..Len(fs) /\ Head(fs) = fs[1]
      /\ Tail(fs) \in Seq(Frames) /\ Len(Tail(fs)) = Len(fs) - 1
      /\ \A i \in 1..Len(Tail(fs)) : Tail(fs)[i] = fs[i + 1]
  BY LenProperties, EmptySeq, HeadTailProperties
<1>2. DOMAIN Tail(fs) = 1..(Len(fs) - 1)
  BY <1>1, LenProperties
<1>3. 1 \in 1..Len(fs) /\ \A i \in 1..(Len(fs) - 1) : i + 1 \in 1..Len(fs)
  BY <1>1
<1> QED
  BY <1>1, <1>2, <1>3 DEF OnlyPushed, NoEmptyPage

LEMMA ConcatFrames ==
  ASSUME NEW fs \in Seq(Frames), NEW gs \in Seq(Frames)
  PROVE  /\ OnlyPushed(fs) /\ OnlyPushed(gs) => OnlyPushed(fs \o gs)
         /\ NoEmptyPage(fs) /\ NoEmptyPage(gs) => NoEmptyPage(fs \o gs)
<1>1. /\ Len(fs) \in Nat /\ DOMAIN fs = 1..Len(fs) /\ Len(gs) \in Nat /\ DOMAIN gs = 1..Len(gs)
      /\ DOMAIN (fs \o gs) = 1..(Len(fs) + Len(gs))
      /\ \A i \in 1..(Len(fs) + Len(gs)) :
           (fs \o gs)[i] = IF i <= Len(fs) THEN fs[i] ELSE gs[i - Len(fs)]
  BY LenProperties, ConcatProperties
<1>2. \A i \in 1..(Len(fs) + Len(gs)) :
        IF i <= Len(fs) THEN i \in 1..Len(fs) ELSE i - Len(fs) \in 1..Len(gs)
  BY <1>1
<1> QED
  BY <1>1, <1>2 DEF OnlyPushed, NoEmptyPage

LEMMA NoFrames == OnlyPushed(<< >>) /\ NoEmptyPage(<< >>) /\ Len(<< >>) = 0
BY DEF OnlyPushed, NoEmptyPage

(* Taking the next frame.                                                  *)
LEMMA NextFrameProtocol ==
  ASSUME Types, Protocol, HasNext, TakeFrame
  PROVE  /\ OnlyPushed(pending') /\ NoEmptyPage(pending') /\ NoEmptyPage(frames')
         /\ Len(frames') <= FrameBuffer
         /\ OnlyPushed(frames) => OnlyPushed(frames')
         /\ NextFrame.kind = "page" => NextFrame.events # << >>
         /\ OnlyPushed(frames) => NextFrame.kind \in {"page", "heartbeat"}
<1>1. CASE pending # << >>
  BY <1>1, TailFrames DEF Types, Protocol, NextFrame, TakeFrame
<1>2. CASE pending = << >>
  <2>1. frames # << >> /\ NextFrame = Head(frames) /\ pending' = pending /\ frames' = Tail(frames)
    BY <1>2 DEF HasNext, NextFrame, TakeFrame
  <2>2. Len(frames') <= FrameBuffer
    BY <2>1, TailFrames, StreamAssumption DEF Types, Protocol
  <2> QED
    BY <2>1, <2>2, TailFrames DEF Types, Protocol
<1> QED
  BY <1>1, <1>2

LEMMA OneAnswerKept ==
  ASSUME NEW fs \in Seq(Frames)
  PROVE  /\ OnlyPushed(fs) => OneAnswer(fs)
         /\ fs # << >> /\ OneAnswer(fs) => OneAnswer(Tail(fs))
         /\ fs # << >> /\ OneAnswer(fs) /\ Head(fs).kind \notin {"page", "heartbeat"}
              => OnlyPushed(Tail(fs))
         /\ \A f \in Frames : OnlyPushed(fs) => OneAnswer(Append(fs, f))
         /\ \A f \in Frames : OneAnswer(fs) /\ f.kind \in {"page", "heartbeat"}
                                => OneAnswer(Append(fs, f))
<1>1. OnlyPushed(fs) => OneAnswer(fs)
  BY DEF OnlyPushed, OneAnswer
<1>2. ASSUME fs # << >>, OneAnswer(fs)
      PROVE  /\ OneAnswer(Tail(fs))
             /\ Head(fs).kind \notin {"page", "heartbeat"} => OnlyPushed(Tail(fs))
  <2>1. /\ Len(fs) \in Nat \ {0} /\ DOMAIN fs = 1..Len(fs) /\ Head(fs) = fs[1]
        /\ Tail(fs) \in Seq(Frames) /\ Len(Tail(fs)) = Len(fs) - 1
        /\ \A i \in 1..Len(Tail(fs)) : Tail(fs)[i] = fs[i + 1]
    BY <1>2, LenProperties, EmptySeq, HeadTailProperties
  <2>2. DOMAIN Tail(fs) = 1..(Len(fs) - 1)
    BY <2>1, LenProperties
  <2>3. 1 \in 1..Len(fs) /\ \A i \in 1..(Len(fs) - 1) : i + 1 \in 1..Len(fs) /\ i + 1 # 1
    BY <2>1
  <2>4. \A i, j \in 1..(Len(fs) - 1) : i + 1 = j + 1 => i = j
    OBVIOUS
  <2>5. OneAnswer(Tail(fs))
    BY <1>2, <2>1, <2>2, <2>3, <2>4 DEF OneAnswer
  <2>6. Head(fs).kind \notin {"page", "heartbeat"} => OnlyPushed(Tail(fs))
    BY <1>2, <2>1, <2>2, <2>3 DEF OneAnswer, OnlyPushed
  <2> QED
    BY <2>5, <2>6
<1>3. ASSUME NEW f \in Frames
      PROVE  /\ OnlyPushed(fs) => OneAnswer(Append(fs, f))
             /\ OneAnswer(fs) /\ f.kind \in {"page", "heartbeat"} => OneAnswer(Append(fs, f))
  <2>1. /\ Len(fs) \in Nat /\ DOMAIN fs = 1..Len(fs)
        /\ \A i \in 1..Len(fs) : Append(fs, f)[i] = fs[i]
        /\ Append(fs, f)[Len(fs) + 1] = f
        /\ DOMAIN Append(fs, f) = 1..(Len(fs) + 1)
    BY LenProperties, AppendProperties
  <2>2. \A i \in 1..(Len(fs) + 1) : i \in 1..Len(fs) \/ i = Len(fs) + 1
    BY <2>1
  <2> QED
    BY <2>1, <2>2 DEF OnlyPushed, OneAnswer
<1> QED
  BY <1>1, <1>2, <1>3

(* The Agent pushes a frame that answers nothing.                          *)
LEMMA PushedProtocol ==
  ASSUME Types, Protocol, Len(frames) < FrameBuffer, NEW f \in Frames,
         f.kind \in {"page", "heartbeat"}, f.kind = "page" => f.events # << >>,
         frames' = Append(frames, f), UNCHANGED <<requests, clientVars>>
  PROVE  Protocol'
<1>1. NoEmptyPage(frames') /\ Len(frames') <= FrameBuffer
      /\ (OnlyPushed(frames) => OnlyPushed(frames')) /\ (OneAnswer(frames) => OneAnswer(frames'))
  <2>1. Len(frames) \in Nat /\ FrameBuffer \in Nat
    BY LenProperties, StreamAssumption DEF Types
  <2>2. NoEmptyPage(frames) /\ frames \in Seq(Frames)
    BY DEF Types, Protocol
  <2>3. NoEmptyPage(frames') /\ Len(frames') = Len(frames) + 1
        /\ (OnlyPushed(frames) => OnlyPushed(frames'))
    BY <2>2, AppendFrame
  <2>4. OneAnswer(frames) => OneAnswer(frames')
    BY <2>2, OneAnswerKept
  <2> QED
    BY <2>1, <2>3, <2>4
<1> QED
  BY <1>1 DEF Protocol, clientVars

LEMMA OneLeft ==
  ASSUME NEW S, NEW q \in Seq(S), q # << >>, Len(q) <= 1
  PROVE  Tail(q) = << >>
<1>1. Len(q) \in Nat \ {0}
  BY EmptySeq
<1>2. \A n \in Nat \ {0} : n <= 1 => n - 1 = 0
  OBVIOUS
<1>3. Tail(q) \in Seq(S) /\ Len(Tail(q)) = Len(q) - 1
  BY HeadTailProperties
<1>4. Len(Tail(q)) = 0
  BY <1>1, <1>2, <1>3
<1> QED
  BY <1>3, <1>4, EmptySeq

(* The Agent answers the request, which is the only one.                   *)
LEMMA AnsweredProtocol ==
  ASSUME Types, Protocol, Len(frames) < FrameBuffer, NEW f \in Frames, f.kind # "page",
         requests # << >>, requests' = Tail(requests),
         frames' = Append(frames, f), UNCHANGED clientVars
  PROVE  Protocol'
<1>1. requests' = << >>
  <2>1. Len(requests) <= 1 /\ requests \in Seq(Request)
    BY DEF Protocol, Types
  <2> QED
    BY <2>1, OneLeft
<1>2. NoEmptyPage(frames') /\ Len(frames') <= FrameBuffer
      /\ (OnlyPushed(frames) => OneAnswer(frames'))
  <2>1. Len(frames) \in Nat /\ FrameBuffer \in Nat
    BY LenProperties, StreamAssumption DEF Types
  <2> QED
    BY <2>1, AppendFrame, OneAnswerKept DEF Types, Protocol
<1>3. pc \notin {"reading", "ingesting", "persisted"}
  BY DEF Protocol
<1>4. Len(requests') <= 1
  BY <1>1
<1> QED
  BY <1>1, <1>2, <1>3, <1>4 DEF Protocol, clientVars

LEMMA AgentProtocol ==
  ASSUME Types, Protocol,
         PushPage \/ PushHeartbeat \/ HandleAck \/ Refuse \/ HandleClose \/ SeeEof \/ StreamFails
  PROVE  Protocol'
<1>1. CASE PushPage
  <2> DEFINE p == StreamPage(Available)
  <2>1. p \in Seq(Events) /\ p # << >>
    BY <1>1, AvailableType, StreamPageProperties DEF PushPage, Types
  <2>2. Frame("page", p) \in Frames /\ Frame("page", p).kind = "page" /\ Frame("page", p).events = p
    BY <2>1, FrameTypes DEF Frame
  <2>3. frames' = Append(frames, Frame("page", p)) /\ Len(frames) < FrameBuffer
        /\ UNCHANGED <<requests, clientVars>>
    BY <1>1 DEF PushPage, CanWrite
  <2> HIDE DEF p
  <2> QED
    BY <2>1, <2>2, <2>3, PushedProtocol
<1>2. CASE PushHeartbeat
  <2>1. Frame("heartbeat", << >>) \in Frames /\ Frame("heartbeat", << >>).kind = "heartbeat"
    BY FrameTypes DEF Frame
  <2>2. frames' = Append(frames, Frame("heartbeat", << >>)) /\ Len(frames) < FrameBuffer
        /\ UNCHANGED <<requests, clientVars>>
    BY <1>2 DEF PushHeartbeat, CanWrite, agentVars
  <2> QED
    BY <2>1, <2>2, PushedProtocol
<1>3. CASE HandleAck \/ Refuse \/ HandleClose
  <2>1. /\ \E k \in {"acked", "refused", "closed"} : frames' = Append(frames, Frame(k, << >>))
        /\ Len(frames) < FrameBuffer /\ requests # << >> /\ requests' = Tail(requests)
        /\ UNCHANGED clientVars
    BY <1>3 DEF HandleAck, Refuse, HandleClose, CanWrite
  <2>2. PICK k \in {"acked", "refused", "closed"} : frames' = Append(frames, Frame(k, << >>))
    BY <2>1
  <2>3. Frame(k, << >>) \in Frames /\ Frame(k, << >>).kind # "page"
    BY FrameTypes DEF Frame
  <2> QED
    BY <2>1, <2>2, <2>3, AnsweredProtocol
<1>4. CASE SeeEof
  BY <1>4 DEF SeeEof, Protocol, clientVars
<1>5. CASE StreamFails
  <2>1. requests' = << >> /\ Len(<< >>) <= 1 /\ UNCHANGED <<frames, clientVars>>
    BY <1>5 DEF StreamFails
  <2> QED
    BY <2>1 DEF Protocol, clientVars
<1> QED
  BY <1>1, <1>2, <1>3, <1>4, <1>5

LEMMA ControllerProtocol ==
  ASSUME Types, Protocol,
         \/ ReadFrame \/ Ingest \/ SendAck \/ SendClose
         \/ PutAside \/ AckAnswered \/ Return \/ ControllerFails
  PROVE  Protocol'
<1>1. CASE ReadFrame
  <2>1. pc = "reading" /\ HasNext /\ TakeFrame /\ UNCHANGED <<requests, aside>>
        /\ \/ NextFrame.kind = "page" /\ pc' = "ingesting" /\ page' = NextFrame.events
           \/ UNCHANGED <<pc, page>>
    BY <1>1 DEF ReadFrame
  <2>2. aside = << >> /\ requests = << >> /\ OnlyPushed(frames) /\ page = << >>
    BY <2>1 DEF Protocol
  <2> QED
    BY <2>1, <2>2, NextFrameProtocol DEF Protocol
<1>2. CASE Ingest
  BY <1>2 DEF Ingest, Protocol
<1>3. CASE SendAck
  <2> DEFINE ack == [kind |-> "ack", events |-> page]
  <2>1. pc = "persisted" /\ pc' = "acking" /\ requests = << >> /\ requests' = Append(<< >>, ack)
        /\ UNCHANGED <<frames, page, pending, aside>> /\ OnlyPushed(frames)
    BY <1>3 DEF SendAck, Protocol
  <2>2. requests' = <<ack>> /\ Len(<<ack>>) = 1 /\ Head(<<ack>>).events = page
    BY <2>1
  <2>3. OneAnswer(frames)
    BY <2>1, OneAnswerKept DEF Types
  <2> HIDE DEF ack
  <2> QED
    BY <2>1, <2>2, <2>3 DEF Protocol
<1>4. CASE SendClose
  <2> DEFINE close == [kind |-> "close", events |-> << >>]
  <2>1. pc = "reading" /\ pc' = "closing" /\ requests = << >> /\ requests' = Append(<< >>, close)
        /\ UNCHANGED <<frames, page, pending, aside>> /\ OnlyPushed(frames)
    BY <1>4 DEF SendClose, Protocol
  <2>2. requests' = <<close>> /\ Len(<<close>>) = 1 /\ Head(<<close>>).kind = "close"
    BY <2>1
  <2>3. OneAnswer(frames)
    BY <2>1, OneAnswerKept DEF Types
  <2> HIDE DEF close
  <2> QED
    BY <2>1, <2>2, <2>3 DEF Protocol
<1>5. CASE PutAside
  <2>1. pc \in {"acking", "closing"} /\ HasNext /\ TakeFrame /\ NextFrame.kind \in {"page", "heartbeat"}
        /\ aside' = Append(aside, NextFrame) /\ UNCHANGED <<requests, pc, page>>
    BY <1>5 DEF PutAside
  <2>2. NextFrame \in Frames
    BY <2>1, NextFrameType
  <2>3. OnlyPushed(aside') /\ NoEmptyPage(aside')
    BY <2>1, <2>2, NextFrameProtocol, AppendFrame DEF Types, Protocol
  <2>4. OneAnswer(frames')
    <3>1. OneAnswer(frames)
      BY <2>1 DEF Protocol
    <3>2. frames' = frames \/ (frames # << >> /\ frames' = Tail(frames))
      BY <2>1 DEF TakeFrame, HasNext
    <3> QED
      BY <3>1, <3>2, OneAnswerKept DEF Types
  <2> QED
    BY <2>1, <2>3, <2>4, NextFrameProtocol DEF Protocol
<1>6. CASE AckAnswered
  <2>1. pc = "acking" /\ HasNext /\ NextFrame.kind = "acked" /\ frames' = Tail(frames)
        /\ pending' = pending \o aside /\ aside' = << >> /\ pc' = "reading" /\ page' = << >>
        /\ UNCHANGED requests
    BY <1>6 DEF AckAnswered
  <2>2. pending = << >> /\ frames # << >> /\ NextFrame = Head(frames)
    BY <2>1, AnswerIsNext
  <2>3. OneAnswer(frames) /\ ~OnlyPushed(frames)
    BY <2>1, <2>2, TailFrames DEF Protocol, Types
  <2>4. requests = << >> /\ OnlyPushed(frames')
    BY <2>1, <2>2, <2>3, OneAnswerKept DEF Protocol, Types
  <2>5. NoEmptyPage(frames') /\ Len(frames') <= FrameBuffer
    BY <2>1, <2>2, TailFrames, StreamAssumption DEF Protocol, Types
  <2>6. OnlyPushed(pending') /\ NoEmptyPage(pending')
    BY <2>1, ConcatFrames DEF Protocol, Types
  <2>7. Len(requests) <= 1
    BY DEF Protocol
  <2> QED
    BY <2>1, <2>4, <2>5, <2>6, <2>7, NoFrames DEF Protocol
<1>7. CASE Return \/ ControllerFails
  <2>1. pc' = "off" /\ page' = << >> /\ pending' = << >> /\ aside' = << >> /\ UNCHANGED <<requests, frames>>
    BY <1>7 DEF Return, ControllerFails, Finish
  <2> QED
    BY <2>1, NoFrames DEF Protocol
<1> QED
  BY <1>1, <1>2, <1>3, <1>4, <1>5, <1>6, <1>7

LEMMA OtherProtocol ==
  ASSUME Types, Protocol, Open \/ (\E e \in Events : Queue(e)) \/ OtherPass
  PROVE  Protocol'
<1>1. CASE Open
  <2>1. /\ requests' = << >> /\ frames' = << >> /\ pc' = "reading" /\ page' = << >>
        /\ pending' = << >> /\ aside' = << >>
    BY <1>1 DEF Open
  <2> QED
    BY <2>1, NoFrames, StreamAssumption DEF Protocol
<1>2. CASE \E e \in Events : Queue(e)
  BY <1>2 DEF Queue, Protocol, clientVars
<1>3. CASE OtherPass
  BY <1>3 DEF OtherPass, OtherPersists, OtherAcks, Protocol, queueVars, clientVars
<1> QED
  BY <1>1, <1>2, <1>3

TypesAndProtocol == Types /\ Protocol

LEMMA NextTypes == TypesAndProtocol /\ [Next]_vars => TypesAndProtocol'
<1> SUFFICES ASSUME Types, Protocol, [Next]_vars PROVE Types' /\ Protocol'
  BY DEF TypesAndProtocol
<1>1. CASE UNCHANGED vars
  BY <1>1 DEF vars, queueVars, agentVars, clientVars, Types, Protocol
<1>2. CASE Next
  <2>1. Types'
    BY <1>2, QueueType, OtherPersistsType, OtherAcksType, OpenType, PushPageType, AgentType, ControllerType DEF Next
  <2>2. Protocol'
    BY <1>2, AgentProtocol, ControllerProtocol, OtherProtocol DEF Next, OtherPass
  <2> QED
    BY <2>1, <2>2
<1> QED
  BY <1>1, <1>2

LEMMA InitTypes == Init => TypesAndProtocol
<1> SUFFICES ASSUME Init PROVE TypesAndProtocol
  OBVIOUS
<1>1. IsFiniteSet({}) /\ Cardinality({}) = 0
  BY FS_EmptySet
<1>2. Types
  <2>1. /\ << >> \in Seq(Events) /\ << >> \in Seq(Frames) /\ << >> \in Seq(Request)
        /\ << >> \in Seq(Seq(Events))
    BY EmptySeq
  <2>2. 0 \in 0..MaxStreams /\ 0 \in 0..MaxFaults /\ 0 <= MaxInFlight
    BY StreamAssumption
  <2> QED
    BY <1>1, <2>1, <2>2 DEF Init, Types, PCs
<1>3. Protocol
  BY NoFrames, StreamAssumption DEF Init, Protocol
<1> QED
  BY <1>2, <1>3 DEF TypesAndProtocol

LEMMA AlwaysTypes == Spec => []TypesAndProtocol
BY InitTypes, NextTypes, PTL DEF Spec

(* The state of both sides and of the connection keeps its type: at most   *)
(* one request is unread, the connection holds no more frames than it can, *)
(* and frames are put aside only while an answer is awaited.               *)
THEOREM TypeCorrect == Spec => []TypeOK
<1>1. TypesAndProtocol => TypeOK
  BY DEF TypesAndProtocol, Types, Protocol, TypeOK, PCs
<1> QED
  BY <1>1, AlwaysTypes, PTL
-----------------------------------------------------------------------------
(* What the Controller acknowledges, and what it has asked the Agent to    *)
(* remove, is in the catalog.                                              *)
Backed ==
  /\ pc \in {"persisted", "acking"} => Range(page) \subseteq persisted
  /\ \A i \in DOMAIN requests : Range(requests[i].events) \subseteq persisted

LEMMA RangeOfNone == Range(<< >>) = {}
BY DEF Range

LEMMA BackedStep == TypesAndProtocol /\ Backed /\ [Next]_vars => Backed'
<1> SUFFICES ASSUME Types, Protocol, Backed, [Next]_vars PROVE Backed'
  BY DEF TypesAndProtocol
<1>1. ASSUME requests' = requests \/ requests' = << >> \/ (requests # << >> /\ requests' = Tail(requests)),
             persisted \subseteq persisted',
             pc' \in {"persisted", "acking"} => pc \in {"persisted", "acking"} /\ page' = page
      PROVE  Backed'
  <2>1. \A i \in DOMAIN requests' : \E j \in DOMAIN requests : requests'[i] = requests[j]
    <3>1. CASE requests # << >> /\ requests' = Tail(requests)
      <4>1. Len(requests) \in Nat \ {0} /\ DOMAIN requests = 1..Len(requests)
            /\ Tail(requests) \in Seq(Request) /\ Len(Tail(requests)) = Len(requests) - 1
            /\ \A i \in 1..Len(Tail(requests)) : Tail(requests)[i] = requests[i + 1]
        BY <3>1, LenProperties, EmptySeq, HeadTailProperties DEF Types
      <4>2. DOMAIN Tail(requests) = 1..(Len(requests) - 1)
        BY <4>1, LenProperties
      <4>3. \A i \in 1..(Len(requests) - 1) : i + 1 \in 1..Len(requests)
        BY <4>1
      <4> QED
        BY <3>1, <4>1, <4>2, <4>3
    <3>2. CASE requests' = << >>
      BY <3>2
    <3> QED
      BY <1>1, <3>1, <3>2
  <2> QED
    BY <1>1, <2>1 DEF Backed
<1>2. CASE UNCHANGED vars
  BY <1>2 DEF vars, clientVars, Backed
<1>3. CASE \E e \in Events : Queue(e)
  BY <1>1, <1>3 DEF Queue, clientVars
<1>4. CASE OtherPass
  BY <1>1, <1>4 DEF OtherPass, OtherPersists, OtherAcks, clientVars
<1>5. CASE Open
  BY <1>1, <1>5 DEF Open
<1>6. CASE PushPage \/ PushHeartbeat \/ SeeEof \/ StreamFails
  BY <1>1, <1>6 DEF PushPage, PushHeartbeat, SeeEof, StreamFails, clientVars
<1>7. CASE HandleAck \/ Refuse \/ HandleClose
  BY <1>1, <1>7 DEF HandleAck, Refuse, HandleClose, clientVars
<1>8. CASE ReadFrame \/ PutAside \/ AckAnswered \/ Return \/ ControllerFails
  <2>1. CASE ReadFrame
    BY <1>1, <2>1 DEF ReadFrame
  <2>2. CASE PutAside \/ AckAnswered
    BY <1>1, <2>2 DEF PutAside, AckAnswered
  <2>3. CASE Return \/ ControllerFails
    BY <1>1, <2>3 DEF Return, ControllerFails, Finish
  <2> QED
    BY <1>8, <2>1, <2>2, <2>3
<1>9. CASE Ingest
  BY <1>9 DEF Ingest, Backed
<1>10. CASE SendAck \/ SendClose
  <2>2. requests = << >>
    BY <1>10 DEF SendAck, SendClose, Protocol
  <2>4. CASE SendAck
    <3>1. Range(page) \subseteq persisted /\ persisted' = persisted /\ page' = page
          /\ requests' = Append(requests, [kind |-> "ack", events |-> page])
      BY <2>4 DEF SendAck, Backed
    <3>2. requests' = <<[kind |-> "ack", events |-> page]>>
      BY <2>2, <3>1
    <3> QED
      BY <3>1, <3>2 DEF Backed
  <2>5. CASE SendClose
    <3>1. requests' = <<[kind |-> "close", events |-> << >>]>> /\ pc' = "closing"
      BY <2>2, <2>5 DEF SendClose
    <3> QED
      BY <3>1, RangeOfNone DEF Backed
  <2> QED
    BY <1>10, <2>4, <2>5
<1> QED
  BY <1>2, <1>3, <1>4, <1>5, <1>6, <1>7, <1>8, <1>9, <1>10 DEF Next, OtherPass

LEMMA AlwaysBacked == Spec => [](TypesAndProtocol /\ Backed)
<1>1. Init => Backed
  BY DEF Init, Backed
<1> QED
  BY <1>1, BackedStep, InitTypes, NextTypes, PTL DEF Spec

(* What an acknowledgement in hand names is in the catalog.                *)
LEMMA AckBacked ==
  ASSUME Types, Backed, requests # << >>
  PROVE  Range(Head(requests).events) \subseteq persisted
<1>1. Len(requests) \in Nat \ {0} /\ DOMAIN requests = 1..Len(requests) /\ Head(requests) = requests[1]
  BY LenProperties, EmptySeq DEF Types
<1>2. 1 \in DOMAIN requests
  BY <1>1
<1> QED
  BY <1>1, <1>2 DEF Backed

(* Whatever the two sides do and however they fail, an event leaves the    *)
(* outbox only when the catalog has it or newer events fill the outbox.    *)
THEOREM NothingLost == Spec => NothingLostSilently
<1>1. TypesAndProtocol /\ Backed /\ [Next]_vars
        => [\A e \in Range(outbox) \ Range(outbox') :
              e \in persisted' \/ Len(outbox') = OutboxCap]_vars
  <2> SUFFICES ASSUME Types, Backed, Next, NEW e \in Range(outbox) \ Range(outbox')
               PROVE  e \in persisted' \/ Len(outbox') = OutboxCap
    BY DEF TypesAndProtocol
  <2>1. ASSUME NEW x \in Events, Queue(x)
        PROVE  Len(outbox') = OutboxCap
    <3>1. <<x>> \in Seq(Events)
      OBVIOUS
    <3>2. \/ Range(outbox') = Range(outbox) \cup Range(<<x>>)
          \/ Len(outbox') = OutboxCap
      BY <2>1, <3>1, AppendedProperties DEF Queue, Types
    <3> QED
      BY <3>2
  <2>2. ASSUME NEW ids \in SUBSET Events, OtherAcks(ids)
        PROVE  e \in persisted'
    <3>1. Range(outbox') = Range(outbox) \ ids
      BY <2>2, WithoutProperties DEF OtherAcks, Types
    <3> QED
      BY <2>2, <3>1 DEF OtherAcks
  <2>3. CASE HandleAck
    <3> DEFINE allowed == Range(Head(requests).events) \cap inFlight
    <3>1. outbox' = Without(outbox, allowed) /\ persisted' = persisted /\ requests # << >>
      BY <2>3 DEF HandleAck
    <3>2. allowed \subseteq persisted
      BY <3>1, AckBacked
    <3> HIDE DEF allowed
    <3>3. Range(outbox') = Range(outbox) \ allowed
      BY <3>1, WithoutProperties DEF Types
    <3> QED
      BY <3>1, <3>2, <3>3
  <2>4. CASE UNCHANGED outbox
    BY <2>4
  <2> QED
    BY <2>1, <2>2, <2>3, <2>4
       DEF Next, Open, OtherPersists, PushPage, PushHeartbeat, Refuse, HandleClose, SeeEof,
           StreamFails, ReadFrame, Ingest, SendAck, SendClose, PutAside, AckAnswered, Return, ControllerFails, Finish, queueVars
<1> QED
  BY <1>1, AlwaysBacked, PTL DEF Spec, NothingLostSilently
-----------------------------------------------------------------------------
(* The order of the pages.  What the Controller has not worked on yet, in  *)
(* the order in which it will.                                             *)
Pages == Seq(Seq(Events))
Unread == aside \o pending \o frames
Current == IF page = << >> THEN << >> ELSE <<page>>

InOrder == pc # "off" => sent = (handled \o Current) \o PagesIn(Unread)

LEMMA UnreadType ==
  ASSUME Types
  PROVE  Unread \in Seq(Frames) /\ PagesIn(Unread) \in Pages /\ Current \in Pages
         /\ handled \o Current \in Pages
<1>1. Unread \in Seq(Frames)
  BY ConcatProperties DEF Types, Unread
<1>2. Current \in Pages
  BY EmptySeq DEF Types, Current, Pages
<1> QED
  BY <1>1, <1>2, PagesInType, ConcatProperties DEF Types, Pages

LEMMA PagesConcat ==
  /\ \A x, y \in Pages : x \o y \in Pages /\ Len(x \o y) = Len(x) + Len(y)
  /\ \A x, y, z \in Pages : (x \o y) \o z = x \o (y \o z)
  /\ \A x \in Pages : x \o << >> = x /\ << >> \o x = x
BY ConcatProperties, ConcatAssociative, ConcatEmptySeq DEF Pages

LEMMA OrderParts ==
  ASSUME Types
  PROVE  FramesInOrder <=> InOrder
<1>1. PagesIn(Unread) = (PagesIn(aside) \o PagesIn(pending)) \o PagesIn(frames)
  <2>1. aside \o pending \in Seq(Frames)
    BY ConcatProperties DEF Types
  <2> QED
    BY <2>1, PagesInConcat DEF Types, Unread
<1> DEFINE h == handled \o Current
           A == PagesIn(aside)
           P == PagesIn(pending)
           F == PagesIn(frames)
<1>2. h \in Pages /\ A \in Pages /\ P \in Pages /\ F \in Pages
  BY UnreadType, PagesInType DEF Types, Pages
<1>3. FramesInOrder <=> (pc # "off" => sent = ((h \o A) \o P) \o F)
  BY DEF FramesInOrder, Current
<1> HIDE DEF h, A, P, F
<1>4. A \o P \in Pages /\ h \o A \in Pages
  BY <1>2, PagesConcat
<1>5. (h \o A) \o P = h \o (A \o P)
  BY <1>2, PagesConcat
<1>6. (h \o (A \o P)) \o F = h \o ((A \o P) \o F)
  BY <1>2, <1>4, PagesConcat
<1>7. InOrder <=> (pc # "off" => sent = h \o ((A \o P) \o F))
  BY <1>1 DEF InOrder, h, A, P, F
<1> QED
  BY <1>3, <1>5, <1>6, <1>7

LEMMA HeadFirst ==
  ASSUME NEW S, NEW s \in Seq(S), s # << >>
  PROVE  s = <<Head(s)>> \o Tail(s)
<1>1. Len(s) \in Nat \ {0} /\ Head(s) = s[1] /\ Head(s) \in S
      /\ Tail(s) \in Seq(S) /\ Len(Tail(s)) = Len(s) - 1
      /\ \A i \in 1..Len(Tail(s)) : Tail(s)[i] = s[i + 1]
  BY EmptySeq, HeadTailProperties
<1>2. <<Head(s)>> \in Seq(S) /\ Len(<<Head(s)>>) = 1 /\ <<Head(s)>>[1] = Head(s)
  BY <1>1
<1> DEFINE t == <<Head(s)>> \o Tail(s)
<1>3. t \in Seq(S) /\ Len(t) = 1 + Len(Tail(s))
      /\ \A i \in 1..(1 + Len(Tail(s))) : t[i] = IF i <= 1 THEN <<Head(s)>>[i] ELSE Tail(s)[i - 1]
  BY <1>1, <1>2, ConcatProperties
<1> HIDE DEF t
<1>4. ASSUME NEW i \in 1..Len(s) PROVE s[i] = t[i]
  <2>1. CASE i = 1
    BY <1>1, <1>2, <1>3, <2>1
  <2>2. CASE i # 1
    <3>1. i \in 1..(1 + Len(Tail(s))) /\ ~(i <= 1) /\ i - 1 \in 1..Len(Tail(s)) /\ (i - 1) + 1 = i
      BY <1>1, <2>2
    <3> QED
      BY <1>1, <1>3, <3>1
  <2> QED
    BY <2>1, <2>2
<1>5. Len(s) = Len(t)
  BY <1>1, <1>3
<1>6. s = t
  BY <1>3, <1>4, <1>5, SeqEqual
<1> QED
  BY <1>6 DEF t

LEMMA PageOfType == \A f \in Frames : PageOf(f) \in Pages
BY FrameTypes, EmptySeq DEF PageOf, Pages

(* A frame is pushed behind the others.                                    *)
LEMMA PushedLast ==
  ASSUME Types, NEW f \in Frames, frames' = Append(frames, f), UNCHANGED <<pending, aside>>
  PROVE  PagesIn(Unread)' = PagesIn(Unread) \o PageOf(f)
<1> DEFINE x == aside \o pending
<1>1. x \in Seq(Frames) /\ frames \in Seq(Frames) /\ <<f>> \in Seq(Frames)
  BY ConcatProperties DEF Types
<1>2. Unread' = x \o (frames \o <<f>>)
  BY AppendIsConcat DEF Unread, Types
<1>3. Unread = x \o frames
  BY DEF Unread
<1> HIDE DEF x
<1>4. Unread' = Unread \o <<f>>
  BY <1>1, <1>2, <1>3, ConcatAssociative
<1>5. PagesIn(Unread') = PagesIn(Unread) \o PagesIn(<<f>>)
  BY <1>1, <1>4, UnreadType, PagesInConcat
<1> QED
  BY <1>5, PagesInOne

(* The next frame is the first of the others.                              *)
LEMMA TakenFirst ==
  ASSUME Types, Types', HasNext, TakeFrame, aside = << >>, aside' = << >>
  PROVE  PagesIn(Unread) = PageOf(NextFrame) \o PagesIn(Unread)'
<1>0. NextFrame \in Frames /\ pending' \in Seq(Frames) /\ frames' \in Seq(Frames)
  BY NextFrameType
<1>1. Unread = pending \o frames /\ Unread' = pending' \o frames'
  BY ConcatEmptySeq DEF Unread, Types
<1>2. <<NextFrame>> \in Seq(Frames)
  BY <1>0
<1>3. Unread = <<NextFrame>> \o Unread'
  <2>1. CASE pending # << >>
    <3>1. pending = <<NextFrame>> \o pending' /\ frames' = frames
      BY <2>1, HeadFirst DEF Types, NextFrame, TakeFrame
    <3> QED
      BY <1>0, <1>1, <1>2, <3>1, ConcatAssociative
  <2>2. CASE pending = << >>
    <3>1. frames = <<NextFrame>> \o frames' /\ pending' = << >>
      BY <2>2, HeadFirst DEF Types, NextFrame, TakeFrame, HasNext
    <3>2. Unread = frames /\ Unread' = frames'
      BY <1>0, <1>1, <2>2, <3>1, ConcatEmptySeq DEF Types
    <3> QED
      BY <3>1, <3>2
  <2> QED
    BY <2>1, <2>2
<1>4. Unread' \in Seq(Frames)
  BY <1>0, <1>1, ConcatProperties
<1>5. PagesIn(Unread) = PagesIn(<<NextFrame>>) \o PagesIn(Unread')
  BY <1>2, <1>3, <1>4, PagesInConcat
<1> QED
  BY <1>0, <1>5, PagesInOne

(* A frame put aside keeps its place.                                      *)
LEMMA PutAsideSame ==
  ASSUME Types, HasNext, TakeFrame, aside' = Append(aside, NextFrame)
  PROVE  Unread' = Unread
<1>0. NextFrame \in Frames /\ pending' \in Seq(Frames) /\ frames' \in Seq(Frames)
      /\ <<NextFrame>> \in Seq(Frames) /\ aside \in Seq(Frames) /\ pending \in Seq(Frames)
      /\ frames \in Seq(Frames)
  BY NextFrameType DEF Types
<1>1. aside' = aside \o <<NextFrame>> /\ aside' \in Seq(Frames)
  BY <1>0, AppendIsConcat, AppendProperties
<1>2. CASE pending # << >>
  <2>1. pending = <<NextFrame>> \o pending' /\ frames' = frames
    BY <1>0, <1>2, HeadFirst DEF NextFrame, TakeFrame
  <2>2. aside' \o pending' = aside \o pending
    BY <1>0, <1>1, <2>1, ConcatAssociative
  <2> QED
    BY <2>1, <2>2 DEF Unread
<1>3. CASE pending = << >>
  <2>1. frames = <<NextFrame>> \o frames' /\ pending' = << >>
    BY <1>0, <1>3, HeadFirst DEF NextFrame, TakeFrame, HasNext
  <2>2. Unread = aside \o frames /\ Unread' = aside' \o frames'
    BY <1>0, <1>1, <1>3, <2>1, ConcatEmptySeq DEF Unread
  <2> QED
    BY <1>0, <1>1, <2>1, <2>2, ConcatAssociative
<1> QED
  BY <1>2, <1>3

(* The answer is taken from between the frames put aside and the others.   *)
LEMMA AnswerTaken ==
  ASSUME Types, Types', pending = << >>, frames # << >>, Head(frames).kind = "acked",
         frames' = Tail(frames), pending' = pending \o aside, aside' = << >>
  PROVE  PagesIn(Unread)' = PagesIn(Unread)
<1>0. aside \in Seq(Frames) /\ frames \in Seq(Frames) /\ frames' \in Seq(Frames)
      /\ Head(frames) \in Frames /\ <<Head(frames)>> \in Seq(Frames)
  BY HeadTailProperties DEF Types
<1>1. frames = <<Head(frames)>> \o frames'
  BY <1>0, HeadFirst
<1>2. Unread = aside \o frames /\ Unread' = aside \o frames'
  BY <1>0, ConcatEmptySeq DEF Unread
<1>3. PagesIn(frames) = PagesIn(<<Head(frames)>>) \o PagesIn(frames')
  BY <1>0, <1>1, PagesInConcat
<1>4. PagesIn(<<Head(frames)>>) = << >>
  BY <1>0, PagesInOne DEF PageOf
<1>5. PagesIn(frames) = PagesIn(frames')
  BY <1>0, <1>3, <1>4, PagesInType, ConcatEmptySeq
<1>6. PagesIn(Unread) = PagesIn(aside) \o PagesIn(frames) /\ PagesIn(Unread') = PagesIn(aside) \o PagesIn(frames')
  BY <1>0, <1>2, PagesInConcat
<1> QED
  BY <1>5, <1>6

-----------------------------------------------------------------------------
(* What a step does to the pages.  Done: handled, or being worked on.      *)
Done == handled \o Current

PagesStay ==
  /\ PagesIn(Unread)' = PagesIn(Unread) /\ Done' = Done
  /\ UNCHANGED sent
  /\ pc' # "off" => pc # "off"

PagePushed ==
  LET p == StreamPage(Available) IN
  /\ PagesIn(Unread)' = PagesIn(Unread) \o <<p>> /\ Done' = Done
  /\ sent' = Append(sent, p)
  /\ UNCHANGED pc

PageTaken ==
  \E p \in Seq(Events) :
    /\ PagesIn(Unread) = <<p>> \o PagesIn(Unread)' /\ Done' = Done \o <<p>>
    /\ UNCHANGED sent
    /\ pc # "off"

NoPages ==
  /\ PagesIn(Unread)' = << >> /\ Done' = << >> /\ sent' = << >>

LEMMA DoneType == Types => Done \in Pages
BY UnreadType DEF Done

LEMMA NextTypesOfPages ==
  ASSUME Types'
  PROVE  Done' \in Pages /\ PagesIn(Unread)' \in Pages
<1>1. /\ aside' \in Seq(Frames) /\ pending' \in Seq(Frames) /\ frames' \in Seq(Frames)
      /\ handled' \in Pages /\ page' \in Seq(Events)
  BY DEF Types, Pages
<1>2. aside' \o pending' \o frames' \in Seq(Frames)
  BY <1>1, ConcatProperties
<1>3. PagesIn(aside' \o pending' \o frames') \in Pages
  BY <1>2, PagesInType DEF Pages
<1>4. Current' \in Pages
  BY <1>1, EmptySeq DEF Current, Pages
<1>5. Done' \in Pages
  BY <1>1, <1>4, PagesConcat DEF Done
<1> QED
  BY <1>3, <1>5 DEF Unread

LEMMA StayUnread ==
  ASSUME UNCHANGED <<aside, pending, frames, page, handled, sent>>, pc' # "off" => pc # "off"
  PROVE  PagesStay
BY DEF PagesStay, Unread, Done, Current

LEMMA AgentPages ==
  ASSUME Types, Protocol,
         PushPage \/ PushHeartbeat \/ HandleAck \/ Refuse \/ HandleClose \/ SeeEof \/ StreamFails
  PROVE  (PagesStay /\ ~PushPage) \/ (PagePushed /\ PushPage)
<1>1. CASE PushPage
  <2> DEFINE p == StreamPage(Available)
  <2>1. p \in Seq(Events)
    BY AvailableType, StreamPageProperties DEF Types
  <2>2. Frame("page", p) \in Frames /\ PageOf(Frame("page", p)) = <<p>>
    BY <2>1, FrameTypes DEF Frame, PageOf
  <2>3. /\ frames' = Append(frames, Frame("page", p)) /\ sent' = Append(sent, p)
        /\ UNCHANGED <<pending, aside, page, handled, pc>>
    BY <1>1 DEF PushPage, clientVars
  <2>4. PagesIn(Unread)' = PagesIn(Unread) \o <<p>>
    <3> HIDE DEF p
    <3> QED
      BY <2>2, <2>3, PushedLast
  <2>5. Done' = Done
    BY <2>3 DEF Done, Current
  <2> QED
    BY <1>1, <2>3, <2>4, <2>5 DEF PagePushed
<1>2. CASE ~PushPage /\ (PushHeartbeat \/ HandleAck \/ Refuse \/ HandleClose)
  <2>1. /\ \E k \in {"heartbeat", "acked", "refused", "closed"} : frames' = Append(frames, Frame(k, << >>))
        /\ UNCHANGED <<pending, aside, page, handled, sent, pc>>
    BY <1>2 DEF PushHeartbeat, HandleAck, Refuse, HandleClose, clientVars
  <2>2. PICK k \in {"heartbeat", "acked", "refused", "closed"} : frames' = Append(frames, Frame(k, << >>))
    BY <2>1
  <2>3. Frame(k, << >>) \in Frames /\ PageOf(Frame(k, << >>)) = << >>
    BY FrameTypes DEF Frame, PageOf
  <2>4. PagesIn(Unread)' = PagesIn(Unread) \o << >>
    BY <2>1, <2>2, <2>3, PushedLast
  <2>5. PagesIn(Unread)' = PagesIn(Unread)
    BY <2>4, UnreadType, PagesConcat
  <2>6. Done' = Done
    BY <2>1 DEF Done, Current
  <2> QED
    BY <1>2, <2>1, <2>5, <2>6 DEF PagesStay
<1>3. CASE ~PushPage /\ (SeeEof \/ StreamFails)
  BY <1>3, StayUnread DEF SeeEof, StreamFails, clientVars
<1> QED
  BY <1>1, <1>2, <1>3

LEMMA ControllerPages ==
  ASSUME Types, Types', Protocol,
         \/ ReadFrame \/ Ingest \/ SendAck \/ SendClose
         \/ PutAside \/ AckAnswered \/ Return \/ ControllerFails
  PROVE  PagesStay \/ PageTaken \/ pc' = "off"
<1>1. CASE ReadFrame
  <2>1. /\ pc = "reading" /\ HasNext /\ TakeFrame /\ UNCHANGED <<aside, handled, sent>>
        /\ \/ NextFrame.kind = "page" /\ pc' = "ingesting" /\ page' = NextFrame.events
           \/ NextFrame.kind = "heartbeat" /\ UNCHANGED <<pc, page>>
    BY <1>1 DEF ReadFrame
  <2>2. aside = << >> /\ page = << >>
    BY <2>1 DEF Protocol
  <2>3. PagesIn(Unread) = PageOf(NextFrame) \o PagesIn(Unread)'
    BY <2>1, <2>2, TakenFirst
  <2>4. CASE NextFrame.kind = "page"
    <3>1. NextFrame.events \in Seq(Events) /\ NextFrame.events # << >>
      BY <2>1, <2>4, NextFrameType, FrameTypes, NextFrameProtocol
    <3>2. page' = NextFrame.events
      BY <2>1, <2>4
    <3>3. Done = handled \o << >> /\ Done' = handled \o <<NextFrame.events>>
      BY <2>1, <2>2, <3>1, <3>2 DEF Done, Current
    <3>4. Done = handled
      BY <3>3, PagesConcat DEF Types, Pages
    <3>5. PagesIn(Unread) = <<NextFrame.events>> \o PagesIn(Unread)'
      BY <2>3, <2>4 DEF PageOf
    <3> QED
      BY <2>1, <3>1, <3>3, <3>4, <3>5 DEF PageTaken
  <2>5. CASE NextFrame.kind = "heartbeat"
    <3>1. PagesIn(Unread) = << >> \o PagesIn(Unread)'
      BY <2>3, <2>5 DEF PageOf
    <3>2. PagesIn(Unread)' \in Pages
      BY NextTypesOfPages
    <3>3. PagesIn(Unread)' = PagesIn(Unread)
      BY <3>1, <3>2, PagesConcat
    <3>4. Done' = Done
      BY <2>1, <2>5 DEF Done, Current
    <3> QED
      BY <2>1, <3>3, <3>4 DEF PagesStay
  <2> QED
    BY <2>1, <2>4, <2>5
<1>2. CASE Ingest \/ SendAck \/ SendClose
  BY <1>2, StayUnread DEF Ingest, SendAck, SendClose
<1>3. CASE PutAside
  <2>1. /\ HasNext /\ TakeFrame /\ aside' = Append(aside, NextFrame)
        /\ UNCHANGED <<pc, page, handled, sent>>
    BY <1>3 DEF PutAside
  <2>2. Unread' = Unread
    BY <2>1, PutAsideSame
  <2>3. Done' = Done
    BY <2>1 DEF Done, Current
  <2> QED
    BY <2>1, <2>2, <2>3 DEF PagesStay
<1>4. CASE AckAnswered
  <2>1. /\ pc = "acking" /\ HasNext /\ NextFrame.kind = "acked" /\ frames' = Tail(frames)
        /\ pending' = pending \o aside /\ aside' = << >> /\ pc' = "reading" /\ page' = << >>
        /\ handled' = Append(handled, page) /\ UNCHANGED sent
    BY <1>4 DEF AckAnswered
  <2>2. pending = << >> /\ frames # << >> /\ NextFrame = Head(frames)
    BY <2>1, AnswerIsNext
  <2>3. PagesIn(Unread)' = PagesIn(Unread)
    BY <2>1, <2>2, AnswerTaken
  <2>4. page # << >>
    BY <2>1 DEF Protocol
  <2>5. Done = handled \o <<page>> /\ Done' = handled' \o << >>
    BY <2>1, <2>4 DEF Done, Current
  <2>6. handled' = handled \o <<page>> /\ handled' \in Pages
    BY <2>1, AppendIsConcat DEF Types, Pages
  <2>7. Done' = Done
    BY <2>5, <2>6, PagesConcat
  <2> QED
    BY <2>1, <2>3, <2>7 DEF PagesStay
<1>5. CASE Return \/ ControllerFails
  BY <1>5 DEF Return, ControllerFails, Finish
<1> QED
  BY <1>1, <1>2, <1>3, <1>4, <1>5

LEMMA OtherPages ==
  /\ (\E e \in Events : Queue(e)) => PagesStay
  /\ OtherPass => PagesStay
  /\ Open => NoPages
<1>1. (\E e \in Events : Queue(e)) => PagesStay
  BY StayUnread DEF Queue, clientVars
<1>2. OtherPass => PagesStay
  BY StayUnread DEF OtherPass, OtherPersists, OtherAcks, clientVars
<1>3. ASSUME Open PROVE NoPages
  <2>1. /\ aside' = << >> /\ pending' = << >> /\ frames' = << >> /\ page' = << >>
        /\ handled' = << >> /\ sent' = << >>
    BY <1>3 DEF Open
  <2>2. Unread' = << >> /\ Current' = << >>
    BY <2>1 DEF Unread, Current
  <2>3. Done' = << >>
    BY <2>1, <2>2 DEF Done
  <2> QED
    BY <2>1, <2>2, <2>3, PagesInEmpty DEF NoPages
<1> QED
  BY <1>1, <1>2, <1>3

LEMMA OrderStep == TypesAndProtocol /\ InOrder /\ [Next]_vars => InOrder'
<1> SUFFICES ASSUME TypesAndProtocol, InOrder, [Next]_vars PROVE InOrder'
  OBVIOUS
<1>1. Types /\ Protocol /\ Types'
  BY NextTypes DEF TypesAndProtocol
<1>2. /\ Done \in Pages /\ Done' \in Pages /\ PagesIn(Unread) \in Pages
      /\ PagesIn(Unread)' \in Pages /\ sent \in Pages
  BY <1>1, DoneType, UnreadType, NextTypesOfPages DEF Types, Pages
<1>3. /\ InOrder <=> (pc # "off" => sent = Done \o PagesIn(Unread))
      /\ InOrder' <=> (pc' # "off" => sent' = Done' \o PagesIn(Unread)')
  BY DEF InOrder, Done
<1>4. CASE PagesStay
  BY <1>3, <1>4 DEF PagesStay
<1>5. CASE PagePushed
  <2> DEFINE p == StreamPage(Available)
  <2>1. p \in Seq(Events)
    BY <1>1, AvailableType, StreamPageProperties DEF Types
  <2>2. /\ PagesIn(Unread)' = PagesIn(Unread) \o <<p>> /\ Done' = Done
        /\ sent' = Append(sent, p) /\ UNCHANGED pc
    BY <1>5 DEF PagePushed
  <2> HIDE DEF p
  <2>3. <<p>> \in Pages
    BY <2>1 DEF Pages
  <2>4. sent' = sent \o <<p>>
    BY <1>2, <2>1, <2>2, AppendIsConcat DEF Pages
  <2>5. (Done \o PagesIn(Unread)) \o <<p>> = Done \o (PagesIn(Unread) \o <<p>>)
    BY <1>2, <2>3, PagesConcat
  <2> QED
    BY <1>3, <2>2, <2>4, <2>5
<1>6. CASE PageTaken
  <2>1. PICK p \in Seq(Events) :
          /\ PagesIn(Unread) = <<p>> \o PagesIn(Unread)' /\ Done' = Done \o <<p>>
          /\ UNCHANGED sent /\ pc # "off"
    BY <1>6 DEF PageTaken
  <2>2. <<p>> \in Pages
    BY DEF Pages
  <2>3. (Done \o <<p>>) \o PagesIn(Unread)' = Done \o (<<p>> \o PagesIn(Unread)')
    BY <1>2, <2>2, PagesConcat
  <2> QED
    BY <1>3, <2>1, <2>3
<1>7. CASE pc' = "off"
  BY <1>3, <1>7
<1>8. CASE NoPages
  <2>1. << >> \o << >> = << >>
    OBVIOUS
  <2> QED
    BY <1>3, <1>8, <2>1 DEF NoPages
<1>9. CASE UNCHANGED vars
  BY <1>9 DEF vars, clientVars, InOrder, Current, Unread
<1> QED
  BY <1>1, <1>4, <1>5, <1>6, <1>7, <1>8, <1>9, AgentPages, ControllerPages, OtherPages
     DEF Next, OtherPass

LEMMA AlwaysInOrder == Spec => [](TypesAndProtocol /\ InOrder)
<1>1. Init => InOrder
  BY DEF Init, InOrder
<1> QED
  BY <1>1, OrderStep, InitTypes, NextTypes, PTL DEF Spec

(* The client loses, repeats and reorders no page, however pages and       *)
(* answers cross on the connection: what the Controller has handled, works *)
(* on, has put aside and has not read are the pages the Agent pushed.      *)
THEOREM PagesInSequence == Spec => []FramesInOrder
<1>1. TypesAndProtocol /\ InOrder => FramesInOrder
  BY OrderParts DEF TypesAndProtocol
<1> QED
  BY <1>1, AlwaysInOrder, PTL
-----------------------------------------------------------------------------
(* The window.  No event is sent twice on a stream, and a page that is not *)
(* worked on yet is in flight whole.                                       *)
SentOnce ==
  /\ \A i \in DOMAIN sent : Range(sent[i]) \subseteq sentIds
  /\ \A i, j \in DOMAIN sent : i # j => Range(sent[i]) \cap Range(sent[j]) = {}

UnreadInFlight ==
  serving /\ pc # "off" => \A p \in Range(PagesIn(Unread)) : Range(p) \subseteq inFlight

LEMMA SentOnceStep == Types /\ SentOnce /\ [Next]_vars => SentOnce'
<1> SUFFICES ASSUME Types, SentOnce, [Next]_vars PROVE SentOnce'
  OBVIOUS
<1>1. CASE UNCHANGED <<sent, sentIds>>
  BY <1>1 DEF SentOnce
<1>2. CASE Open
  BY <1>2 DEF Open, SentOnce
<1>3. CASE PushPage
  <2> DEFINE p == StreamPage(Available)
  <2>1. p \in Seq(Events) /\ Range(p) \cap sentIds = {}
    BY AvailableType, StreamPageProperties DEF Types
  <2>2. sent' = Append(sent, p) /\ sentIds' = sentIds \cup Range(p)
    BY <1>3 DEF PushPage
  <2> HIDE DEF p
  <2>3. /\ Len(sent) \in Nat /\ DOMAIN sent = 1..Len(sent)
        /\ DOMAIN sent' = 1..(Len(sent) + 1)
        /\ \A i \in 1..Len(sent) : sent'[i] = sent[i]
        /\ sent'[Len(sent) + 1] = p
    BY <2>1, <2>2, LenProperties, AppendProperties DEF Types
  <2>4. \A i \in 1..(Len(sent) + 1) : i \in 1..Len(sent) \/ i = Len(sent) + 1
    BY <2>3
  <2> QED
    BY <2>1, <2>2, <2>3, <2>4 DEF SentOnce
<1> QED
  BY <1>1, <1>2, <1>3
     DEF Next, vars, Queue, OtherPersists, OtherAcks, PushHeartbeat, HandleAck, Refuse, HandleClose, SeeEof,
         StreamFails, ReadFrame, Ingest, SendAck, SendClose, PutAside, AckAnswered, Return,
         ControllerFails, Finish, agentVars

LEMMA RangeOfConcat ==
  \A x, y \in Pages : Range(x \o y) = Range(x) \cup Range(y)
BY RangeConcatenation DEF Pages

LEMMA RangeOfOne == \A p : Range(<<p>>) = {p}
BY DEF Range

(* An acknowledgement takes nothing from the window but its own page.      *)
LEMMA AckKeepsUnread ==
  ASSUME Types, Protocol, InOrder, SentOnce, HandleAck, pc # "off"
  PROVE  \A p \in Range(PagesIn(Unread)) : Range(p) \cap Range(Head(requests).events) = {}
<1>1. pc = "acking" /\ Head(requests).events = page /\ page # << >>
  <2>1. requests # << >> /\ Head(requests).kind = "ack"
    BY DEF HandleAck
  <2>2. pc \in PCs
    BY DEF Types
  <2> QED
    BY <2>1, <2>2 DEF Protocol, PCs
<1> DEFINE U == PagesIn(Unread)
<1>2. handled \in Pages /\ U \in Pages /\ <<page>> \in Pages
  BY UnreadType DEF Types, Pages
<1>3. sent = (handled \o <<page>>) \o U
  BY <1>1 DEF InOrder, Current
<1> HIDE DEF U
<1>4. /\ Len(handled) \in Nat /\ Len(U) \in Nat /\ DOMAIN U = 1..Len(U)
      /\ handled \o <<page>> \in Pages /\ Len(handled \o <<page>>) = Len(handled) + 1
      /\ (handled \o <<page>>)[Len(handled) + 1] = page
  BY <1>2, LenProperties, AppendProperties, AppendIsConcat DEF Pages
<1>5. /\ sent \in Pages /\ Len(sent) = Len(handled) + 1 + Len(U)
      /\ \A i \in 1..(Len(handled) + 1 + Len(U)) :
           sent[i] = IF i <= Len(handled) + 1 THEN (handled \o <<page>>)[i] ELSE U[i - (Len(handled) + 1)]
  BY <1>2, <1>3, <1>4, ConcatProperties DEF Pages
<1>6. DOMAIN sent = 1..(Len(handled) + 1 + Len(U))
  BY <1>5, LenProperties DEF Pages
<1>7. ASSUME NEW k \in 1..Len(U)
      PROVE  Range(U[k]) \cap Range(page) = {}
  <2> DEFINE m == Len(handled) + 1
             n == Len(handled) + 1 + k
  <2>1. /\ m \in 1..(Len(handled) + 1 + Len(U)) /\ n \in 1..(Len(handled) + 1 + Len(U)) /\ m # n
        /\ m <= Len(handled) + 1 /\ ~(n <= Len(handled) + 1) /\ n - (Len(handled) + 1) = k
    BY <1>4
  <2>2. sent[m] = page /\ sent[n] = U[k]
    BY <1>4, <1>5, <2>1
  <2> HIDE DEF m, n
  <2> QED
    BY <1>6, <2>1, <2>2 DEF SentOnce
<1>8. \A p \in Range(U) : \E k \in 1..Len(U) : U[k] = p
  BY <1>4 DEF Range
<1> QED
  BY <1>1, <1>7, <1>8 DEF U

LEMMA UnreadStep ==
  TypesAndProtocol /\ InOrder /\ SentOnce /\ UnreadInFlight /\ [Next]_vars => UnreadInFlight'
<1> SUFFICES ASSUME TypesAndProtocol, InOrder, SentOnce, UnreadInFlight, [Next]_vars,
                    serving', pc' # "off"
             PROVE  \A p \in Range(PagesIn(Unread)') : Range(p) \subseteq inFlight'
  BY DEF UnreadInFlight
<1>1. Types /\ Protocol /\ Types'
  BY NextTypes DEF TypesAndProtocol
<1>2. PagesIn(Unread) \in Pages /\ PagesIn(Unread)' \in Pages
  BY <1>1, UnreadType, NextTypesOfPages
<1>3. ASSUME serving, pc # "off", Range(PagesIn(Unread)') \subseteq Range(PagesIn(Unread)),
             inFlight' = inFlight
      PROVE  \A p \in Range(PagesIn(Unread)') : Range(p) \subseteq inFlight'
  BY <1>3 DEF UnreadInFlight
<1>4. CASE UNCHANGED vars
  BY <1>3, <1>4 DEF vars, clientVars, agentVars, Unread
<1>5. CASE (\E e \in Events : Queue(e)) \/ OtherPass
  <2>1. UNCHANGED <<serving, inFlight, pc, aside, pending, frames>>
    BY <1>5 DEF Queue, OtherPass, OtherPersists, OtherAcks, agentVars, clientVars
  <2> QED
    BY <1>3, <2>1 DEF Unread
<1>6. CASE Open
  <2>1. PagesIn(Unread)' = << >>
    BY <1>6, OtherPages DEF NoPages
  <2> QED
    BY <2>1, RangeOfNone
<1>7. CASE PushPage
  <2> DEFINE p == StreamPage(Available)
  <2>1. PagesIn(Unread)' = PagesIn(Unread) \o <<p>> /\ pc' = pc
    BY <1>1, <1>7, AgentPages DEF PagePushed
  <2>2. serving /\ inFlight' = inFlight \cup Range(p)
    BY <1>7 DEF PushPage, CanWrite
  <2>5. p \in Seq(Events)
    BY <1>1, AvailableType, StreamPageProperties DEF Types
  <2> HIDE DEF p
  <2>3. <<p>> \in Pages
    BY <2>5 DEF Pages
  <2>4. Range(PagesIn(Unread)') = Range(PagesIn(Unread)) \cup {p}
    BY <1>2, <2>1, <2>3, RangeOfConcat, RangeOfOne
  <2> QED
    BY <2>1, <2>2, <2>4 DEF UnreadInFlight
<1>8. CASE HandleAck
  <2>1. serving /\ pc' = pc /\ inFlight' = inFlight \ (Range(Head(requests).events) \cap inFlight)
    BY <1>8 DEF HandleAck, CanWrite, clientVars
  <2>2. ~PushPage
    <3>1. sent' = sent
      BY <1>8 DEF HandleAck
    <3> SUFFICES ASSUME PushPage PROVE FALSE
      OBVIOUS
    <3>2. sent' = Append(sent, StreamPage(Available))
      BY DEF PushPage
    <3>3. Len(sent') = Len(sent) + 1 /\ Len(sent) \in Nat
      BY <1>1, <3>2, AvailableType, StreamPageProperties, AppendProperties, LenProperties DEF Types
    <3> QED
      BY <3>1, <3>3
  <2>3. PagesIn(Unread)' = PagesIn(Unread)
    BY <1>1, <1>8, <2>2, AgentPages DEF PagesStay
  <2>4. \A p \in Range(PagesIn(Unread)) : Range(p) \cap Range(Head(requests).events) = {}
    BY <1>1, <1>8, <2>1, AckKeepsUnread
  <2> QED
    BY <2>1, <2>3, <2>4 DEF UnreadInFlight
<1>9. CASE ~PushPage /\ (PushHeartbeat \/ Refuse)
  <2>1. PagesStay
    BY <1>1, <1>9, AgentPages
  <2>2. serving /\ inFlight' = inFlight /\ pc' = pc
    BY <1>9 DEF PushHeartbeat, Refuse, CanWrite, agentVars, clientVars
  <2> QED
    BY <1>3, <2>1, <2>2 DEF PagesStay
<1>10. CASE HandleClose \/ SeeEof \/ StreamFails
  <2>1. ~serving'
    BY <1>10 DEF HandleClose, SeeEof, StreamFails
  <2> QED
    BY <2>1
<1>11. CASE \/ ReadFrame \/ Ingest \/ SendAck \/ SendClose
            \/ PutAside \/ AckAnswered \/ Return \/ ControllerFails
  <2>1. PagesStay \/ PageTaken
    BY <1>1, <1>11, ControllerPages
  <2>2. serving' = serving /\ inFlight' = inFlight
    BY <1>11 DEF ReadFrame, Ingest, SendAck, SendClose, PutAside, AckAnswered, Return,
                 ControllerFails, Finish, agentVars
  <2>3. CASE PagesStay
    BY <1>3, <2>2, <2>3 DEF PagesStay
  <2>4. CASE PageTaken
    <3>1. PICK p \in Seq(Events) : PagesIn(Unread) = <<p>> \o PagesIn(Unread)' /\ pc # "off"
      BY <2>4 DEF PageTaken
    <3>2. <<p>> \in Pages
      BY DEF Pages
    <3>3. Range(PagesIn(Unread)') \subseteq Range(PagesIn(Unread))
      BY <1>2, <3>1, <3>2, RangeOfConcat
    <3> QED
      BY <1>3, <2>2, <3>1, <3>3
  <2> QED
    BY <2>1, <2>3, <2>4
<1> QED
  BY <1>4, <1>5, <1>6, <1>7, <1>8, <1>9, <1>10, <1>11 DEF Next, OtherPass

LEMMA AlwaysWindow == Spec => [](TypesAndProtocol /\ InOrder /\ SentOnce /\ UnreadInFlight)
<1>1. Init => InOrder /\ SentOnce /\ UnreadInFlight
  BY DEF Init, InOrder, SentOnce, UnreadInFlight
<1>2. TypesAndProtocol => Types
  BY DEF TypesAndProtocol
<1> QED
  BY <1>1, <1>2, OrderStep, SentOnceStep, UnreadStep, InitTypes, NextTypes, PTL DEF Spec

(* The window is never exceeded, it counts every page the Controller has   *)
(* still to work on, and no event is sent twice on a stream.               *)
THEOREM WindowKept == Spec => []WindowHolds
<1>1. TypesAndProtocol /\ SentOnce /\ UnreadInFlight => WindowHolds
  <2> SUFFICES ASSUME Types, SentOnce, UnreadInFlight PROVE WindowHolds
    BY DEF TypesAndProtocol
  <2>1. Cardinality(inFlight) <= MaxInFlight
    BY DEF Types
  <2>2. serving /\ pc # "off" =>
          \A p \in Range(PagesIn(aside \o pending \o frames)) : Range(p) \subseteq inFlight
    BY DEF UnreadInFlight, Unread
  <2>3. \A i, j \in DOMAIN sent : i # j => Range(sent[i]) \cap Range(sent[j]) = {}
    BY DEF SentOnce
  <2> QED
    BY <2>1, <2>2, <2>3 DEF WindowHolds
<1> QED
  BY <1>1, AlwaysWindow, PTL
-----------------------------------------------------------------------------
(* The stream as a bounded at-least-once log.  What the log delivers it    *)
(* must have accepted, so the invariant follows the events from the queue  *)
(* to the pages; and the queue holds each once, so that a queue that is    *)
(* full holds as many events as the log may.                               *)
Accepted ==
  /\ NoDuplicates(outbox) /\ Len(outbox) <= OutboxCap
  /\ Range(outbox) \subseteq emitted
  /\ \A i \in DOMAIN sent : Range(sent[i]) \subseteq emitted

(* The page in hand is one of those that were sent.                        *)
LEMMA PageInHandWasSent ==
  ASSUME Types, InOrder, Accepted, pc # "off"
  PROVE  Range(page) \subseteq emitted
<1>1. CASE page = << >>
  BY <1>1, RangeOfNone
<1>2. CASE page # << >>
  <2>1. /\ handled \in Pages /\ <<page>> \in Pages /\ PagesIn(Unread) \in Pages
        /\ sent = (handled \o <<page>>) \o PagesIn(Unread)
    BY <1>2, UnreadType DEF Types, InOrder, Current, Pages
  <2>2. handled \o <<page>> \in Pages
    BY <2>1, PagesConcat
  <2>3. Range(sent) = (Range(handled) \cup Range(<<page>>)) \cup Range(PagesIn(Unread))
    BY <2>1, <2>2, RangeOfConcat
  <2>4. page \in Range(sent)
    BY <2>3, RangeOfOne
  <2>5. \E i \in DOMAIN sent : sent[i] = page
    BY <2>4 DEF Range
  <2> QED
    BY <2>5 DEF Accepted
<1> QED
  BY <1>1, <1>2

LEMMA AcceptedStep == Types /\ Accepted /\ [Next]_vars => Accepted'
<1> SUFFICES ASSUME Types, Accepted, [Next]_vars PROVE Accepted'
  OBVIOUS
<1>1. CASE UNCHANGED <<outbox, emitted, sent>>
  BY <1>1 DEF Accepted
<1>2. ASSUME NEW e \in Events, Queue(e)
      PROVE  Accepted'
  <2>1. <<e>> \in Seq(Events) /\ Range(<<e>>) = {e}
    BY DEF Range
  <2>2. /\ Len(outbox') \in 0..OutboxCap /\ Range(outbox') \subseteq Range(outbox) \cup {e}
        /\ NoDuplicates(outbox')
    BY <1>2, <2>1, AppendedProperties DEF Queue, Types, Accepted
  <2>3. Len(outbox') <= OutboxCap
    BY <2>2, OutboxCapAssumption
  <2>4. emitted' = emitted \cup {e} /\ sent' = sent
    BY <1>2 DEF Queue
  <2> QED
    BY <2>2, <2>3, <2>4 DEF Accepted
<1>3. ASSUME NEW ids, outbox' = Without(outbox, ids), UNCHANGED <<emitted, sent>>
      PROVE  Accepted'
  <2>1. /\ Range(outbox') \subseteq Range(outbox) /\ NoDuplicates(outbox') /\ Len(outbox') <= Len(outbox)
        /\ Len(outbox') \in Nat /\ Len(outbox) \in Nat
    BY <1>3, WithoutProperties, LenProperties DEF Types, Accepted
  <2>2. Len(outbox') <= OutboxCap
    BY <2>1, OutboxCapAssumption DEF Accepted
  <2> QED
    BY <1>3, <2>1, <2>2 DEF Accepted
<1>4. CASE Open
  <2>1. UNCHANGED <<outbox, emitted>> /\ sent' = << >>
    BY <1>4 DEF Open, queueVars
  <2> QED
    BY <2>1 DEF Accepted
<1>5. CASE PushPage
  <2> DEFINE p == StreamPage(Available)
  <2>1. p \in Seq(Events) /\ Range(p) \subseteq Range(outbox)
    BY AvailableType, StreamPageProperties DEF Types
  <2>2. sent' = Append(sent, p) /\ UNCHANGED <<outbox, emitted>>
    BY <1>5 DEF PushPage, queueVars
  <2> HIDE DEF p
  <2>3. /\ DOMAIN sent' = 1..(Len(sent) + 1) /\ Len(sent) \in Nat
        /\ \A i \in 1..Len(sent) : sent'[i] = sent[i] /\ i \in DOMAIN sent
        /\ sent'[Len(sent) + 1] = p
    BY <2>1, <2>2, LenProperties, AppendProperties DEF Types
  <2>4. \A i \in 1..(Len(sent) + 1) : i \in 1..Len(sent) \/ i = Len(sent) + 1
    BY <2>3
  <2>5. \A i \in DOMAIN sent' : Range(sent'[i]) \subseteq emitted
    BY <2>1, <2>3, <2>4 DEF Accepted
  <2> QED
    BY <2>2, <2>5 DEF Accepted
<1>6. CASE (\E ids \in SUBSET Events : OtherAcks(ids)) \/ HandleAck
  BY <1>3, <1>6 DEF OtherAcks, HandleAck
<1> QED
  BY <1>1, <1>2, <1>4, <1>5, <1>6
     DEF Next, vars, queueVars, OtherPersists, PushHeartbeat, Refuse, HandleClose, SeeEof, StreamFails,
         ReadFrame, Ingest, SendAck, SendClose, PutAside, AckAnswered, Return, ControllerFails, Finish

LEMMA AlwaysAccepted == Spec => [](TypesAndProtocol /\ Backed /\ InOrder /\ Accepted)
<1>1. Init => Backed /\ InOrder /\ Accepted
  BY RangeOfNone, OutboxCapAssumption DEF Init, Backed, InOrder, Accepted, NoDuplicates
<1>2. TypesAndProtocol => Types
  BY DEF TypesAndProtocol
<1> QED
  BY <1>1, <1>2, BackedStep, OrderStep, AcceptedStep, InitTypes, NextTypes, PTL DEF Spec

(* One step of the stream is one step of the log or none.                  *)
LEMMA LogStep ==
  ASSUME Types, Backed, InOrder, Accepted, Accepted', Types', [Next]_vars
  PROVE  [Log!Next]_(Log!vars)
<1>1. CASE UNCHANGED <<outbox, emitted, evicted, persisted>>
  BY <1>1 DEF Log!vars
<1>2. ASSUME NEW e \in Events, Queue(e)
      PROVE  Log!Next
  <2> DEFINE D == (Range(outbox) \cup {e}) \ Range(outbox')
  <2>1. <<e>> \in Seq(Events) /\ Range(<<e>>) = {e}
    BY DEF Range
  <2>2. /\ Range(outbox') \subseteq Range(outbox) \cup {e}
        /\ Range(outbox') = Range(outbox) \cup {e} \/ Len(outbox') = OutboxCap
    BY <1>2, <2>1, AppendedProperties DEF Queue, Types
  <2>3. emitted' = emitted \cup {e} /\ persisted' = persisted /\ evicted' = evicted \cup D
    BY <1>2 DEF Queue
  <2>4. Cardinality(Range(outbox')) = Len(outbox') /\ Len(outbox') <= OutboxCap
    BY QueueCardinality DEF Types, Accepted
  <2>5. {e} \in SUBSET Events /\ D \in SUBSET Events
    BY RangeOfSeq DEF Types
  <2>6. Range(outbox') = (Range(outbox) \cup {e}) \ D /\ D \subseteq Range(outbox) \cup {e}
    BY <2>2
  <2>7. D # {} => Cardinality(Range(outbox')) = OutboxCap
    BY <2>2, <2>4
  <2>8. Cardinality(Range(outbox')) <= OutboxCap
    BY <2>4
  <2> HIDE DEF D
  <2>9. Log!Emit({e}, D)
    BY <2>3, <2>6, <2>7, <2>8 DEF Log!Emit, Log!Cardinality, Cardinality
  <2> QED
    BY <2>5, <2>9 DEF Log!Next
<1>3. ASSUME NEW E, E \subseteq emitted, persisted' = persisted \cup E,
             UNCHANGED <<outbox, emitted, evicted>>
      PROVE  Log!Next
  <2>1. Log!Deliver(E)
    BY <1>3 DEF Log!Deliver
  <2> QED
    BY <1>3, <2>1 DEF Log!Next
<1>4. ASSUME NEW E, E \subseteq persisted, outbox' = Without(outbox, E),
             UNCHANGED <<emitted, evicted, persisted>>
      PROVE  Log!Next
  <2>1. Range(outbox') = Range(outbox) \ E
    BY <1>4, WithoutProperties DEF Types
  <2>2. Log!Acknowledge(E)
    BY <1>4, <2>1 DEF Log!Acknowledge
  <2> QED
    BY <1>4, <2>2 DEF Log!Next
<1>5. CASE \E n \in 1..OutboxCap : OtherPersists(n)
  <2>1. PICK n \in 1..OutboxCap : OtherPersists(n)
    BY <1>5
  <2>2. Range(SubSeq(outbox, 1, n)) \subseteq emitted
    BY <2>1, OtherPersistsType DEF Accepted
  <2> QED
    BY <1>3, <2>1, <2>2 DEF OtherPersists, queueVars
<1>6. CASE \E ids \in SUBSET Events : OtherAcks(ids)
  BY <1>4, <1>6 DEF OtherAcks
<1>7. CASE HandleAck
  <2>1. Range(Head(requests).events) \cap inFlight \subseteq persisted
    BY <1>7, AckBacked DEF HandleAck
  <2> QED
    BY <1>4, <1>7, <2>1 DEF HandleAck
<1>8. CASE Ingest
  <2>1. Range(page) \subseteq emitted
    BY <1>8, PageInHandWasSent DEF Ingest
  <2> QED
    BY <1>3, <1>8, <2>1 DEF Ingest, queueVars
<1>9. CASE \/ Open \/ PushPage \/ PushHeartbeat \/ Refuse \/ HandleClose \/ SeeEof \/ StreamFails
           \/ ReadFrame \/ SendAck \/ SendClose \/ PutAside \/ AckAnswered \/ Return
           \/ ControllerFails \/ UNCHANGED vars
  BY <1>1, <1>9
     DEF vars, queueVars, Open, PushPage, PushHeartbeat, Refuse, HandleClose, SeeEof, StreamFails,
         ReadFrame, SendAck, SendClose, PutAside, AckAnswered, Return, ControllerFails, Finish
<1> QED
  BY <1>2, <1>5, <1>6, <1>7, <1>8, <1>9 DEF Next

(* A stream, the passes beside it, the connector and the catalog together  *)
(* implement the bounded at-least-once log, however pages and answers      *)
(* cross and whichever side fails: what was acknowledged on a stream was   *)
(* delivered before, and what was dropped made room in a full queue.       *)
THEOREM StreamRefinement == Spec => ImplementsLog
<1>1. Init => Log!Init
  BY RangeOfNone DEF Init, Log!Init
<1>2. LET Inv == TypesAndProtocol /\ Backed /\ InOrder /\ Accepted
      IN  Inv /\ Inv' /\ [Next]_vars => [Log!Next]_(Log!vars)
  BY LogStep DEF TypesAndProtocol
<1> QED
  BY <1>1, <1>2, AlwaysAccepted, PTL DEF Spec, Log!Spec, ImplementsLog
=============================================================================
