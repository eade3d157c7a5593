------------------------- MODULE ObservabilityProofs -------------------------
(***************************************************************************)
(* What the batch of ended spans, the error history, the watching            *)
(* middlewares and the usage statistics promise, for every queue limit and  *)
(* batch size, for every limit on the errors kept, for every chain of       *)
(* middlewares, and for every retention and bucket size.                    *)
(***************************************************************************)
EXTENDS SpanBatch, ErrorHistory, Observers, Usage, SequenceTheorems, FiniteSetTheorems, WellFoundedInduction, TLAPS

----------------------------------------------------------------------------
(* Sequences of span numbers *)

Ordered(s) == \A i, j \in DOMAIN s : i < j => s[i] < s[j]

LEMMA Elements ==
  ASSUME NEW s \in Seq(Nat)
  PROVE  /\ DOMAIN s = 1..Len(s) /\ Len(s) \in Nat
         /\ \A i \in 1..Len(s) : s[i] \in Nat
         /\ ToSet(s) = {s[i] : i \in 1..Len(s)}
BY DEF ToSet

LEMMA JoinedElements ==
  ASSUME NEW s \in Seq(Nat), NEW t \in Seq(Nat)
  PROVE  ToSet(s \o t) = ToSet(s) \cup ToSet(t)
<1>1. /\ s \o t \in Seq(Nat) /\ Len(s \o t) = Len(s) + Len(t)
      /\ \A i \in 1..Len(s) + Len(t) : (s \o t)[i] = IF i <= Len(s) THEN s[i] ELSE t[i - Len(s)]
  BY ConcatProperties
<1>0. ToSet(s \o t) = {(s \o t)[i] : i \in 1..Len(s) + Len(t)}
  BY <1>1, Elements
<1>2. ASSUME NEW i \in 1..Len(t) PROVE t[i] \in ToSet(s \o t)
  <2>1. PICK k \in 1..Len(s) + Len(t) : ~(k <= Len(s)) /\ k - Len(s) = i
    <3>1. i + Len(s) \in 1..Len(s) + Len(t) /\ ~(i + Len(s) <= Len(s)) /\ i + Len(s) - Len(s) = i
      BY Elements
    <3> QED
      BY <3>1
  <2> QED
    BY <1>0, <1>1, <2>1
<1>3. ASSUME NEW i \in 1..Len(s) PROVE s[i] \in ToSet(s \o t)
  <2>1. i \in 1..Len(s) + Len(t) /\ i <= Len(s)
    BY Elements
  <2> QED
    BY <1>1, <2>1, Elements
<1>4. ASSUME NEW i \in 1..Len(s \o t) PROVE (s \o t)[i] \in ToSet(s) \cup ToSet(t)
  <2>1. CASE i <= Len(s)
    BY <1>1, <2>1, Elements
  <2>2. CASE ~(i <= Len(s))
    <3>1. i - Len(s) \in 1..Len(t)
      BY <1>1, <2>2, Elements
    <3> QED
      BY <1>1, <2>2, <3>1, Elements
  <2> QED
    BY <2>1, <2>2
<1>5. /\ ToSet(s) = {s[i] : i \in 1..Len(s)} /\ ToSet(t) = {t[i] : i \in 1..Len(t)}
      /\ ToSet(s \o t) = {(s \o t)[i] : i \in 1..Len(s \o t)}
  BY <1>1, Elements
<1> QED
  BY <1>2, <1>3, <1>4, <1>5

LEMMA OrderedIsInjective ==
  ASSUME NEW s \in Seq(Nat), Ordered(s)
  PROVE  IsInjective(s)
<1> SUFFICES ASSUME NEW a \in DOMAIN s, NEW b \in DOMAIN s, s[a] = s[b], a # b
             PROVE  FALSE
  BY DEF IsInjective
<1>1. a < b \/ b < a
  BY Elements
<1> QED
  BY <1>1, Elements DEF Ordered

LEMMA AppendKeepsOrder ==
  ASSUME NEW s \in Seq(Nat), NEW n \in Nat, Ordered(s), \A x \in ToSet(s) : x < n
  PROVE  Ordered(Append(s, n)) /\ ToSet(Append(s, n)) = ToSet(s) \cup {n}
<1>1. /\ Append(s, n) \in Seq(Nat) /\ Len(Append(s, n)) = Len(s) + 1
      /\ \A i \in 1..Len(s) : Append(s, n)[i] = s[i]
      /\ Append(s, n)[Len(s) + 1] = n
  BY AppendProperties
<1>2. DOMAIN Append(s, n) = 1..(Len(s) + 1) /\ 1..(Len(s) + 1) = (1..Len(s)) \cup {Len(s) + 1}
  BY <1>1, Elements
<1>3. Ordered(Append(s, n))
  BY <1>1, <1>2, Elements DEF Ordered
<1>4. ToSet(Append(s, n)) = ToSet(s) \cup {n}
  <2>1. /\ ToSet(s) = {s[i] : i \in 1..Len(s)}
        /\ ToSet(Append(s, n)) = {Append(s, n)[i] : i \in 1..(Len(s) + 1)}
    BY <1>1, Elements
  <2>2. {Append(s, n)[i] : i \in 1..(Len(s) + 1)} = {Append(s, n)[i] : i \in 1..Len(s)} \cup {n}
    BY <1>1, <1>2
  <2>3. {Append(s, n)[i] : i \in 1..Len(s)} = {s[i] : i \in 1..Len(s)}
    BY <1>1
  <2> QED
    BY <2>1, <2>2, <2>3
<1> QED
  BY <1>3, <1>4

\* The two ends of a sequence that is in order stay in order without the
\* middle, and share nothing with it.
LEMMA PiecesOrdered ==
  ASSUME NEW s \in Seq(Nat), NEW t \in Seq(Nat), NEW u \in Seq(Nat),
         Ordered(s \o t \o u)
  PROVE  /\ Ordered(s \o u) /\ Ordered(s)
         /\ ToSet(t) \cap (ToSet(s) \cup ToSet(u)) = {}
         /\ ToSet(u) \cap ToSet(s) = {}
<1> DEFINE w == s \o t \o u
<1>1. /\ s \o t \in Seq(Nat) /\ Len(s \o t) = Len(s) + Len(t)
      /\ \A i \in 1..Len(s) + Len(t) : (s \o t)[i] = IF i <= Len(s) THEN s[i] ELSE t[i - Len(s)]
  BY ConcatProperties
<1>2. /\ w \in Seq(Nat) /\ Len(w) = Len(s) + Len(t) + Len(u)
      /\ \A i \in 1..Len(s) + Len(t) + Len(u) :
           w[i] = IF i <= Len(s) + Len(t) THEN (s \o t)[i] ELSE u[i - (Len(s) + Len(t))]
  BY <1>1, ConcatProperties
<1>3. Len(s) \in Nat /\ Len(t) \in Nat /\ Len(u) \in Nat
  BY Elements
<1>4. \A i \in 1..Len(s) : i \in 1..Len(w) /\ w[i] = s[i]
  BY <1>1, <1>2, <1>3
<1>5. \A i \in 1..Len(t) : i + Len(s) \in 1..Len(w) /\ w[i + Len(s)] = t[i]
  BY <1>1, <1>2, <1>3
<1>6. \A i \in 1..Len(u) : /\ i + Len(s) + Len(t) \in 1..Len(w)
                           /\ w[i + Len(s) + Len(t)] = u[i]
  BY <1>1, <1>2, <1>3
<1>7. \A i, j \in 1..Len(w) : i < j => w[i] < w[j]
  BY <1>2, Elements DEF Ordered
<1> HIDE DEF w
<1>8. \A i, j \in 1..Len(s) : i < j => s[i] < s[j]
  BY <1>4, <1>7
<1>9. \A i, j \in 1..Len(u) : i < j => u[i] < u[j]
  BY <1>3, <1>6, <1>7
<1>10. \A i \in 1..Len(s), j \in 1..Len(t) : s[i] < t[j]
  BY <1>3, <1>4, <1>5, <1>7
<1>11. \A i \in 1..Len(s), j \in 1..Len(u) : s[i] < u[j]
  BY <1>3, <1>4, <1>6, <1>7
<1>12. \A i \in 1..Len(t), j \in 1..Len(u) : t[i] < u[j]
  BY <1>3, <1>5, <1>6, <1>7
<1>13. Ordered(s)
  BY <1>8, Elements DEF Ordered
<1>14. /\ s \o u \in Seq(Nat) /\ Len(s \o u) = Len(s) + Len(u)
       /\ \A i \in 1..Len(s) + Len(u) : (s \o u)[i] = IF i <= Len(s) THEN s[i] ELSE u[i - Len(s)]
  BY ConcatProperties
<1>15. Ordered(s \o u)
  <2> SUFFICES ASSUME NEW i \in 1..Len(s) + Len(u), NEW j \in 1..Len(s) + Len(u), i < j
               PROVE  (s \o u)[i] < (s \o u)[j]
    BY <1>14, Elements DEF Ordered
  <2>1. CASE j <= Len(s)
    BY <1>3, <1>8, <1>14, <2>1
  <2>2. CASE i <= Len(s) /\ ~(j <= Len(s))
    <3>1. i \in 1..Len(s) /\ j - Len(s) \in 1..Len(u)
      BY <1>3, <2>2
    <3> QED
      BY <1>11, <1>14, <2>2, <3>1
  <2>3. CASE ~(i <= Len(s))
    <3>1. /\ i - Len(s) \in 1..Len(u) /\ j - Len(s) \in 1..Len(u)
          /\ i - Len(s) < j - Len(s) /\ ~(j <= Len(s))
      BY <1>3, <2>3
    <3> QED
      BY <1>9, <1>14, <2>3, <3>1
  <2> QED
    BY <1>3, <2>1, <2>2, <2>3
<1>16. /\ \A i \in 1..Len(s), j \in 1..Len(t) : s[i] # t[j]
       /\ \A i \in 1..Len(s), j \in 1..Len(u) : s[i] # u[j]
       /\ \A i \in 1..Len(t), j \in 1..Len(u) : t[i] # u[j]
  BY <1>10, <1>11, <1>12, Elements
<1> QED
  BY <1>13, <1>15, <1>16, Elements

----------------------------------------------------------------------------
(* The batch of ended spans *)

SpanRec ==
  [queue : Seq(Nat), batch : Seq(Nat), dropped : Nat, timer : BOOLEAN,
   flush : {"none", "timer", "force", "shutdown"},
   answer : {"none", "true", "rejected", "closed"},
   next : Nat \ {0}, exported : Seq(Nat), lost : SUBSET Nat, refused : SUBSET Nat]

\* The spans the processor still answers for, in the order they ended.
Kept == spans.exported \o spans.batch \o spans.queue

Placed ==
  /\ Ordered(Kept)
  /\ 1..(spans.next - 1) = ToSet(Kept) \cup spans.lost \cup spans.refused
  /\ ToSet(Kept) \cap (spans.lost \cup spans.refused) = {}
  /\ spans.lost \cap spans.refused = {}
  /\ spans.dropped = Cardinality(spans.refused)
  /\ Len(spans.queue) <= QueueMax

SpanInv == spans \in SpanRec /\ Placed

LEMMA SpanFields ==
  ASSUME spans \in SpanRec
  PROVE  /\ spans.queue \in Seq(Nat) /\ spans.batch \in Seq(Nat) /\ spans.exported \in Seq(Nat)
         /\ spans.exported \o spans.batch \in Seq(Nat) /\ Kept \in Seq(Nat)
         /\ spans.next \in Nat \ {0} /\ spans.dropped \in Nat
BY ConcatProperties DEF SpanRec, Kept

LEMMA JoinsAssociate ==
  ASSUME NEW s \in Seq(Nat), NEW t \in Seq(Nat), NEW u \in Seq(Nat)
  PROVE  (s \o t) \o u = s \o (t \o u)
<1>1. /\ s \o t \in Seq(Nat) /\ t \o u \in Seq(Nat)
      /\ Len(s \o t) = Len(s) + Len(t) /\ Len(t \o u) = Len(t) + Len(u)
      /\ \A i \in 1..Len(s) + Len(t) : (s \o t)[i] = IF i <= Len(s) THEN s[i] ELSE t[i - Len(s)]
      /\ \A i \in 1..Len(t) + Len(u) : (t \o u)[i] = IF i <= Len(t) THEN t[i] ELSE u[i - Len(t)]
  BY ConcatProperties
<1>2. Len(s) \in Nat /\ Len(t) \in Nat /\ Len(u) \in Nat
  BY Elements
<1> DEFINE st == s \o t
           tu == t \o u
<1> HIDE DEF st, tu
<1>3. /\ st \o u \in Seq(Nat) /\ Len(st \o u) = Len(st) + Len(u)
      /\ \A i \in 1..Len(st) + Len(u) : (st \o u)[i] = IF i <= Len(st) THEN st[i] ELSE u[i - Len(st)]
  BY <1>1, ConcatProperties DEF st
<1>4. /\ s \o tu \in Seq(Nat) /\ Len(s \o tu) = Len(s) + Len(tu)
      /\ \A i \in 1..Len(s) + Len(tu) : (s \o tu)[i] = IF i <= Len(s) THEN s[i] ELSE tu[i - Len(s)]
  BY <1>1, ConcatProperties DEF tu
<1>5. ASSUME NEW i \in 1..Len(st \o u) PROVE (st \o u)[i] = (s \o tu)[i]
  <2>1. CASE i <= Len(s)
    BY <1>1, <1>2, <1>3, <1>4, <2>1 DEF st, tu
  <2>2. CASE ~(i <= Len(s)) /\ i <= Len(s) + Len(t)
    BY <1>1, <1>2, <1>3, <1>4, <2>2 DEF st, tu
  <2>3. CASE ~(i <= Len(s) + Len(t))
    <3>1. i - (Len(s) + Len(t)) = (i - Len(s)) - Len(t)
      BY <1>2
    <3> QED
      BY <1>1, <1>2, <1>3, <1>4, <2>3, <3>1 DEF st, tu
  <2> QED
    BY <2>1, <2>2, <2>3
<1>6. Len(st \o u) = Len(s \o tu)
  BY <1>1, <1>2, <1>3, <1>4 DEF st, tu
<1>7. st \o u = s \o tu
  BY <1>3, <1>4, <1>5, <1>6, SeqEqual
<1> QED
  BY <1>7 DEF st, tu

LEMMA SpanInitInv == SpanInit => SpanInv
<1> SUFFICES ASSUME SpanInit PROVE SpanInv
  OBVIOUS
<1>1. <<>> \in Seq(Nat) /\ Len(<<>>) = 0 /\ DOMAIN <<>> = {} /\ ToSet(<<>>) = {}
  BY EmptySeq DEF ToSet
<1>2. Kept = <<>>
  BY <1>1, ConcatEmptySeq DEF SpanInit, Kept
<1>3. spans \in SpanRec
  BY <1>1 DEF SpanInit, SpanRec
<1>4. Ordered(Kept)
  BY <1>1, <1>2 DEF Ordered
<1>5. 1..(spans.next - 1) = {} /\ spans.dropped = 0 /\ spans.lost = {} /\ spans.refused = {}
  BY DEF SpanInit
<1>6. Len(spans.queue) <= QueueMax
  BY <1>1, SpanAssumption DEF SpanInit
<1> QED
  BY <1>1, <1>2, <1>3, <1>4, <1>5, <1>6, FS_EmptySet DEF SpanInv, Placed

\* A span arrives: the number after all that were given out so far.
LEMMA ArrivalInv == SpanInv /\ OnSpan => SpanInv'
<1> SUFFICES ASSUME SpanInv, OnSpan PROVE SpanInv'
  OBVIOUS
<1>0. /\ spans.queue \in Seq(Nat) /\ spans.batch \in Seq(Nat) /\ spans.exported \in Seq(Nat)
      /\ spans.exported \o spans.batch \in Seq(Nat) /\ Kept \in Seq(Nat)
      /\ spans.next \in Nat \ {0} /\ spans.dropped \in Nat
  BY SpanFields DEF SpanInv
<1> DEFINE n == spans.next
<1>1. /\ n \notin ToSet(Kept) /\ n \notin spans.lost /\ n \notin spans.refused
      /\ \A x \in ToSet(Kept) : x < n
      /\ 1..(n + 1 - 1) = (1..(n - 1)) \cup {n}
  <2>1. n \notin 1..(n - 1) /\ \A x \in 1..(n - 1) : x < n
    BY <1>0
  <2>2. 1..(n + 1 - 1) = (1..(n - 1)) \cup {n}
    BY <1>0
  <2> QED
    BY <2>1, <2>2 DEF SpanInv, Placed
<1>2. CASE Len(spans.queue) >= QueueMax
  <2>1. spans' = [spans EXCEPT !.dropped = @ + 1, !.next = @ + 1, !.refused = @ \cup {n}]
    BY <1>2 DEF OnSpan
  <2>2. /\ spans' \in SpanRec
        /\ spans'.queue = spans.queue /\ spans'.batch = spans.batch
        /\ spans'.exported = spans.exported /\ spans'.lost = spans.lost
        /\ spans'.next = n + 1 /\ spans'.dropped = spans.dropped + 1
        /\ spans'.refused = spans.refused \cup {n}
    <3>1. PICK d \in Nat, m \in Nat \ {0}, R \in SUBSET Nat :
            d = spans.dropped + 1 /\ m = n + 1 /\ R = spans.refused \cup {n}
      <4>1. spans.dropped + 1 \in Nat /\ n + 1 \in Nat \ {0} /\ n \in Nat
        BY <1>0
      <4>2. spans.refused \cup {n} \in SUBSET Nat
        BY <4>1 DEF SpanInv, SpanRec
      <4> QED
        BY <4>1, <4>2, Zenon
    <3>2. spans' = [spans EXCEPT !.dropped = d, !.next = m, !.refused = R]
      BY <2>1, <3>1
    <3> QED
      BY <3>1, <3>2 DEF SpanInv, SpanRec
  <2>3. Kept' = Kept
    BY <2>2 DEF Kept
  <2>4. IsFiniteSet(spans.refused)
    <3>1. spans.refused \subseteq 1..(n - 1)
      BY DEF SpanInv, Placed
    <3>2. IsFiniteSet(1..(n - 1))
      <4>1. n - 1 \in Int /\ 1 \in Int
        BY <1>0
      <4> QED
        BY <4>1, FS_Interval, Zenon
    <3> QED
      BY <3>1, <3>2, FS_Subset
  <2>5. Cardinality(spans.refused \cup {n}) = Cardinality(spans.refused) + 1
    BY <1>1, <2>4, FS_AddElement
  <2>6. Placed'
    BY <1>1, <2>2, <2>3, <2>5 DEF SpanInv, Placed
  <2> QED
    BY <2>2, <2>6 DEF SpanInv
<1>3. CASE ~(Len(spans.queue) >= QueueMax)
  <2>1. spans' = [spans EXCEPT !.queue = Append(@, n), !.next = @ + 1]
    BY <1>3 DEF OnSpan
  <2>2. Append(spans.queue, n) \in Seq(Nat) /\ Len(Append(spans.queue, n)) = Len(spans.queue) + 1
    BY <1>0, AppendProperties
  <2>3. /\ spans' \in SpanRec
        /\ spans'.queue = Append(spans.queue, n) /\ spans'.batch = spans.batch
        /\ spans'.exported = spans.exported /\ spans'.lost = spans.lost
        /\ spans'.next = n + 1 /\ spans'.dropped = spans.dropped
        /\ spans'.refused = spans.refused
    <3>1. PICK m \in Nat \ {0}, q \in Seq(Nat) : m = n + 1 /\ q = Append(spans.queue, n)
      <4>1. n + 1 \in Nat \ {0}
        BY <1>0
      <4> QED
        BY <2>2, <4>1, Zenon
    <3>2. spans' = [spans EXCEPT !.queue = q, !.next = m]
      BY <2>1, <3>1
    <3> QED
      BY <3>1, <3>2 DEF SpanInv, SpanRec
  <2>4. Kept' = Append(Kept, n)
    <3>1. <<n>> \in Seq(Nat) /\ Append(spans.queue, n) = spans.queue \o <<n>>
      BY <1>0, AppendIsConcat
    <3>2. Kept' = (spans.exported \o spans.batch) \o (spans.queue \o <<n>>)
      BY <2>3, <3>1 DEF Kept
    <3>3. (spans.exported \o spans.batch) \o (spans.queue \o <<n>>) = Kept \o <<n>>
      BY <1>0, <3>1, JoinsAssociate, Zenon DEF Kept
    <3> QED
      BY <1>0, <3>2, <3>3, AppendIsConcat
  <2>5. Ordered(Kept') /\ ToSet(Kept') = ToSet(Kept) \cup {n}
    BY <1>0, <1>1, <2>4, AppendKeepsOrder DEF SpanInv, Placed
  <2>6. Len(spans'.queue) <= QueueMax
    BY <1>0, <1>3, <2>2, <2>3, SpanAssumption, Elements
  <2>7. Placed'
    BY <1>1, <2>3, <2>5, <2>6 DEF SpanInv, Placed
  <2> QED
    BY <2>3, <2>7 DEF SpanInv
<1> QED
  BY <1>2, <1>3

\* Moving a batch out of the queue, and its spans to the exporter, leaves the
\* order of what is kept as it is.
LEMMA MoveInv ==
  ASSUME SpanInv, spans' \in SpanRec, Kept' = Kept,
         spans'.lost = spans.lost, spans'.refused = spans.refused,
         spans'.next = spans.next, spans'.dropped = spans.dropped,
         Len(spans'.queue) <= Len(spans.queue)
  PROVE  SpanInv'
<1>1. Len(spans.queue) \in Nat /\ Len(spans'.queue) \in Nat
  BY Elements DEF SpanInv, SpanRec
<1>2. Len(spans'.queue) <= QueueMax
  BY <1>1, SpanAssumption DEF SpanInv, Placed
<1> QED
  BY <1>2 DEF SpanInv, Placed

LEMMA TakeInv == SpanInv /\ TakeBatch => SpanInv'
<1> SUFFICES ASSUME SpanInv, TakeBatch PROVE SpanInv'
  OBVIOUS
<1>0. /\ spans.queue \in Seq(Nat) /\ spans.batch \in Seq(Nat) /\ spans.exported \in Seq(Nat)
      /\ spans.next \in Nat \ {0} /\ spans.dropped \in Nat /\ Len(spans.queue) \in Nat
  BY SpanFields, Elements DEF SpanInv
<1>1. PICK n \in 0..Len(spans.queue) :
        spans' = [spans EXCEPT !.batch = SubSeq(spans.queue, 1, n),
                               !.queue = SubSeq(spans.queue, n + 1, Len(spans.queue))]
  <2>1. PICK m : /\ m = IF Len(spans.queue) < BatchMax THEN Len(spans.queue) ELSE BatchMax
                 /\ spans' = [spans EXCEPT !.batch = SubSeq(spans.queue, 1, m),
                               !.queue = SubSeq(spans.queue, m + 1, Len(spans.queue))]
    BY DEF TakeBatch
  <2>2. m \in 0..Len(spans.queue)
    BY <1>0, <2>1, SpanAssumption
  <2> QED
    BY <2>1, <2>2
<1> DEFINE b == SubSeq(spans.queue, 1, n)
           r == SubSeq(spans.queue, n + 1, Len(spans.queue))
<1>2. b \in Seq(Nat) /\ r \in Seq(Nat) /\ Len(r) = Len(spans.queue) - n
  <2>1. \A i \in 1..Len(spans.queue) : spans.queue[i] \in Nat
    BY <1>0, Elements
  <2>2. b \in Seq(Nat)
    BY <1>0, <2>1, SubSeqProperties
  <2>3. /\ r \in Seq(Nat)
        /\ Len(r) = IF n + 1 <= Len(spans.queue) THEN Len(spans.queue) - (n + 1) + 1 ELSE 0
    BY <1>0, <2>1, SubSeqProperties
  <2> QED
    BY <1>0, <2>2, <2>3
<1>3. b \o r = spans.queue
  <2>1. /\ 1 \in 1..Len(spans.queue) + 1 /\ n \in (1 - 1)..Len(spans.queue)
        /\ Len(spans.queue) \in n..Len(spans.queue)
    BY <1>0
  <2>2. b \o r = SubSeq(spans.queue, 1, Len(spans.queue))
    BY <1>0, <2>1, ConcatAdjacentSubSeq, Zenon
  <2> QED
    BY <1>0, <2>2, SubSeqFull
<1> HIDE DEF b, r
<1>4. /\ spans' \in SpanRec /\ spans'.batch = b /\ spans'.queue = r
      /\ spans'.exported = spans.exported /\ spans'.lost = spans.lost
      /\ spans'.refused = spans.refused /\ spans'.next = spans.next
      /\ spans'.dropped = spans.dropped
  BY <1>0, <1>1, <1>2 DEF SpanInv, SpanRec, b, r
<1>5. Kept' = Kept
  <2>1. Kept' = (spans.exported \o b) \o r
    BY <1>4 DEF Kept
  <2>2. (spans.exported \o b) \o r = spans.exported \o (b \o r)
    BY <1>0, <1>2, JoinsAssociate, Zenon
  <2>3. spans.batch = <<>> /\ spans.exported \o <<>> = spans.exported
    BY <1>0, ConcatEmptySeq DEF TakeBatch
  <2> QED
    BY <1>3, <2>1, <2>2, <2>3 DEF Kept
<1> QED
  BY <1>0, <1>2, <1>4, <1>5, MoveInv

LEMMA ExportInv == SpanInv /\ ExportSpan => SpanInv'
<1> SUFFICES ASSUME SpanInv, ExportSpan PROVE SpanInv'
  OBVIOUS
<1>0. /\ spans.queue \in Seq(Nat) /\ spans.batch \in Seq(Nat) /\ spans.exported \in Seq(Nat)
      /\ spans.next \in Nat \ {0} /\ spans.dropped \in Nat /\ Len(spans.queue) \in Nat
  BY SpanFields, Elements DEF SpanInv
<1>1. spans' = [spans EXCEPT !.batch = Tail(@), !.exported = Append(@, Head(spans.batch))]
      /\ spans.batch # <<>>
  BY DEF ExportSpan
<1> DEFINE h == Head(spans.batch)
           r == Tail(spans.batch)
<1>2. h \in Nat /\ r \in Seq(Nat)
  BY <1>0, <1>1, HeadTailProperties
<1>3. <<h>> \in Seq(Nat) /\ Append(spans.exported, h) = spans.exported \o <<h>>
      /\ Append(spans.exported, h) \in Seq(Nat)
  BY <1>0, <1>2, AppendIsConcat, AppendProperties
<1>4. <<h>> \o r = spans.batch
  <2>1. 1 \in 1..Len(spans.batch) /\ Len(spans.batch) \in 1..Len(spans.batch)
    BY <1>0, <1>1, EmptySeq, Elements
  <2>2. SubSeq(spans.batch, 1, Len(spans.batch))
          = <<spans.batch[1]>> \o SubSeq(spans.batch, 1 + 1, Len(spans.batch))
    BY <1>0, <2>1, SubSeqRecursiveFirst
  <2>3. h = spans.batch[1] /\ r = SubSeq(spans.batch, 2, Len(spans.batch))
    BY <1>0, <1>1, TailIsSubSeq
  <2> QED
    BY <1>0, <2>2, <2>3, SubSeqFull
<1> HIDE DEF h, r
<1>5. /\ spans' \in SpanRec /\ spans'.batch = r /\ spans'.queue = spans.queue
      /\ spans'.exported = spans.exported \o <<h>> /\ spans'.lost = spans.lost
      /\ spans'.refused = spans.refused /\ spans'.next = spans.next
      /\ spans'.dropped = spans.dropped
  BY <1>0, <1>1, <1>2, <1>3 DEF SpanInv, SpanRec, h, r
<1>6. Kept' = Kept
  <2>1. (spans.exported \o <<h>>) \o r = spans.exported \o (<<h>> \o r)
    BY <1>0, <1>2, <1>3, JoinsAssociate, Zenon
  <2> QED
    BY <1>4, <1>5, <2>1 DEF Kept
<1> QED
  BY <1>0, <1>5, <1>6, MoveInv

\* A throw loses the rest of the batch, and under shutdown() the queue.
LEMMA ThrowInv == SpanInv /\ ExporterThrows => SpanInv'
<1> SUFFICES ASSUME SpanInv, ExporterThrows PROVE SpanInv'
  OBVIOUS
<1>0. /\ spans.queue \in Seq(Nat) /\ spans.batch \in Seq(Nat) /\ spans.exported \in Seq(Nat)
      /\ spans.exported \o spans.batch \in Seq(Nat)
      /\ spans.next \in Nat \ {0} /\ spans.dropped \in Nat /\ Len(spans.queue) \in Nat
  BY SpanFields, Elements DEF SpanInv
<1> DEFINE e == spans.exported
           b == spans.batch
           q == spans.queue
<1>1. /\ Ordered(e \o q) /\ Ordered(e)
      /\ ToSet(b) \cap (ToSet(e) \cup ToSet(q)) = {} /\ ToSet(q) \cap ToSet(e) = {}
  BY <1>0, PiecesOrdered DEF SpanInv, Placed, Kept
<1>2. /\ ToSet(Kept) = ToSet(e) \cup ToSet(b) \cup ToSet(q)
      /\ ToSet(e \o q) = ToSet(e) \cup ToSet(q)
      /\ ToSet(b) \subseteq Nat /\ ToSet(q) \subseteq Nat
  <2>1. ToSet(Kept) = ToSet(e \o b) \cup ToSet(q) /\ ToSet(e \o b) = ToSet(e) \cup ToSet(b)
    BY <1>0, JoinedElements DEF Kept
  <2>2. ToSet(b) \subseteq Nat /\ ToSet(q) \subseteq Nat
    <3>1. \A s \in Seq(Nat) : ToSet(s) \subseteq Nat
      BY Elements
    <3> QED
      BY <1>0, <3>1
  <2> QED
    BY <1>0, <2>1, <2>2, JoinedElements
<1>3. <<>> \in Seq(Nat) /\ Len(<<>>) = 0 /\ ToSet(<<>>) = {}
  BY EmptySeq DEF ToSet
<1>4. e \o <<>> = e /\ e \o q \in Seq(Nat)
  BY <1>0, ConcatEmptySeq, ConcatProperties
<1>5. PICK ans \in {"none", "true", "rejected", "closed"} :
        ans = CASE spans.flush = "force" -> "rejected"
                [] spans.flush = "shutdown" -> "closed"
                [] OTHER -> spans.answer
  BY DEF SpanInv, SpanRec
<1>6. CASE spans.flush = "shutdown"
  <2>1. spans' = [spans EXCEPT !.lost = @ \cup ToSet(b) \cup ToSet(q), !.batch = <<>>,
                               !.queue = <<>>, !.flush = "none", !.answer = ans]
    BY <1>5, <1>6 DEF ExporterThrows
  <2>2. /\ spans' \in SpanRec
        /\ spans'.exported = e /\ spans'.batch = <<>> /\ spans'.queue = <<>>
        /\ spans'.lost = spans.lost \cup ToSet(b) \cup ToSet(q)
        /\ spans'.refused = spans.refused /\ spans'.next = spans.next
        /\ spans'.dropped = spans.dropped
    BY <1>0, <1>2, <1>3, <2>1 DEF SpanInv, SpanRec
  <2>3. Kept' = e
    BY <1>4, <2>2 DEF Kept
  <2>4. Placed'
    BY <1>1, <1>2, <1>3, <2>2, <2>3, SpanAssumption DEF SpanInv, Placed
  <2> QED
    BY <2>2, <2>4 DEF SpanInv
<1>7. CASE spans.flush # "shutdown"
  <2>1. spans' = [spans EXCEPT !.lost = @ \cup ToSet(b), !.batch = <<>>,
                               !.flush = "none", !.answer = ans]
    BY <1>0, <1>5, <1>7 DEF ExporterThrows, SpanInv, SpanRec
  <2>2. /\ spans' \in SpanRec
        /\ spans'.exported = e /\ spans'.batch = <<>> /\ spans'.queue = q
        /\ spans'.lost = spans.lost \cup ToSet(b)
        /\ spans'.refused = spans.refused /\ spans'.next = spans.next
        /\ spans'.dropped = spans.dropped
    BY <1>0, <1>2, <1>3, <2>1 DEF SpanInv, SpanRec
  <2>3. Kept' = e \o q
    BY <1>4, <2>2 DEF Kept
  <2>4. Placed'
    BY <1>1, <1>2, <2>2, <2>3 DEF SpanInv, Placed
  <2> QED
    BY <2>2, <2>4 DEF SpanInv
<1> QED
  BY <1>6, <1>7

LEMMA SpanNextInv == SpanInv /\ [SpanNext]_spanVars => SpanInv'
<1> SUFFICES ASSUME SpanInv, [SpanNext]_spanVars PROVE SpanInv'
  OBVIOUS
<1>1. CASE FlushStarts
  <2>1. PICK who \in {"timer", "force", "shutdown"} :
          spans' = [spans EXCEPT !.flush = who, !.timer = @ /\ who # "shutdown"]
    BY <1>1 DEF FlushStarts
  <2>2. /\ spans' \in SpanRec /\ spans'.queue = spans.queue /\ spans'.batch = spans.batch
        /\ spans'.exported = spans.exported /\ spans'.lost = spans.lost
        /\ spans'.refused = spans.refused /\ spans'.next = spans.next
        /\ spans'.dropped = spans.dropped
    BY <2>1 DEF SpanInv, SpanRec
  <2> QED
    BY <2>2, MoveInv, Elements DEF Kept, SpanInv, SpanRec
<1>2. CASE FlushEndsEmpty
  <2>1. PICK ans \in {"none", "true", "rejected", "closed"} :
          spans' = [spans EXCEPT !.flush = "none", !.answer = ans]
    BY <1>2 DEF FlushEndsEmpty, SpanInv, SpanRec
  <2>2. /\ spans' \in SpanRec /\ spans'.queue = spans.queue /\ spans'.batch = spans.batch
        /\ spans'.exported = spans.exported /\ spans'.lost = spans.lost
        /\ spans'.refused = spans.refused /\ spans'.next = spans.next
        /\ spans'.dropped = spans.dropped
    BY <2>1 DEF SpanInv, SpanRec
  <2> QED
    BY <2>2, MoveInv, Elements DEF Kept, SpanInv, SpanRec
<1>3. CASE UNCHANGED spanVars
  BY <1>3 DEF spanVars, SpanInv, Placed, Kept
<1> QED
  BY <1>1, <1>2, <1>3, ArrivalInv, TakeInv, ExportInv, ThrowInv DEF SpanNext

\* Every span that ended is exported once, waiting, refused and counted, or
\* lost to an exporter that threw, and the exporter gets them in the order they
\* ended: onSpan, the flush and shutdown() of BatchSpanProcessor, also when the
\* exporter ends spans of its own while it is fed.
THEOREM NoSpanUnaccounted == SpanSpec => []SpanFate
<1>1. SpanSpec => []SpanInv
  BY SpanInitInv, SpanNextInv, PTL DEF SpanSpec
<1>2. SpanInv => SpanFate
  <2> SUFFICES ASSUME SpanInv PROVE SpanFate
    OBVIOUS
  <2>1. IsInjective(Kept) /\ Kept \in Seq(Nat)
    BY SpanFields, OrderedIsInjective DEF SpanInv, Placed
  <2> QED
    BY <2>1 DEF SpanFate, SpanInv, Placed, Kept, Ordered
<1> QED
  BY <1>1, <1>2, PTL

----------------------------------------------------------------------------
(* The error history: its lists *)

\* The end of a list: what is not in it was among the first k.
LEMMA Shifted ==
  ASSUME NEW s \in Seq(Nat), IsInjective(s), NEW k \in 0..Len(s)
  PROVE  /\ SubSeq(s, k + 1, Len(s)) \in Seq(Nat)
         /\ IsInjective(SubSeq(s, k + 1, Len(s)))
         /\ Len(SubSeq(s, k + 1, Len(s))) = Len(s) - k
         /\ ToSet(SubSeq(s, k + 1, Len(s))) \subseteq ToSet(s)
         /\ \A x \in ToSet(s) : \/ x \in ToSet(SubSeq(s, k + 1, Len(s)))
                                \/ \E i \in 1..k : s[i] = x
<1> DEFINE r == SubSeq(s, k + 1, Len(s))
<1>1. Len(s) \in Nat /\ k \in Nat /\ k <= Len(s) /\ \A i \in 1..Len(s) : s[i] \in Nat
  BY Elements
<1>2. /\ r \in Seq(Nat)
      /\ Len(r) = IF k + 1 <= Len(s) THEN Len(s) - (k + 1) + 1 ELSE 0
      /\ \A i \in 1..Len(s) - (k + 1) + 1 : r[i] = s[(k + 1) + i - 1]
  BY <1>1, SubSeqProperties
<1>3. Len(r) = Len(s) - k
  BY <1>1, <1>2
<1> HIDE DEF r
<1>4. \A i \in 1..Len(r) : i + k \in 1..Len(s) /\ r[i] = s[i + k]
  <2> SUFFICES ASSUME NEW i \in 1..Len(r) PROVE i + k \in 1..Len(s) /\ r[i] = s[i + k]
    OBVIOUS
  <2>1. i \in 1..Len(s) - (k + 1) + 1 /\ (k + 1) + i - 1 = i + k /\ i + k \in 1..Len(s)
    BY <1>1, <1>3
  <2> QED
    BY <1>2, <2>1
<1>5. IsInjective(r)
  <2> SUFFICES ASSUME NEW a \in 1..Len(r), NEW b \in 1..Len(r), r[a] = r[b] PROVE a = b
    BY <1>2, Elements DEF IsInjective
  <2>1. a + k \in 1..Len(s) /\ r[a] = s[a + k]
    BY <1>4
  <2>2. b + k \in 1..Len(s) /\ r[b] = s[b + k]
    BY <1>4
  <2>3. s[a + k] = s[b + k]
    BY <2>1, <2>2
  <2>4. \A i, j \in 1..Len(s) : s[i] = s[j] => i = j
    BY Elements DEF IsInjective
  <2>5. a + k = b + k
    BY <2>1, <2>2, <2>3, <2>4, Zenon
  <2>6. a \in Int /\ b \in Int /\ k \in Int
    BY <1>1, <1>2
  <2> QED
    BY <2>5, <2>6
<1>6. ToSet(r) = {r[i] : i \in 1..Len(r)} /\ ToSet(s) = {s[i] : i \in 1..Len(s)}
  BY <1>2, Elements
<1>7. ToSet(r) \subseteq ToSet(s)
  BY <1>4, <1>6
<1>8. ASSUME NEW j \in 1..Len(s) PROVE s[j] \in ToSet(r) \/ \E i \in 1..k : s[i] = s[j]
  <2>1. CASE j <= k
    BY <1>1, <2>1
  <2>2. CASE ~(j <= k)
    <3>1. PICK i \in 1..Len(r) : i + k = j
      <4>1. j - k \in 1..Len(r) /\ (j - k) + k = j
        BY <1>1, <1>3, <2>2
      <4> QED
        BY <4>1
    <3> QED
      BY <1>4, <1>6, <3>1
  <2> QED
    BY <2>1, <2>2
<1> QED
  BY <1>2, <1>3, <1>5, <1>6, <1>7, <1>8 DEF r

\* Taking one entry out of a list.
LEMMA Removed ==
  ASSUME NEW s \in Seq(Nat), IsInjective(s), NEW e
  PROVE  /\ RemoveFirst(s, e) \in Seq(Nat)
         /\ IsInjective(RemoveFirst(s, e))
         /\ Len(RemoveFirst(s, e)) <= Len(s)
         /\ ToSet(RemoveFirst(s, e)) \subseteq ToSet(s)
         /\ \A x \in ToSet(s) : x # e => x \in ToSet(RemoveFirst(s, e))
<1>1. Len(s) \in Nat /\ \A i \in 1..Len(s) : s[i] \in Nat
  BY Elements
<1>2. CASE ~\E i \in 1..Len(s) : s[i] = e
  BY <1>1, <1>2 DEF RemoveFirst
<1>3. CASE \E i \in 1..Len(s) : s[i] = e
  <2>1. PICK n \in 1..Len(s) : s[n] = e
    BY <1>3
  <2>2. {i \in 1..Len(s) : s[i] = e} = {n}
    BY <2>1, Elements DEF IsInjective
  <2>3. Min({n}) = n
    <3>1. Min({n}) \in {n}
      BY <1>1 DEF Min
    <3> QED
      BY <3>1
  <2>4. SelectInSeq(s, LAMBDA v : v = e) = n
    BY <2>2, <2>3 DEF SelectInSeq
  <2> DEFINE a == SubSeq(s, 1, n - 1)
             b == SubSeq(s, n + 1, Len(s))
             r == a \o b
  <2>5. RemoveFirst(s, e) = r
    BY <1>3, <2>4 DEF RemoveFirst, RemoveAt
  <2>6. /\ a \in Seq(Nat) /\ Len(a) = n - 1
        /\ \A i \in 1..n - 1 : a[i] = s[i]
    <3>1. /\ a \in Seq(Nat) /\ Len(a) = IF 1 <= n - 1 THEN n - 1 - 1 + 1 ELSE 0
          /\ \A i \in 1..n - 1 - 1 + 1 : a[i] = s[1 + i - 1]
      BY <1>1, SubSeqProperties
    <3> QED
      BY <1>1, <3>1
  <2>7. /\ b \in Seq(Nat) /\ Len(b) = Len(s) - n
        /\ \A i \in 1..Len(s) - n : b[i] = s[n + i]
    <3>1. /\ b \in Seq(Nat) /\ Len(b) = IF n + 1 <= Len(s) THEN Len(s) - (n + 1) + 1 ELSE 0
          /\ \A i \in 1..Len(s) - (n + 1) + 1 : b[i] = s[(n + 1) + i - 1]
      BY <1>1, SubSeqProperties
    <3>2. Len(s) - (n + 1) + 1 = Len(s) - n
      BY <1>1
    <3>3. ASSUME NEW i \in 1..Len(s) - n PROVE b[i] = s[n + i]
      <4>1. (n + 1) + i - 1 = n + i
        BY <1>1
      <4> QED
        BY <3>1, <3>2, <3>3, <4>1
    <3>4. Len(b) = Len(s) - n
      BY <1>1, <3>1
    <3> QED
      BY <3>1, <3>3, <3>4
  <2> HIDE DEF a, b
  <2>8. /\ r \in Seq(Nat) /\ Len(r) = Len(s) - 1
        /\ \A i \in 1..Len(s) - 1 : r[i] = IF i <= n - 1 THEN s[i] ELSE s[i + 1]
    <3>1. /\ r \in Seq(Nat) /\ Len(r) = Len(a) + Len(b)
          /\ \A i \in 1..Len(a) + Len(b) : r[i] = IF i <= Len(a) THEN a[i] ELSE b[i - Len(a)]
      BY <2>6, <2>7, ConcatProperties
    <3>2. Len(a) + Len(b) = Len(s) - 1
      BY <1>1, <2>6, <2>7
    <3>3. ASSUME NEW i \in 1..Len(s) - 1 PROVE r[i] = IF i <= n - 1 THEN s[i] ELSE s[i + 1]
      <4>1. CASE i <= n - 1
        BY <1>1, <2>6, <3>1, <3>2, <4>1
      <4>2. CASE ~(i <= n - 1)
        <5>1. /\ i - Len(a) \in 1..Len(s) - n /\ n + (i - Len(a)) = i + 1
          BY <1>1, <2>6, <4>2
        <5>2. r[i] = b[i - Len(a)] /\ b[i - Len(a)] = s[n + (i - Len(a))]
          BY <2>6, <2>7, <3>1, <3>2, <4>2, <5>1
        <5> QED
          BY <4>2, <5>1, <5>2
      <4> QED
        BY <4>1, <4>2
    <3> QED
      BY <3>1, <3>2, <3>3
  <2> HIDE DEF r
  <2> DEFINE From(i) == IF i <= n - 1 THEN i ELSE i + 1
  <2>14. ASSUME NEW i \in 1..Len(r) PROVE From(i) \in 1..Len(s) /\ r[i] = s[From(i)]
    <3>1. i \in 1..Len(s) - 1 /\ From(i) \in 1..Len(s)
      BY <1>1, <2>8
    <3> QED
      BY <2>8, <3>1
  <2>9. IsInjective(r)
    <3> SUFFICES ASSUME NEW i \in 1..Len(r), NEW j \in 1..Len(r), r[i] = r[j] PROVE i = j
      BY <2>8, Elements DEF IsInjective
    <3>1. PICK k \in 1..Len(s), l \in 1..Len(s) :
            k = From(i) /\ l = From(j) /\ s[k] = s[l]
      <4>1. From(i) \in 1..Len(s) /\ r[i] = s[From(i)]
        BY <2>14
      <4>2. From(j) \in 1..Len(s) /\ r[j] = s[From(j)]
        BY <2>14
      <4> HIDE DEF From
      <4> QED
        BY <4>1, <4>2
    <3>2. k = l
      BY <3>1, Elements DEF IsInjective
    <3> QED
      BY <1>1, <3>1, <3>2
  <2>10. ToSet(r) = {r[i] : i \in 1..Len(r)} /\ ToSet(s) = {s[i] : i \in 1..Len(s)}
    BY <2>8, Elements
  <2>11. ToSet(r) \subseteq ToSet(s)
    <3> HIDE DEF From
    <3> QED
      BY <2>10, <2>14
  <2>12. ASSUME NEW j \in 1..Len(s), s[j] # e PROVE s[j] \in ToSet(r)
    <3>1. CASE j <= n - 1
      <4>1. j \in 1..Len(r) /\ r[j] = s[j]
        BY <1>1, <2>8, <3>1
      <4> QED
        BY <2>10, <4>1
    <3>2. CASE ~(j <= n - 1)
      <4>1. PICK i \in 1..Len(r) : i + 1 = j /\ ~(i <= n - 1)
        <5>1. j # n
          BY <2>1, <2>12
        <5>2. j - 1 \in 1..Len(r) /\ (j - 1) + 1 = j /\ ~(j - 1 <= n - 1)
          BY <1>1, <2>8, <3>2, <5>1
        <5> QED
          BY <5>2
      <4>2. r[i] = s[j]
        BY <2>8, <4>1
      <4> QED
        BY <2>10, <4>2
    <3> QED
      BY <3>1, <3>2
  <2>13. Len(r) <= Len(s)
    BY <1>1, <2>8
  <2> QED
    BY <2>5, <2>8, <2>9, <2>10, <2>11, <2>12, <2>13
<1> QED
  BY <1>2, <1>3

----------------------------------------------------------------------------
(* The error history: eviction *)

Entry == [fp : ErrorFps, last : Nat]
Item == [ts : Nat, seq : Nat, entry : Nat]

\* A lookup of f finds an entry of f, which its module lists and which has an
\* item that is not stale.
Found(md, ix, lists, items, f) ==
  /\ ix[f] \in 1..Len(md) /\ md[ix[f]].fp = f
  /\ ix[f] \in ToSet(lists[ErrorModule[f]])
  /\ \E x \in items : x.entry = ix[f] /\ x.ts = md[ix[f]].last

\* The heap's items, each of some entry, come one after the other.
Heap(md, items) ==
  /\ items \subseteq Item
  /\ \A x \in items : x.entry \in 1..Len(md)
  /\ \A x, y \in items : x.seq < y.seq => x.ts <= y.ts
  /\ \A x, y \in items : x.seq = y.seq => x = y

Lists(md, lists) ==
  /\ lists \in [ErrorMods -> Seq(Nat)]
  /\ \A m \in ErrorMods : IsInjective(lists[m]) /\ ToSet(lists[m]) \subseteq 1..Len(md)

Sound(md, ix, lists, items) ==
  /\ ix \in [ErrorFps -> Nat]
  /\ Lists(md, lists)
  /\ Heap(md, items)
  /\ \A f \in ErrorFps : ix[f] # 0 => Found(md, ix, lists, items, f)

LEMMA IndexedFinite ==
  ASSUME NEW md \in Seq(Entry), NEW ix, NEW lists, NEW items, Sound(md, ix, lists, items)
  PROVE  IsFiniteSet(Indexed(ix)) /\ Cardinality(Indexed(ix)) \in Nat
<1>1. Indexed(ix) \subseteq 1..Len(md)
  BY DEF Indexed, Sound, Found
<1>2. IsFiniteSet(1..Len(md))
  <2>1. 1 \in Int /\ Len(md) \in Int
    BY LenProperties
  <2> QED
    BY <2>1, FS_Interval, Zenon
<1> QED
  BY <1>1, <1>2, FS_Subset, FS_CardinalityType

\* Among live items there is an oldest one.
LEMMA OldestExists ==
  ASSUME NEW md, NEW items, Heap(md, items), NEW live \in SUBSET items, live # {}
  PROVE  \E x \in live : \A y \in live : y = x \/ Before(x, y)
<1> DEFINE T == {x.seq : x \in live}
<1>1. \A x \in live : x.seq \in Nat /\ x.ts \in Nat
  BY DEF Heap, Item
<1>2. T \subseteq Nat /\ T # {}
  BY <1>1
<1>3. PICK n \in T : \A k \in T : ~(<<k, n>> \in OpToRel(<, Nat))
  <2> HIDE DEF T
  <2> QED
    BY <1>2, NatLessThanWellFounded, WFMin
<1>4. \A k \in T : ~(k < n)
  BY <1>2, <1>3 DEF OpToRel
<1>5. PICK x \in live : x.seq = n
  OBVIOUS
<1>6. ASSUME NEW y \in live, y # x PROVE Before(x, y)
  <2>1. ~(y.seq < x.seq) /\ y.seq # x.seq
    BY <1>4, <1>5, <1>6 DEF Heap
  <2>2. x.seq < y.seq
    BY <1>1, <2>1
  <2>3. x.ts <= y.ts
    BY <2>2 DEF Heap
  <2> QED
    BY <1>1, <2>2, <2>3 DEF Before
<1> QED
  BY <1>6

LEMMA ModuleEvicted ==
  ASSUME NEW ix, NEW lists, NEW items, NEW m \in ErrorMods,
         made' \in Seq(Entry), Sound(made', ix, lists, items)
  PROVE  \E jx, rest :
           /\ EvictModule(Books(ix, lists, items), m) = Books(jx, rest, items)
           /\ Sound(made', jx, rest, items)
           /\ Indexed(jx) \subseteq Indexed(ix)
           /\ Len(rest[m]) <= PerModuleMax
           /\ \A n \in ErrorMods : Len(rest[n]) <= Len(lists[n])
<1> DEFINE over == Len(lists[m]) - PerModuleMax
           gone == {made'[lists[m][i]].fp : i \in 1..over}
<1>0. /\ lists \in [ErrorMods -> Seq(Nat)] /\ ix \in [ErrorFps -> Nat]
      /\ \A n \in ErrorMods : Len(lists[n]) \in Nat
      /\ PerModuleMax \in Nat
  BY LenProperties, HistoryAssumption DEF Sound, Lists
<1>1. CASE over <= 0
  <2>1. EvictModule(Books(ix, lists, items), m) = Books(ix, lists, items)
    BY <1>1 DEF EvictModule, Books
  <2>2. Len(lists[m]) <= PerModuleMax /\ \A n \in ErrorMods : Len(lists[n]) <= Len(lists[n])
    BY <1>0, <1>1
  <2> QED
    BY <2>1, <2>2
<1>2. CASE ~(over <= 0)
  <2> DEFINE jx == [f \in ErrorFps |-> IF f \in gone THEN 0 ELSE ix[f]]
             shorter == SubSeq(lists[m], over + 1, Len(lists[m]))
             rest == [lists EXCEPT ![m] = shorter]
  <2>1. EvictModule(Books(ix, lists, items), m) = Books(jx, rest, items)
    BY <1>2 DEF EvictModule, Books
  <2>2. over \in 0..Len(lists[m]) /\ lists[m] \in Seq(Nat) /\ IsInjective(lists[m])
    BY <1>0, <1>2 DEF Sound, Lists
  <2>3. /\ shorter \in Seq(Nat) /\ IsInjective(shorter) /\ Len(shorter) = Len(lists[m]) - over
        /\ ToSet(shorter) \subseteq ToSet(lists[m])
        /\ \A x \in ToSet(lists[m]) : x \in ToSet(shorter) \/ \E i \in 1..over : lists[m][i] = x
    BY <2>2, Shifted
  <2>4. Len(shorter) = PerModuleMax /\ Len(shorter) <= Len(lists[m])
    BY <1>0, <1>2, <2>3
  <2> HIDE DEF shorter
  <2>5. /\ rest \in [ErrorMods -> Seq(Nat)] /\ rest[m] = shorter
        /\ \A n \in ErrorMods : n # m => rest[n] = lists[n]
    BY <1>0, <2>3
  <2>6. jx \in [ErrorFps -> Nat] /\ \A f \in ErrorFps : jx[f] # 0 => f \notin gone /\ jx[f] = ix[f]
    BY <1>0
  <2> HIDE DEF jx, rest
  <2>7. ASSUME NEW f \in ErrorFps, jx[f] # 0 PROVE Found(made', jx, rest, items, f)
    <3>1. f \notin gone /\ jx[f] = ix[f] /\ ix[f] # 0
      BY <2>6, <2>7
    <3>2. Found(made', ix, lists, items, f)
      BY <3>1 DEF Sound
    <3>3. ix[f] \in ToSet(rest[ErrorModule[f]])
      <4>1. CASE ErrorModule[f] = m
        <5>1. ~\E i \in 1..over : lists[m][i] = ix[f]
          BY <3>1, <3>2 DEF Found
        <5> QED
          BY <2>3, <2>5, <3>2, <4>1, <5>1 DEF Found
      <4>2. CASE ErrorModule[f] # m
        <5>1. ErrorModule[f] \in ErrorMods
          BY DEF ErrorMods
        <5> QED
          BY <2>5, <3>2, <4>2, <5>1 DEF Found
      <4> QED
        BY <4>1, <4>2
    <3> QED
      BY <3>1, <3>2, <3>3 DEF Found
  <2>8. Lists(made', rest)
    <3>1. ASSUME NEW n \in ErrorMods
          PROVE  IsInjective(rest[n]) /\ ToSet(rest[n]) \subseteq 1..Len(made')
      <4>1. CASE n = m
        BY <2>3, <2>5, <4>1 DEF Sound, Lists
      <4>2. CASE n # m
        BY <2>5, <4>2 DEF Sound, Lists
      <4> QED
        BY <4>1, <4>2
    <3> QED
      BY <2>5, <3>1 DEF Lists
  <2>9. Sound(made', jx, rest, items)
    BY <2>6, <2>7, <2>8 DEF Sound
  <2>10. Indexed(jx) \subseteq Indexed(ix)
    BY <2>6 DEF Indexed
  <2>11. \A n \in ErrorMods : Len(rest[n]) <= Len(lists[n])
    <3>1. ASSUME NEW n \in ErrorMods PROVE Len(rest[n]) <= Len(lists[n])
      <4>1. CASE n = m
        BY <2>4, <2>5, <4>1
      <4>2. CASE n # m
        BY <1>0, <2>5, <4>2
      <4> QED
        BY <4>1, <4>2
    <3> QED
      BY <3>1
  <2>12. Len(rest[m]) <= PerModuleMax
    BY <1>0, <2>4, <2>5
  <2> QED
    BY <2>1, <2>9, <2>10, <2>11, <2>12
<1> QED
  BY <1>1, <1>2

LEMMA TotalEvicted ==
  ASSUME NEW ix, NEW lists, NEW items,
         made' \in Seq(Entry), Sound(made', ix, lists, items),
         Cardinality(Indexed(ix)) <= TotalMax + 1
  PROVE  \E jx, rest, left :
           /\ EvictTotal(Books(ix, lists, items)) = Books(jx, rest, left)
           /\ Sound(made', jx, rest, left)
           /\ Cardinality(Indexed(jx)) <= TotalMax
           /\ left \subseteq items
           /\ \A n \in ErrorMods : Len(rest[n]) <= Len(lists[n])
<1>0. /\ lists \in [ErrorMods -> Seq(Nat)] /\ ix \in [ErrorFps -> Nat]
      /\ \A n \in ErrorMods : Len(lists[n]) \in Nat
      /\ TotalMax \in Nat /\ Heap(made', items)
      /\ Cardinality(Indexed(ix)) \in Nat /\ IsFiniteSet(Indexed(ix))
  BY LenProperties, HistoryAssumption, IndexedFinite DEF Sound, Lists
<1>1. CASE Cardinality(Indexed(ix)) <= TotalMax
  <2>1. EvictTotal(Books(ix, lists, items)) = Books(ix, lists, items)
    BY <1>1 DEF EvictTotal, Books
  <2>2. \A n \in ErrorMods : Len(lists[n]) <= Len(lists[n])
    BY <1>0
  <2> QED
    BY <1>1, <2>1, <2>2
<1>2. CASE ~(Cardinality(Indexed(ix)) <= TotalMax)
  <2> DEFINE live == {x \in items : ~Stale(Books(ix, lists, items), x)}
             oldest == CHOOSE x \in live : \A y \in live : y = x \/ Before(x, y)
  <2>1. \A x \in items : x \in live <=>
          ix[made'[x.entry].fp] # 0 /\ made'[x.entry].last = x.ts
    BY DEF Stale, Books
  <2>2. \A f \in ErrorFps : ix[f] # 0 =>
          \E x \in live : x.entry = ix[f] /\ made'[x.entry].fp = f
    <3> SUFFICES ASSUME NEW f \in ErrorFps, ix[f] # 0
                 PROVE  \E x \in live : x.entry = ix[f] /\ made'[x.entry].fp = f
      OBVIOUS
    <3>1. Found(made', ix, lists, items, f)
      BY DEF Sound
    <3>2. PICK x \in items : x.entry = ix[f] /\ x.ts = made'[ix[f]].last
      BY <3>1 DEF Found
    <3>3. made'[x.entry].fp = f /\ x \in live
      BY <2>1, <3>1, <3>2 DEF Found
    <3> QED
      BY <3>2, <3>3
  <2> HIDE DEF live
  <2>3. live # {}
    <3>1. Indexed(ix) # {}
      BY <1>0, <1>2, FS_EmptySet
    <3>2. PICK f \in ErrorFps : ix[f] # 0
      BY <3>1 DEF Indexed
    <3> QED
      BY <2>2, <3>2
  <2>4. live \in SUBSET items
    BY DEF live
  <2>5. oldest \in live /\ \A y \in live : y = oldest \/ Before(oldest, y)
    BY <1>0, <2>3, <2>4, OldestExists
  <2> HIDE DEF oldest
  <2> DEFINE g == made'[oldest.entry].fp
             m == ErrorModule[g]
             jx == [ix EXCEPT ![g] = 0]
             shorter == RemoveFirst(lists[m], oldest.entry)
             rest == [lists EXCEPT ![m] = shorter]
             left == {x \in items : Before(oldest, x)}
  <2>6. g \in ErrorFps /\ m \in ErrorMods /\ ix[g] # 0
    <3>1. oldest.entry \in 1..Len(made') /\ oldest \in items
      BY <1>0, <2>4, <2>5 DEF Heap
    <3>2. made'[oldest.entry] \in Entry
      BY <3>1, ElementOfSeq
    <3>3. g \in ErrorFps
      BY <3>2 DEF Entry
    <3> QED
      BY <2>1, <2>5, <3>1, <3>3 DEF ErrorMods
  <2>7. EvictTotal(Books(ix, lists, items)) = Books(jx, rest, left)
    <3>1. ~(live = {}) /\ ~(Cardinality(Indexed(ix)) <= TotalMax)
      BY <1>2, <2>3
    <3> QED
      BY <3>1 DEF EvictTotal, Books, live, oldest
  <2>8. /\ shorter \in Seq(Nat) /\ IsInjective(shorter) /\ Len(shorter) <= Len(lists[m])
        /\ ToSet(shorter) \subseteq ToSet(lists[m])
        /\ \A x \in ToSet(lists[m]) : x # oldest.entry => x \in ToSet(shorter)
    <3>1. lists[m] \in Seq(Nat) /\ IsInjective(lists[m])
      BY <1>0, <2>6 DEF Sound, Lists
    <3> HIDE DEF m
    <3> QED
      BY <3>1, Removed
  <2> HIDE DEF shorter, m, g
  <2>9. /\ rest \in [ErrorMods -> Seq(Nat)] /\ rest[m] = shorter
        /\ \A n \in ErrorMods : n # m => rest[n] = lists[n]
    BY <1>0, <2>6, <2>8
  <2>10. /\ jx \in [ErrorFps -> Nat] /\ jx[g] = 0
         /\ \A f \in ErrorFps : f # g => jx[f] = ix[f]
    BY <1>0, <2>6
  <2> HIDE DEF jx, rest
  <2>11. ASSUME NEW f \in ErrorFps, jx[f] # 0 PROVE Found(made', jx, rest, left, f)
    <3>1. f # g /\ jx[f] = ix[f] /\ ix[f] # 0
      BY <2>10, <2>11
    <3>2. Found(made', ix, lists, items, f)
      BY <3>1 DEF Sound
    <3>3. ix[f] # oldest.entry
      BY <3>1, <3>2 DEF Found, g
    <3>4. ix[f] \in ToSet(rest[ErrorModule[f]])
      <4>1. ErrorModule[f] \in ErrorMods
        BY DEF ErrorMods
      <4> QED
        BY <2>8, <2>9, <3>2, <3>3, <4>1 DEF Found
    <3>5. PICK x \in items : x.entry = ix[f] /\ x.ts = made'[ix[f]].last
      BY <3>2 DEF Found
    <3>6. x \in live /\ x # oldest
      BY <2>1, <3>1, <3>2, <3>3, <3>5 DEF Found
    <3>7. x \in left
      BY <2>5, <3>5, <3>6
    <3> QED
      BY <3>1, <3>2, <3>4, <3>5, <3>7 DEF Found
  <2>12. Lists(made', rest)
    <3>1. ASSUME NEW n \in ErrorMods
          PROVE  IsInjective(rest[n]) /\ ToSet(rest[n]) \subseteq 1..Len(made')
      <4>1. CASE n = m
        BY <2>8, <2>9, <4>1 DEF Sound, Lists
      <4>2. CASE n # m
        BY <2>9, <4>2 DEF Sound, Lists
      <4> QED
        BY <4>1, <4>2
    <3> QED
      BY <2>9, <3>1 DEF Lists
  <2>13. Heap(made', left)
    BY <1>0 DEF Heap
  <2>14. Sound(made', jx, rest, left)
    BY <2>10, <2>11, <2>12, <2>13 DEF Sound
  <2>15. Cardinality(Indexed(jx)) <= TotalMax
    <3>1. ix[g] \in Indexed(ix)
      BY <2>6 DEF Indexed
    <3>2. Indexed(jx) \subseteq Indexed(ix) \ {ix[g]}
      <4>1. ASSUME NEW f \in ErrorFps, jx[f] # 0 PROVE jx[f] \in Indexed(ix) /\ jx[f] # ix[g]
        <5>1. f # g /\ jx[f] = ix[f] /\ ix[f] # 0
          BY <2>10, <4>1
        <5>2. made'[ix[f]].fp = f /\ made'[ix[g]].fp = g
          BY <2>6, <5>1 DEF Sound, Found
        <5> QED
          BY <5>1, <5>2 DEF Indexed
      <4> QED
        BY <4>1 DEF Indexed
    <3>3. /\ IsFiniteSet(Indexed(ix) \ {ix[g]})
          /\ Cardinality(Indexed(ix) \ {ix[g]}) = Cardinality(Indexed(ix)) - 1
      BY <1>0, <3>1, FS_RemoveElement
    <3>4. /\ Cardinality(Indexed(jx)) <= Cardinality(Indexed(ix) \ {ix[g]})
          /\ Cardinality(Indexed(jx)) \in Nat
      BY <3>2, <3>3, FS_Subset, FS_CardinalityType
    <3> QED
      BY <1>0, <3>3, <3>4
  <2>16. \A n \in ErrorMods : Len(rest[n]) <= Len(lists[n])
    <3>1. ASSUME NEW n \in ErrorMods PROVE Len(rest[n]) <= Len(lists[n])
      <4>1. CASE n = m
        BY <2>8, <2>9, <4>1
      <4>2. CASE n # m
        BY <1>0, <2>9, <4>2
      <4> QED
        BY <4>1, <4>2
    <3> QED
      BY <3>1
  <2> QED
    BY <2>7, <2>14, <2>15, <2>16
<1> QED
  BY <1>1, <1>2

----------------------------------------------------------------------------
(* The error history: its steps *)

HistoryInv ==
  /\ made \in Seq(Entry) /\ now \in [time : Nat, seq : Nat]
  /\ Sound(made, fpIndex, listed, heap)
  /\ \A x \in heap : x.seq <= now.seq /\ x.ts <= now.time
  /\ Cardinality(Indexed(fpIndex)) <= TotalMax
  /\ \A m \in ErrorMods : Len(listed[m]) <= PerModuleMax

LEMMA HistoryInitInv == HistoryInit => HistoryInv
<1> SUFFICES ASSUME HistoryInit PROVE HistoryInv
  OBVIOUS
<1>1. made \in Seq(Entry) /\ now \in [time : Nat, seq : Nat]
  BY DEF HistoryInit
<1>2. <<>> \in Seq(Nat) /\ Len(<<>>) = 0 /\ IsInjective(<<>>) /\ ToSet(<<>>) = {}
  BY EmptySeq DEF IsInjective, ToSet
<1>3. Lists(made, listed)
  BY <1>2 DEF HistoryInit, Lists
<1>4. Heap(made, heap)
  BY DEF HistoryInit, Heap
<1>5. fpIndex \in [ErrorFps -> Nat] /\ \A f \in ErrorFps : fpIndex[f] = 0
  BY DEF HistoryInit
<1>6. Indexed(fpIndex) = {}
  BY <1>5 DEF Indexed
<1>7. Cardinality(Indexed(fpIndex)) <= TotalMax
  BY <1>6, FS_EmptySet, HistoryAssumption
<1>8. \A m \in ErrorMods : Len(listed[m]) <= PerModuleMax
  BY <1>2, HistoryAssumption DEF HistoryInit
<1> QED
  BY <1>1, <1>3, <1>4, <1>5, <1>7, <1>8 DEF HistoryInv, Sound, HistoryInit

\* One more item, the last so far, for an entry there is.
LEMMA HeapGrows ==
  ASSUME NEW md, NEW items, Heap(md, items), NEW t \in Nat, NEW k \in Nat,
         NEW e \in 1..Len(md),
         \A x \in items : x.seq <= k /\ x.ts <= t
  PROVE  Heap(md, items \cup {[ts |-> t, seq |-> k + 1, entry |-> e]})
<1> DEFINE x0 == [ts |-> t, seq |-> k + 1, entry |-> e]
<1>1. x0 \in Item /\ x0.seq = k + 1 /\ x0.ts = t /\ x0.entry = e
  BY LenProperties DEF Item
<1>2. \A x \in items : x.seq \in Nat /\ x.ts \in Nat
  BY DEF Heap, Item
<1> HIDE DEF x0
<1>3. \A x \in items : x.seq < x0.seq /\ ~(x0.seq < x.seq) /\ x.seq # x0.seq /\ x.ts <= x0.ts
  BY <1>1, <1>2
<1>4. ~(x0.seq < x0.seq)
  BY <1>1
<1> QED
  BY <1>1, <1>3, <1>4 DEF Heap, x0

\* An error that is known: its entry is touched, and a new item stands for it.
LEMMA KnownInv ==
  ASSUME HistoryInv, NEW f \in ErrorFps, fpIndex[f] # 0, NEW t \in {now.time, now.time + 1},
         made' = [made EXCEPT ![fpIndex[f]].last = t],
         now' = [time |-> t, seq |-> now.seq + 1],
         heap' = heap \cup {[ts |-> t, seq |-> now.seq + 1, entry |-> fpIndex[f]]},
         fpIndex' = fpIndex, listed' = listed
  PROVE  HistoryInv'
<1>0. /\ now.time \in Nat /\ now.seq \in Nat /\ t \in Nat /\ now.time <= t
      /\ made \in Seq(Entry) /\ Len(made) \in Nat
      /\ \A x \in heap : x.seq \in Nat /\ x.ts \in Nat
  BY LenProperties DEF HistoryInv, Sound, Heap, Item
<1>1. PICK e \in 1..Len(made) : e = fpIndex[f]
  BY DEF HistoryInv, Sound, Found
<1> DEFINE touched == [made[e] EXCEPT !.last = t]
<1>2. touched \in Entry /\ touched.last = t /\ touched.fp = made[e].fp
  <2>1. made[e] \in Entry
    BY <1>0, ElementOfSeq
  <2> QED
    BY <1>0, <2>1 DEF Entry
<1>3. made' = [made EXCEPT ![e] = touched]
  BY <1>1
<1> HIDE DEF touched
<1>4. /\ made' \in Seq(Entry) /\ Len(made') = Len(made)
      /\ \A i \in 1..Len(made) : made'[i] = IF i = e THEN touched ELSE made[i]
  <2>1. /\ [made EXCEPT ![e] = touched] \in Seq(Entry)
        /\ Len([made EXCEPT ![e] = touched]) = Len(made)
        /\ \A i \in 1..Len(made) :
             [made EXCEPT ![e] = touched][i] = IF i = e THEN touched ELSE made[i]
    <3>1. made \in Seq(Entry) /\ e \in 1..Len(made) /\ touched \in Entry
      BY <1>0, <1>1, <1>2
    <3> QED
      BY <3>1, ExceptSeq
  <2> QED
    BY <1>3, <2>1
<1> DEFINE x0 == [ts |-> t, seq |-> now.seq + 1, entry |-> e]
<1>5. x0.ts = t /\ x0.seq = now.seq + 1 /\ x0.entry = e
  OBVIOUS
<1>6. heap' = heap \cup {x0}
  BY <1>1
<1> HIDE DEF x0
<1>7. Heap(made', heap')
  <2>1. Heap(made', heap)
    BY <1>4 DEF HistoryInv, Sound, Heap
  <2>2. \A x \in heap : x.seq <= now.seq /\ x.ts <= t
    BY <1>0 DEF HistoryInv
  <2>3. e \in 1..Len(made') /\ now.seq \in Nat /\ t \in Nat
    BY <1>0, <1>4
  <2>4. Heap(made', heap \cup {[ts |-> t, seq |-> now.seq + 1, entry |-> e]})
    BY <2>1, <2>2, <2>3, HeapGrows, Zenon
  <2> QED
    BY <1>6, <2>4 DEF x0
<1>8. ASSUME NEW g \in ErrorFps, fpIndex'[g] # 0 PROVE Found(made', fpIndex', listed', heap', g)
  <2>1. Found(made, fpIndex, listed, heap, g)
    BY <1>8 DEF HistoryInv, Sound
  <2>2. CASE fpIndex[g] = e
    BY <1>2, <1>4, <1>5, <1>6, <2>1, <2>2 DEF Found
  <2>3. CASE fpIndex[g] # e
    BY <1>4, <1>6, <2>1, <2>3 DEF Found
  <2> QED
    BY <2>2, <2>3
<1>9. Lists(made', listed')
  BY <1>4 DEF HistoryInv, Sound, Lists
<1>10. Sound(made', fpIndex', listed', heap')
  BY <1>7, <1>8, <1>9 DEF HistoryInv, Sound
<1>11. \A x \in heap' : x.seq <= now'.seq /\ x.ts <= now'.time
  <2>1. now'.seq = now.seq + 1 /\ now'.time = t
    OBVIOUS
  <2>2. \A x \in heap : x.seq <= now.seq + 1 /\ x.ts <= t
    BY <1>0 DEF HistoryInv
  <2> QED
    BY <1>0, <1>5, <1>6, <2>1, <2>2
<1>12. now' \in [time : Nat, seq : Nat]
  BY <1>0
<1> QED
  BY <1>4, <1>10, <1>11, <1>12 DEF HistoryInv

\* The books of a new error, before anything is evicted.
NewIndex(f) == [fpIndex EXCEPT ![f] = Len(made) + 1]
NewLists(f) == [listed EXCEPT ![ErrorModule[f]] = Append(@, Len(made) + 1)]
NewItems(t) == heap \cup {[ts |-> t, seq |-> now.seq + 1, entry |-> Len(made) + 1]}

LEMMA Entered ==
  ASSUME HistoryInv, NEW f \in ErrorFps, fpIndex[f] = 0, NEW t \in {now.time, now.time + 1},
         made' = Append(made, [fp |-> f, last |-> t])
  PROVE  /\ made' \in Seq(Entry)
         /\ Sound(made', NewIndex(f), NewLists(f), NewItems(t))
         /\ Cardinality(Indexed(NewIndex(f))) <= TotalMax + 1
         /\ \A m \in ErrorMods : m # ErrorModule[f] => NewLists(f)[m] = listed[m]
<1> DEFINE e == Len(made) + 1
           ix == NewIndex(f)
           lists == NewLists(f)
           items == NewItems(t)
<1>16. /\ ix = [fpIndex EXCEPT ![f] = e]
       /\ lists = [listed EXCEPT ![ErrorModule[f]] = Append(@, e)]
       /\ items = heap \cup {[ts |-> t, seq |-> now.seq + 1, entry |-> e]}
  BY DEF NewIndex, NewLists, NewItems
<1>17. e = Len(made) + 1
  OBVIOUS
<1> HIDE DEF e, ix, lists, items
<1>0. /\ now.time \in Nat /\ now.seq \in Nat /\ t \in Nat /\ now.time <= t
      /\ made \in Seq(Entry) /\ Len(made) \in Nat /\ e \in Nat \ {0}
      /\ \A x \in heap : x.seq \in Nat /\ x.ts \in Nat
      /\ ErrorModule[f] \in ErrorMods
  BY <1>17, LenProperties DEF HistoryInv, Sound, Heap, Item, ErrorMods
<1> DEFINE fresh == [fp |-> f, last |-> t]
<1>1. fresh \in Entry /\ fresh.fp = f /\ fresh.last = t
  BY <1>0 DEF Entry
<1> HIDE DEF fresh
<1>2. /\ made' \in Seq(Entry) /\ Len(made') = e /\ made'[e] = fresh
      /\ \A i \in 1..Len(made) : made'[i] = made[i]
  BY <1>0, <1>1, <1>17, AppendProperties DEF fresh
<1>3. \A i \in 1..Len(made) : i \in 1..Len(made') /\ i # e
  BY <1>0, <1>2
<1>4. e \in 1..Len(made') /\ e # 0
  BY <1>0, <1>2
<1> DEFINE x0 == [ts |-> t, seq |-> now.seq + 1, entry |-> e]
<1>5. x0.ts = t /\ x0.seq = now.seq + 1 /\ x0.entry = e
  OBVIOUS
<1>6. Heap(made', items)
  <2>1. Heap(made', heap)
    BY <1>2, <1>3 DEF HistoryInv, Sound, Heap
  <2>2. \A x \in heap : x.seq <= now.seq /\ x.ts <= t
    BY <1>0 DEF HistoryInv
  <2>3. Heap(made', heap \cup {[ts |-> t, seq |-> now.seq + 1, entry |-> e]})
    BY <1>0, <1>4, <2>1, <2>2, HeapGrows, Zenon
  <2> QED
    BY <1>16, <2>3
<1>7. PICK m \in ErrorMods : m = ErrorModule[f]
  BY <1>0
<1>8. PICK longer : longer = Append(listed[m], e)
  OBVIOUS
<1>9. /\ longer \in Seq(Nat) /\ IsInjective(longer) /\ ToSet(longer) = ToSet(listed[m]) \cup {e}
  <2>1. /\ listed[m] \in Seq(Nat) /\ IsInjective(listed[m])
        /\ ToSet(listed[m]) \subseteq 1..Len(made)
    BY DEF HistoryInv, Sound, Lists
  <2>2. /\ longer \in Seq(Nat) /\ Len(longer) = Len(listed[m]) + 1
        /\ \A i \in 1..Len(listed[m]) : longer[i] = listed[m][i]
        /\ longer[Len(listed[m]) + 1] = e
    BY <1>0, <1>8, <2>1, AppendProperties
  <2>3. /\ Len(listed[m]) \in Nat
        /\ 1..Len(longer) = (1..Len(listed[m])) \cup {Len(listed[m]) + 1}
    BY <2>1, <2>2, Elements
  <2>4. /\ ToSet(listed[m]) = {listed[m][i] : i \in 1..Len(listed[m])}
        /\ ToSet(longer) = {longer[i] : i \in 1..Len(longer)}
    BY <2>1, <2>2, Elements
  <2>5. {longer[i] : i \in 1..Len(longer)} = {longer[i] : i \in 1..Len(listed[m])} \cup {e}
    BY <2>2, <2>3
  <2>6. {longer[i] : i \in 1..Len(listed[m])} = {listed[m][i] : i \in 1..Len(listed[m])}
    BY <2>2
  <2>7. ToSet(longer) = ToSet(listed[m]) \cup {e}
    BY <2>4, <2>5, <2>6
  <2>8. \A i \in 1..Len(listed[m]) : listed[m][i] # e
    BY <1>3, <2>1, <2>4
  <2>9. IsInjective(longer)
    <3> SUFFICES ASSUME NEW a \in 1..Len(longer), NEW b \in 1..Len(longer), longer[a] = longer[b]
                 PROVE  a = b
      BY <2>2, Elements DEF IsInjective
    <3>1. CASE a \in 1..Len(listed[m]) /\ b \in 1..Len(listed[m])
      BY <2>1, <2>2, <3>1, Elements DEF IsInjective
    <3>2. CASE a \notin 1..Len(listed[m]) \/ b \notin 1..Len(listed[m])
      BY <2>2, <2>3, <2>8, <3>2
    <3> QED
      BY <3>1, <3>2
  <2> QED
    BY <2>2, <2>7, <2>9
<1>10. /\ lists \in [ErrorMods -> Seq(Nat)] /\ lists[m] = longer
       /\ \A n \in ErrorMods : n # m => lists[n] = listed[n]
  <2>1. lists = [listed EXCEPT ![m] = longer] /\ listed \in [ErrorMods -> Seq(Nat)]
    BY <1>7, <1>8, <1>16 DEF HistoryInv, Sound, Lists
  <2> QED
    BY <1>9, <2>1
<1>11. Lists(made', lists)
  <2>1. ASSUME NEW n \in ErrorMods
        PROVE  IsInjective(lists[n]) /\ ToSet(lists[n]) \subseteq 1..Len(made')
    <3>1. IsInjective(listed[n]) /\ ToSet(listed[n]) \subseteq 1..Len(made')
      BY <1>3 DEF HistoryInv, Sound, Lists
    <3>2. CASE n = m
      BY <1>4, <1>9, <1>10, <3>1, <3>2
    <3>3. CASE n # m
      BY <1>10, <3>1, <3>3
    <3> QED
      BY <3>2, <3>3
  <2> QED
    BY <1>10, <2>1 DEF Lists
<1>12. /\ ix \in [ErrorFps -> Nat] /\ ix[f] = e /\ \A g \in ErrorFps : g # f => ix[g] = fpIndex[g]
  BY <1>0, <1>16 DEF HistoryInv, Sound
<1>13. ASSUME NEW g \in ErrorFps, ix[g] # 0 PROVE Found(made', ix, lists, items, g)
  <2>1. CASE g = f
    <3>1. x0 \in items /\ made'[e].last = t /\ made'[e].fp = f
      BY <1>1, <1>2, <1>5, <1>16
    <3>2. e \in ToSet(lists[ErrorModule[f]])
      BY <1>7, <1>9, <1>10
    <3> QED
      BY <1>4, <1>5, <1>12, <2>1, <3>1, <3>2 DEF Found
  <2>2. CASE g # f
    <3>1. ix[g] = fpIndex[g] /\ Found(made, fpIndex, listed, heap, g)
      BY <1>12, <1>13, <2>2 DEF HistoryInv, Sound
    <3>2. fpIndex[g] \in ToSet(lists[ErrorModule[g]])
      <4>1. ErrorModule[g] \in ErrorMods
        BY DEF ErrorMods
      <4> QED
        BY <1>9, <1>10, <3>1, <4>1 DEF Found
    <3>3. fpIndex[g] \in 1..Len(made') /\ made'[fpIndex[g]] = made[fpIndex[g]]
      BY <1>2, <1>3, <3>1 DEF Found
    <3>4. heap \subseteq items
      BY <1>16
    <3> QED
      BY <3>1, <3>2, <3>3, <3>4 DEF Found
  <2> QED
    BY <2>1, <2>2
<1>14. Sound(made', ix, lists, items)
  BY <1>6, <1>11, <1>12, <1>13 DEF Sound
<1>15. Cardinality(Indexed(ix)) <= TotalMax + 1
  <2>1. Indexed(ix) \subseteq Indexed(fpIndex) \cup {e}
    BY <1>12 DEF Indexed
  <2>2. IsFiniteSet(Indexed(fpIndex)) /\ Cardinality(Indexed(fpIndex)) \in Nat
    BY <1>0, IndexedFinite DEF HistoryInv
  <2>3. /\ IsFiniteSet(Indexed(fpIndex) \cup {e})
        /\ \/ Cardinality(Indexed(fpIndex) \cup {e}) = Cardinality(Indexed(fpIndex)) + 1
           \/ Cardinality(Indexed(fpIndex) \cup {e}) = Cardinality(Indexed(fpIndex))
    BY <2>2, FS_AddElement
  <2>4. /\ Cardinality(Indexed(ix)) <= Cardinality(Indexed(fpIndex) \cup {e})
        /\ Cardinality(Indexed(ix)) \in Nat
    BY <2>1, <2>3, FS_Subset, FS_CardinalityType
  <2>5. TotalMax \in Nat /\ Cardinality(Indexed(fpIndex)) <= TotalMax
    BY HistoryAssumption DEF HistoryInv
  <2> QED
    BY <2>2, <2>3, <2>4, <2>5
<1> QED
  BY <1>2, <1>7, <1>10, <1>14, <1>15 DEF ix, lists, items

LEMMA RecordInv == ASSUME HistoryInv, NEW f \in ErrorFps, Record(f) PROVE HistoryInv'
<1>0. /\ now.time \in Nat /\ now.seq \in Nat
      /\ \A n \in ErrorMods : Len(listed[n]) \in Nat
      /\ PerModuleMax \in Nat /\ ErrorModule[f] \in ErrorMods
  BY LenProperties, HistoryAssumption DEF HistoryInv, Sound, Lists, ErrorMods
<1>1. CASE fpIndex[f] # 0
  <2>1. PICK t \in {now.time, now.time + 1} :
          /\ now' = [time |-> t, seq |-> now.seq + 1]
          /\ made' = [made EXCEPT ![fpIndex[f]].last = t]
          /\ heap' = heap \cup {[ts |-> t, seq |-> now.seq + 1, entry |-> fpIndex[f]]}
          /\ fpIndex' = fpIndex /\ listed' = listed
    BY <1>1 DEF Record, Pushed, Books
  <2> QED
    BY <1>1, <2>1, KnownInv
<1>2. CASE fpIndex[f] = 0
  <2> DEFINE ix == NewIndex(f)
             lists == NewLists(f)
  <2>1. PICK t \in {now.time, now.time + 1} :
          /\ now' = [time |-> t, seq |-> now.seq + 1]
          /\ made' = Append(made, [fp |-> f, last |-> t])
          /\ LET b == EvictTotal(EvictModule(Books(ix, lists, NewItems(t)), ErrorModule[f])) IN
               fpIndex' = b.ix /\ listed' = b.lists /\ heap' = b.items
    BY <1>2 DEF Record, Pushed, NewIndex, NewLists, NewItems
  <2> DEFINE items == NewItems(t)
             b == EvictTotal(EvictModule(Books(ix, lists, items), ErrorModule[f]))
  <2>11. fpIndex' = b.ix /\ listed' = b.lists /\ heap' = b.items
    BY <2>1
  <2>2. /\ made' \in Seq(Entry) /\ Sound(made', ix, lists, items)
        /\ Cardinality(Indexed(ix)) <= TotalMax + 1
        /\ \A m \in ErrorMods : m # ErrorModule[f] => lists[m] = listed[m]
    BY <1>2, <2>1, Entered
  <2> HIDE DEF ix, lists, items
  <2>3. PICK jx, rest :
           /\ EvictModule(Books(ix, lists, items), ErrorModule[f]) = Books(jx, rest, items)
           /\ Sound(made', jx, rest, items)
           /\ Indexed(jx) \subseteq Indexed(ix)
           /\ Len(rest[ErrorModule[f]]) <= PerModuleMax
           /\ \A n \in ErrorMods : Len(rest[n]) <= Len(lists[n])
    BY <1>0, <2>2, ModuleEvicted
  <2>4. Cardinality(Indexed(jx)) <= TotalMax + 1
    <3>1. /\ Cardinality(Indexed(jx)) <= Cardinality(Indexed(ix))
          /\ Cardinality(Indexed(jx)) \in Nat /\ Cardinality(Indexed(ix)) \in Nat
      BY <2>2, <2>3, IndexedFinite, FS_Subset
    <3> QED
      BY <2>2, <3>1, HistoryAssumption
  <2>5. PICK kx, kept, left :
           /\ EvictTotal(Books(jx, rest, items)) = Books(kx, kept, left)
           /\ Sound(made', kx, kept, left)
           /\ Cardinality(Indexed(kx)) <= TotalMax
           /\ left \subseteq items
           /\ \A n \in ErrorMods : Len(kept[n]) <= Len(rest[n])
    BY <2>2, <2>3, <2>4, TotalEvicted
  <2>6. fpIndex' = kx /\ listed' = kept /\ heap' = left
    BY <2>3, <2>5, <2>11 DEF Books
  <2>7. ASSUME NEW n \in ErrorMods PROVE Len(kept[n]) <= PerModuleMax
    <3>1. Len(kept[n]) \in Nat /\ Len(rest[n]) \in Nat /\ Len(lists[n]) \in Nat
      BY <2>2, <2>3, <2>5, LenProperties DEF Sound, Lists
    <3>2. Len(rest[n]) <= PerModuleMax
      <4>1. CASE n = ErrorModule[f]
        BY <2>3, <4>1
      <4>2. CASE n # ErrorModule[f]
        <5>1. lists[n] = listed[n] /\ Len(listed[n]) <= PerModuleMax
          BY <2>2, <4>2 DEF HistoryInv
        <5> QED
          BY <1>0, <2>3, <3>1, <5>1
      <4> QED
        BY <4>1, <4>2
    <3> QED
      BY <1>0, <2>5, <3>1, <3>2
  <2>8. \A x \in left : x.seq <= now'.seq /\ x.ts <= now'.time
    <3>1. t \in Nat /\ now.time <= t /\ now'.seq = now.seq + 1 /\ now'.time = t
      BY <1>0, <2>1
    <3>2. \A x \in heap : x.seq <= now.seq + 1 /\ x.ts <= t
      <4>1. \A x \in heap : x.seq \in Nat /\ x.ts \in Nat
        BY DEF HistoryInv, Sound, Heap, Item
      <4> QED
        BY <1>0, <3>1, <4>1 DEF HistoryInv
    <3> DEFINE x0 == [ts |-> t, seq |-> now.seq + 1, entry |-> Len(made) + 1]
    <3>3. x0.ts = t /\ x0.seq = now.seq + 1
      OBVIOUS
    <3>5. items = heap \cup {x0}
      BY DEF items, NewItems
    <3> HIDE DEF x0
    <3>4. \A x \in items : x.seq <= now.seq + 1 /\ x.ts <= t
      BY <1>0, <3>1, <3>2, <3>3, <3>5
    <3> QED
      BY <2>5, <3>1, <3>4
  <2>9. now' \in [time : Nat, seq : Nat]
    BY <1>0, <2>1
  <2> QED
    BY <2>2, <2>5, <2>6, <2>7, <2>8, <2>9 DEF HistoryInv
<1> QED
  BY <1>1, <1>2

\* clear() and clearModule() take entries out of both indexes together.
LEMMA ClearedInv ==
  ASSUME HistoryInv, UNCHANGED <<made, heap, now>>,
         fpIndex' \in [ErrorFps -> Nat], listed' \in [ErrorMods -> Seq(Nat)],
         \A m \in ErrorMods : listed'[m] = listed[m] \/ listed'[m] = <<>>,
         \A f \in ErrorFps : fpIndex'[f] # 0 =>
           fpIndex'[f] = fpIndex[f] /\ listed'[ErrorModule[f]] = listed[ErrorModule[f]]
  PROVE  HistoryInv'
<1>1. <<>> \in Seq(Nat) /\ Len(<<>>) = 0 /\ IsInjective(<<>>) /\ ToSet(<<>>) = {}
  BY EmptySeq DEF IsInjective, ToSet
<1>2. Lists(made', listed')
  BY <1>1 DEF HistoryInv, Sound, Lists
<1>3. Heap(made', heap')
  BY DEF HistoryInv, Sound
<1>4. ASSUME NEW f \in ErrorFps, fpIndex'[f] # 0 PROVE Found(made', fpIndex', listed', heap', f)
  <2>1. Found(made, fpIndex, listed, heap, f)
    BY <1>4 DEF HistoryInv, Sound
  <2>2. /\ fpIndex'[f] = fpIndex[f] /\ listed'[ErrorModule[f]] = listed[ErrorModule[f]]
        /\ made' = made /\ heap' = heap
    BY <1>4
  <2> QED
    BY <2>1, <2>2 DEF Found
<1>5. Sound(made', fpIndex', listed', heap')
  BY <1>2, <1>3, <1>4 DEF Sound
<1>6. Cardinality(Indexed(fpIndex')) <= TotalMax
  <2>1. Indexed(fpIndex') \subseteq Indexed(fpIndex)
    BY DEF Indexed
  <2>2. /\ IsFiniteSet(Indexed(fpIndex)) /\ Cardinality(Indexed(fpIndex)) \in Nat
        /\ Cardinality(Indexed(fpIndex')) \in Nat
    BY <1>5, IndexedFinite DEF HistoryInv
  <2>3. Cardinality(Indexed(fpIndex')) <= Cardinality(Indexed(fpIndex))
    BY <2>1, <2>2, FS_Subset
  <2> QED
    BY <2>2, <2>3, HistoryAssumption DEF HistoryInv
<1>7. ASSUME NEW m \in ErrorMods PROVE Len(listed'[m]) <= PerModuleMax
  <2>1. CASE listed'[m] = listed[m]
    BY <2>1 DEF HistoryInv
  <2>2. CASE listed'[m] = <<>>
    BY <1>1, <2>2, HistoryAssumption
  <2> QED
    BY <2>1, <2>2
<1> QED
  BY <1>5, <1>6, <1>7 DEF HistoryInv

LEMMA HistoryNextInv == HistoryInv /\ [HistoryNext]_historyVars => HistoryInv'
<1> SUFFICES ASSUME HistoryInv, [HistoryNext]_historyVars PROVE HistoryInv'
  OBVIOUS
<1>0. /\ <<>> \in Seq(Nat) /\ fpIndex \in [ErrorFps -> Nat]
      /\ listed \in [ErrorMods -> Seq(Nat)]
  BY EmptySeq DEF HistoryInv, Sound, Lists
<1>1. ASSUME NEW f \in ErrorFps, Record(f) PROVE HistoryInv'
  BY <1>1, RecordInv
<1>2. CASE ClearHistory
  <2>1. /\ UNCHANGED <<made, heap, now>>
        /\ fpIndex' \in [ErrorFps -> Nat] /\ \A f \in ErrorFps : fpIndex'[f] = 0
        /\ listed' \in [ErrorMods -> Seq(Nat)] /\ \A m \in ErrorMods : listed'[m] = <<>>
    BY <1>0, <1>2 DEF ClearHistory
  <2> QED
    BY <2>1, ClearedInv
<1>3. ASSUME NEW m \in ErrorMods, ClearModule(m) PROVE HistoryInv'
  <2>1. PICK gone : /\ gone = {made[e].fp : e \in ToSet(listed[m])}
                    /\ fpIndex' = [f \in ErrorFps |-> IF f \in gone THEN 0 ELSE fpIndex[f]]
    BY <1>3 DEF ClearModule
  <2>2. UNCHANGED <<made, heap, now>> /\ listed' = [listed EXCEPT ![m] = <<>>]
    BY <1>3 DEF ClearModule
  <2>3. /\ fpIndex' \in [ErrorFps -> Nat] /\ listed' \in [ErrorMods -> Seq(Nat)]
        /\ \A n \in ErrorMods : listed'[n] = listed[n] \/ listed'[n] = <<>>
    BY <1>0, <2>1, <2>2
  <2>4. ASSUME NEW f \in ErrorFps, fpIndex'[f] # 0
        PROVE  fpIndex'[f] = fpIndex[f] /\ listed'[ErrorModule[f]] = listed[ErrorModule[f]]
    <3>1. f \notin gone /\ fpIndex'[f] = fpIndex[f] /\ fpIndex[f] # 0
      BY <2>1, <2>4
    <3>2. Found(made, fpIndex, listed, heap, f)
      BY <3>1 DEF HistoryInv, Sound
    <3>3. ErrorModule[f] # m
      BY <2>1, <3>1, <3>2 DEF Found
    <3>4. ErrorModule[f] \in ErrorMods
      BY DEF ErrorMods
    <3> QED
      BY <1>0, <2>2, <3>1, <3>3, <3>4
  <2> QED
    BY <2>2, <2>3, <2>4, ClearedInv
<1>4. CASE UNCHANGED historyVars
  <2>1. made' = made /\ fpIndex' = fpIndex /\ listed' = listed /\ heap' = heap /\ now' = now
    BY <1>4 DEF historyVars
  <2> QED
    BY <2>1 DEF HistoryInv
<1> QED
  BY <1>1, <1>2, <1>3, <1>4 DEF HistoryNext

\* However errors are recorded, evicted and cleared, the history of
\* ErrorHistory keeps its two limits and its indexes agree, and what a lookup
\* finds always has an item in the heap: _evictTotal ends.
THEOREM EvictionNeverStarves == HistorySpec => []Evictable
<1>1. HistorySpec => []HistoryInv
  BY HistoryInitInv, HistoryNextInv, PTL DEF HistorySpec
<1>2. HistoryInv => Evictable
  BY DEF HistoryInv, Sound, Found, Lists, Evictable
<1> QED
  BY <1>1, <1>2, PTL

----------------------------------------------------------------------------
(* The state of the watchers *)

CallStages == {"new", "before", "body", "after", "onError", "ended"}
StackEntries == [call : WatchedCalls, attempt : 1 .. 2, parent : WatchedCalls \cup {NoCall}]
WatchNotes == [told : WatchedCalls, of : StackEntries \cup {<<>>}, ok : BOOLEAN]

RateNotes == {"exceeded", "recovered"}

WatcherTypes ==
  /\ watchers \in Chains /\ IsChain(watchers)
  /\ calls \in [WatchedCalls -> [stage : CallStages, at : 0 .. Len(watchers), attempt : 0 .. 2,
                                 by : WatchedCalls \cup {NoCall}]]
  /\ data \in [stacks : [Stacked -> Seq(StackEntries)], sampled : {"undecided", "yes", "no"}]
  /\ noted \in [Stacked -> SUBSET WatchNotes]
  /\ rateEvents \in Seq(RateNotes)

\* A hook is somewhere in the chain; who was not called has made no attempt,
\* nor has anybody after it.
InChain(c) ==
  /\ calls[c].stage \in {"before", "after", "onError"} => calls[c].at \in 1 .. Len(watchers)
  /\ calls[c].stage = "new" <=> calls[c].attempt = 0
  /\ calls[c].stage = "new" => \A d \in (c + 1) .. Watched : calls[d].stage = "new"

\* The places whose hooks a call has opened and not yet told, and who is there.
OpenPlaces(c) ==
  CASE calls[c].stage = "before" -> 1 .. (calls[c].at - 1)
    [] calls[c].stage = "body" -> 1 .. Len(watchers)
    [] calls[c].stage \in {"after", "onError"} -> 1 .. calls[c].at
    [] calls[c].stage \in {"new", "ended"} -> {}
Holds(c, k) == \E i \in OpenPlaces(c) : watchers[i] = k
Holders(k) == {c \in WatchedCalls : Holds(c, k)}

\* The watcher k has been passed in the attempt under way.
Passed(c, k) ==
  /\ calls[c].stage # "new"
  /\ \E i \in 1 .. Len(watchers) : watchers[i] = k /\ (calls[c].stage = "before" => i < calls[c].at)
Made(k, e) ==
  e.attempt < calls[e.call].attempt \/ (e.attempt = calls[e.call].attempt /\ Passed(e.call, k))

\* Every entry was made by an attempt that has passed the watcher, and is in
\* one place.
OnePlace(k) ==
  LET stack == data.stacks[k] IN
  /\ \A i \in 1 .. Len(stack) : Made(k, stack[i])
  /\ \A n \in noted[k] : n.of # <<>> => Made(k, n.of)
  /\ \A i, j \in 1 .. Len(stack) : stack[i] = stack[j] => i = j
  /\ \A i \in 1 .. Len(stack) : \A n \in noted[k] : n.of # stack[i]
  /\ \A m, n \in noted[k] : m.of = n.of /\ m.of # <<>> => m = n

\* As long as every hook that was opened is told once: a stack has an entry
\* for each holder, and whoever made an entry holds it or was told.
ToldAt(c, k) == \E n \in noted[k] : n.told = c
KnownAt(c, k) ==
  \/ \E i \in 1 .. Len(data.stacks[k]) : data.stacks[k][i].call = c
  \/ \E n \in noted[k] : n.of.call = c
Balanced(k) ==
  /\ Len(data.stacks[k]) = Cardinality(Holders(k))
  /\ \A n \in noted[k] : n.of \in StackEntries
  /\ k # "tracing" => \A c \in WatchedCalls : Holds(c, k) \/ ToldAt(c, k) <=> KnownAt(c, k)

\* As long as the calls nest besides: each is made by the one before it among
\* those under way, which waits for it in its body.
Linked(d) ==
  /\ \A c \in WatchedCalls : UnderWay(c) /\ c < d => calls[c].stage = "body"
  /\ calls[d].by = NoCall => \A c \in WatchedCalls : UnderWay(c) => ~(c < d)
  /\ calls[d].by # NoCall => /\ UnderWay(calls[d].by) /\ calls[d].by < d
                             /\ \A c \in WatchedCalls : UnderWay(c) => ~(calls[d].by < c /\ c < d)
CallsNest == \A d \in WatchedCalls : UnderWay(d) => Linked(d)

\* The stacks follow the nesting, and whoever is told takes its own entry.
StackNests(k) ==
  LET stack == data.stacks[k] IN
  /\ \A i, j \in 1 .. Len(stack) : i < j => stack[i].call < stack[j].call
  /\ \A c \in WatchedCalls : Holds(c, k) <=> \E i \in 1 .. Len(stack) : stack[i].call = c
  /\ k = "tracing" => \A i \in 1 .. Len(stack) : stack[i].parent = calls[stack[i].call].by
OwnNotes(k) ==
  \A n \in noted[k] :
    /\ n.of \in StackEntries /\ n.of.call = n.told
    /\ k = "tracing" => n.of.parent = calls[n.told].by

Balance == ~cut => \A k \in Stacked : Balanced(k)
Nesting == ~cut /\ ~overlapped => CallsNest /\ \A k \in Stacked : StackNests(k) /\ OwnNotes(k)

ObsInv ==
  /\ WatcherTypes /\ \A c \in WatchedCalls : InChain(c)
  /\ \A k \in Stacked : OnePlace(k)
  /\ Balance /\ Nesting /\ SampledWhole /\ AlertsAlternate

----------------------------------------------------------------------------
(* What the properties need of it *)

LEMMA EntriesAreNotEmpty == \A e \in StackEntries : e # <<>>
  BY DEF StackEntries

LEMMA NothingIsLost ==
  ASSUME ObsInv
  PROVE  NothingLost
<1>1. ASSUME NEW k \in Stacked, NEW m \in noted[k], NEW n \in noted[k], m.of = n.of, m.of # <<>> PROVE m = n
  BY <1>1 DEF ObsInv, OnePlace
<1>2. ASSUME ~cut, \A c \in WatchedCalls : calls[c].stage \in {"new", "ended"}, NEW k \in Stacked
      PROVE  /\ data.stacks[k] = <<>>
             /\ k # "tracing" => {n.told : n \in noted[k]} = {n.of.call : n \in noted[k]}
  <2>1. Balanced(k)
    BY <1>2 DEF ObsInv, Balance
  <2>2. \A c \in WatchedCalls : ~Holds(c, k)
    BY <1>2 DEF Holds, OpenPlaces
  <2>3. Holders(k) = {}
    BY <2>2 DEF Holders
  <2>4. Len(data.stacks[k]) = 0
    BY <2>1, <2>3, FS_EmptySet DEF Balanced
  <2>5. data.stacks[k] \in Seq(StackEntries) /\ noted[k] \subseteq WatchNotes
    BY DEF ObsInv, WatcherTypes
  <2>6. data.stacks[k] = <<>>
    BY <2>4, <2>5
  <2>7. ASSUME k # "tracing" PROVE {n.told : n \in noted[k]} = {n.of.call : n \in noted[k]}
    <3>1. \A n \in noted[k] : n.told \in WatchedCalls /\ n.of.call \in WatchedCalls
      BY <2>1, <2>5 DEF Balanced, WatchNotes, StackEntries
    <3>2. \A c \in WatchedCalls : (\E n \in noted[k] : n.told = c) <=> (\E n \in noted[k] : n.of.call = c)
      BY <2>1, <2>2, <2>4, <2>7 DEF Balanced, ToldAt, KnownAt
    <3> QED
      BY <3>1, <3>2
  <2> QED
    BY <2>6, <2>7
<1> QED
  BY <1>1, <1>2 DEF NothingLost

LEMMA EverybodyIsHonest ==
  ASSUME ObsInv
  PROVE  ObserversHonest
<1>1. OwnWhenNested
  <2> SUFFICES ASSUME ~overlapped, ~cut, NEW k \in Stacked, NEW n \in noted[k]
               PROVE  /\ n.of # <<>> /\ n.of.call = n.told
                      /\ k = "tracing" => n.of.parent = calls[n.told].by
    BY DEF OwnWhenNested
  <2>1. OwnNotes(k)
    BY DEF ObsInv, Nesting
  <2> QED
    BY <2>1, EntriesAreNotEmpty DEF OwnNotes
<1> QED
  BY <1>1, NothingIsLost DEF ObserversHonest, ObsInv

----------------------------------------------------------------------------
(* A step of one call *)

OthersStay(c) == watchers' = watchers /\ \A d \in WatchedCalls \ {c} : calls'[d] = calls[d]

LEMMA OthersKeep ==
  ASSUME NEW c \in WatchedCalls, OthersStay(c), NEW d \in WatchedCalls \ {c}
  PROVE  /\ UnderWay(d)' <=> UnderWay(d)
         /\ \A k : (Holds(d, k)' <=> Holds(d, k)) /\ (Passed(d, k)' <=> Passed(d, k))
<1>1. calls'[d] = calls[d] /\ watchers' = watchers
  BY DEF OthersStay
<1>2. OpenPlaces(d)' = OpenPlaces(d)
  BY <1>1 DEF OpenPlaces
<1> QED
  BY <1>1, <1>2 DEF UnderWay, Holds, Passed

\* Nobody goes back behind what has been passed.
GoesOn(c) ==
  /\ calls'[c].attempt >= calls[c].attempt
  /\ calls'[c].attempt = calls[c].attempt => \A k \in Stacked : Passed(c, k) => Passed(c, k)'
ByStays(c) == calls[c].stage # "new" => calls'[c].by = calls[c].by

LEMMA MadeStays ==
  ASSUME WatcherTypes, WatcherTypes', NEW c \in WatchedCalls, OthersStay(c), GoesOn(c),
         NEW k \in Stacked, NEW e \in StackEntries, Made(k, e)
  PROVE  Made(k, e)'
<1>1. PICK d \in WatchedCalls, a \in 1 .. 2 : d = e.call /\ a = e.attempt
  BY DEF StackEntries
<1>2. calls[d].attempt \in 0 .. 2 /\ calls'[d].attempt \in 0 .. 2
  BY DEF WatcherTypes
<1>3. CASE d # c
  BY <1>1, <1>3, OthersKeep DEF Made, OthersStay
<1>4. CASE d = c
  BY <1>1, <1>2, <1>4 DEF Made, GoesOn
<1> QED
  BY <1>3, <1>4

\* A step that leaves the entries of k alone.
LEMMA OnePlaceStays ==
  ASSUME WatcherTypes, WatcherTypes', NEW c \in WatchedCalls, OthersStay(c), GoesOn(c),
         NEW k \in Stacked, OnePlace(k), data'.stacks[k] = data.stacks[k], noted'[k] = noted[k]
  PROVE  OnePlace(k)'
<1>1. PICK stack, notes : stack = data.stacks[k] /\ notes = noted[k]
  OBVIOUS
<1>2. stack \in Seq(StackEntries) /\ notes \subseteq WatchNotes
  BY <1>1 DEF WatcherTypes
<1>3. \A i \in 1 .. Len(stack) : Made(k, stack[i])'
  BY <1>1, <1>2, MadeStays DEF OnePlace
<1>4. ASSUME NEW n \in notes, n.of # <<>> PROVE Made(k, n.of)'
  <2>1. n.of \in StackEntries /\ Made(k, n.of)
    BY <1>1, <1>2, <1>4 DEF WatchNotes, OnePlace
  <2> QED
    BY <2>1, MadeStays
<1> QED
  BY <1>1, <1>3, <1>4 DEF OnePlace

LEMMA BalancedStays ==
  ASSUME NEW c \in WatchedCalls, OthersStay(c), NEW k \in Stacked, Balanced(k), Holds(c, k)' <=> Holds(c, k),
         data'.stacks[k] = data.stacks[k], noted'[k] = noted[k]
  PROVE  Balanced(k)'
<1>1. \A d \in WatchedCalls : Holds(d, k)' <=> Holds(d, k)
  BY OthersKeep
<1>2. Holders(k)' = Holders(k)
  BY <1>1 DEF Holders
<1>3. \A d : (ToldAt(d, k)' <=> ToldAt(d, k)) /\ (KnownAt(d, k)' <=> KnownAt(d, k))
  BY DEF ToldAt, KnownAt
<1> QED
  BY <1>1, <1>2, <1>3 DEF Balanced

LEMMA NotNewOnce ==
  ASSUME WatcherTypes, \A d \in WatchedCalls : InChain(d), NEW k \in Stacked, NEW e \in StackEntries, Made(k, e)
  PROVE  calls[e.call].stage # "new"
<1>1. PICK d \in WatchedCalls, a \in 1 .. 2 : d = e.call /\ a = e.attempt
  BY DEF StackEntries
<1>2. calls[d].attempt \in 0 .. 2 /\ calls[d].attempt >= a
  BY <1>1 DEF WatcherTypes, Made
<1> QED
  BY <1>1, <1>2 DEF InChain

LEMMA NestsStays ==
  ASSUME WatcherTypes, \A d \in WatchedCalls : InChain(d), NEW c \in WatchedCalls, OthersStay(c), ByStays(c),
         NEW k \in Stacked, OnePlace(k), StackNests(k), OwnNotes(k), Holds(c, k)' <=> Holds(c, k),
         data'.stacks[k] = data.stacks[k], noted'[k] = noted[k]
  PROVE  StackNests(k)' /\ OwnNotes(k)'
<1>1. PICK stack, notes : stack = data.stacks[k] /\ notes = noted[k]
  OBVIOUS
<1>2. stack \in Seq(StackEntries) /\ notes \subseteq WatchNotes
  BY <1>1 DEF WatcherTypes
<1>3. \A d \in WatchedCalls : Holds(d, k)' <=> Holds(d, k)
  BY OthersKeep
<1>4. \A d \in WatchedCalls : calls[d].stage # "new" => calls'[d].by = calls[d].by
  BY DEF OthersStay, ByStays
<1>5. ASSUME NEW i \in 1 .. Len(stack) PROVE calls'[stack[i].call].by = calls[stack[i].call].by
  <2>1. stack[i] \in StackEntries /\ Made(k, stack[i])
    BY <1>1, <1>2 DEF OnePlace
  <2>2. stack[i].call \in WatchedCalls /\ calls[stack[i].call].stage # "new"
    BY <2>1, NotNewOnce DEF StackEntries
  <2> QED
    BY <1>4, <2>2
<1>6. ASSUME NEW n \in notes PROVE calls'[n.told].by = calls[n.told].by
  <2>1. n.of \in StackEntries /\ n.of.call = n.told
    BY <1>1 DEF OwnNotes
  <2>2. Made(k, n.of)
    BY <1>1, <2>1, EntriesAreNotEmpty DEF OnePlace
  <2>3. n.told \in WatchedCalls /\ calls[n.told].stage # "new"
    BY <2>1, <2>2, NotNewOnce DEF StackEntries
  <2> QED
    BY <1>4, <2>3
<1>7. StackNests(k)'
  BY <1>1, <1>3, <1>5 DEF StackNests
<1>8. OwnNotes(k)'
  BY <1>1, <1>6 DEF OwnNotes
<1> QED
  BY <1>7, <1>8

----------------------------------------------------------------------------
(* The nesting of the calls *)

LEMMA LeastAbove ==
  ASSUME NEW S \in SUBSET WatchedCalls, NEW x \in S
  PROVE  \E d \in S : \A y \in S : d <= y
<1>1. S \subseteq Nat
  BY DEF WatchedCalls
<1>2. PICK d \in S : \A y \in S : ~(<<y, d>> \in OpToRel(<, Nat))
  BY <1>1, NatLessThanWellFounded, WFMin
<1>3. \A y \in S : ~(y < d)
  BY <1>1, <1>2 DEF OpToRel
<1> QED
  BY <1>1, <1>3

\* Who has not gone on to its body is called by nobody, and neither is a body
\* that has made no call.
LEMMA OnlyBodiesCall ==
  ASSUME CallsNest, NEW c \in WatchedCalls, UnderWay(c), calls[c].stage # "body"
  PROVE  \A d \in WatchedCalls : UnderWay(d) => ~(c < d)
  BY DEF CallsNest, Linked

LEMMA FirstAboveIsChild ==
  ASSUME WatcherTypes, ObserversAssumption, CallsNest, NEW c \in WatchedCalls, UnderWay(c),
         NEW d \in WatchedCalls, UnderWay(d), c < d
  PROVE  \E o \in WatchedCalls : UnderWay(o) /\ calls[o].by = c
<1> DEFINE S == {o \in WatchedCalls : UnderWay(o) /\ c < o}
<1>1. PICK o \in S : \A y \in S : o <= y
  <2>1. S \in SUBSET WatchedCalls /\ d \in S
    OBVIOUS
  <2> HIDE DEF S
  <2> QED
    BY <2>1, LeastAbove
<1>2. PICK p : p = calls[o].by
  OBVIOUS
<1>3. p \in WatchedCalls \cup {NoCall} /\ c \in Nat /\ o \in Nat
  BY <1>2 DEF WatcherTypes, WatchedCalls
<1>4. Linked(o)
  BY DEF CallsNest
<1>5. p # NoCall
  BY <1>2, <1>4 DEF Linked
<1>6. p \in Nat /\ UnderWay(p) /\ p \in WatchedCalls /\ p < o /\ ~(p < c)
  BY <1>2, <1>3, <1>4, <1>5 DEF Linked, WatchedCalls
<1>7. ~(c < p)
  BY <1>1, <1>3, <1>6
<1> QED
  BY <1>2, <1>3, <1>6, <1>7

\* The last of those under way moves, or ends.
LEMMA LastMoves ==
  ASSUME WatcherTypes, CallsNest, NEW c \in WatchedCalls, OthersStay(c), UnderWay(c),
         \A d \in WatchedCalls : UnderWay(d) => ~(c < d),
         UnderWay(c)' => calls'[c].by = calls[c].by
  PROVE  CallsNest'
<1> SUFFICES ASSUME NEW d \in WatchedCalls, UnderWay(d)' PROVE Linked(d)'
  BY DEF CallsNest
<1>1. UnderWay(d) /\ calls'[d].by = calls[d].by
  BY OthersKeep DEF OthersStay
<1>2. Linked(d)
  BY <1>1 DEF CallsNest
<1>3. \A b \in WatchedCalls : UnderWay(b)' => UnderWay(b)
  BY OthersKeep
<1>4. \A b \in WatchedCalls : b < d => b # c
  BY <1>1
<1>5. \A b \in WatchedCalls : UnderWay(b)' /\ b < d => calls'[b].stage = "body"
  BY <1>2, <1>3, <1>4 DEF Linked, OthersStay
<1>6. calls'[d].by = NoCall => \A b \in WatchedCalls : UnderWay(b)' => ~(b < d)
  BY <1>1, <1>2, <1>3 DEF Linked
<1>7. ASSUME calls'[d].by # NoCall PROVE UnderWay(calls[d].by)' /\ calls'[d].by < d
  <2>1. PICK p : p = calls[d].by
    OBVIOUS
  <2>2. p \in WatchedCalls /\ UnderWay(p) /\ p < d
    BY <1>1, <1>2, <1>7, <2>1 DEF Linked, WatcherTypes
  <2>3. UnderWay(p)'
    BY <1>4, <2>2, OthersKeep
  <2> QED
    BY <1>1, <2>1, <2>2, <2>3 DEF UnderWay
<1>8. calls'[d].by # NoCall => \A b \in WatchedCalls : UnderWay(b)' => ~(calls'[d].by < b /\ b < d)
  BY <1>1, <1>2, <1>3 DEF Linked
<1> QED
  BY <1>5, <1>6, <1>7, <1>8 DEF Linked

LEMMA StartNests ==
  ASSUME WatcherTypes, ObserversAssumption, \A d \in WatchedCalls : InChain(d), CallsNest,
         NEW c \in WatchedCalls, CallStarts(c), ~overlapped'
  PROVE  CallsNest'
<1>1. PICK p \in {p \in WatchedCalls : calls[p].stage = "body"} \cup {NoCall} :
        /\ p = NoCall => \A d \in WatchedCalls : calls[d].stage = "new"
        /\ calls' = [calls EXCEPT ![c] = [stage |-> "before", at |-> 1, attempt |-> 1, by |-> p]]
        /\ overlapped' = (overlapped \/ \E d \in WatchedCalls : UnderWay(d) /\ calls[d].by = p /\ p # NoCall)
  BY DEF CallStarts
<1>2. calls'[c].stage = "before" /\ calls'[c].by = p /\ OthersStay(c) /\ calls[c].stage = "new"
  BY <1>1 DEF WatcherTypes, OthersStay, CallStarts
<1>3. ASSUME NEW d \in WatchedCalls, UnderWay(d) PROVE d < c
  <2>1. c \in 1 .. Watched /\ d \in 1 .. Watched /\ Watched \in Nat
    BY DEF WatchedCalls, ObserversAssumption
  <2>2. d # c /\ ~(d \in (c + 1) .. Watched)
    BY <1>2, <1>3 DEF UnderWay, InChain
  <2> QED
    BY <2>1, <2>2
<1>4. \A d \in WatchedCalls : UnderWay(d)' => d = c \/ UnderWay(d)
  BY <1>2, OthersKeep
<1>5. \A d \in WatchedCalls : UnderWay(d) => d # c /\ UnderWay(d)' /\ calls'[d] = calls[d]
  BY <1>2, OthersKeep DEF UnderWay, OthersStay
<1>6. c \in Nat /\ \A d \in WatchedCalls : d \in Nat
  BY DEF WatchedCalls
<1>7. ASSUME NEW d \in WatchedCalls, UnderWay(d) PROVE Linked(d)'
  <2>1. Linked(d) /\ d < c /\ calls'[d] = calls[d]
    BY <1>3, <1>5, <1>7 DEF CallsNest
  <2>2. \A b \in WatchedCalls : UnderWay(b)' /\ b < d => UnderWay(b) /\ calls'[b] = calls[b]
    BY <1>3, <1>4, <1>5, <1>6, <1>7
  <2>3. calls'[d].by # NoCall => UnderWay(calls[d].by)'
    <3>1. PICK o : o = calls[d].by
      OBVIOUS
    <3>2. ASSUME o # NoCall PROVE UnderWay(o)'
      <4>1. o \in WatchedCalls /\ UnderWay(o)
        BY <2>1, <3>1, <3>2 DEF Linked, WatcherTypes
      <4> QED
        BY <1>5, <4>1
    <3> QED
      BY <2>1, <3>1, <3>2 DEF UnderWay
  <2> QED
    BY <2>1, <2>2, <2>3 DEF Linked
<1>8. Linked(c)'
  <2>1. CASE p = NoCall
    <3>1. \A b \in WatchedCalls : UnderWay(b)' => b = c
      BY <1>1, <1>4, <2>1 DEF UnderWay
    <3> QED
      BY <1>2, <1>6, <2>1, <3>1 DEF Linked
  <2>2. CASE p # NoCall
    <3>1. p \in WatchedCalls /\ calls[p].stage = "body" /\ UnderWay(p)
      BY <1>1, <2>2 DEF UnderWay
    <3>2. ~\E d \in WatchedCalls : UnderWay(d) /\ calls[d].by = p
      BY <1>1, <2>2
    <3>3. \A d \in WatchedCalls : UnderWay(d) => ~(p < d)
      BY <3>1, <3>2, FirstAboveIsChild
    <3>4. Linked(p) /\ p < c
      BY <1>3, <3>1 DEF CallsNest
    <3>5. \A b \in WatchedCalls : UnderWay(b)' /\ b < c => calls'[b].stage = "body" /\ ~(p < b)
      <4> SUFFICES ASSUME NEW b \in WatchedCalls, UnderWay(b)', b < c
                   PROVE  calls'[b].stage = "body" /\ ~(p < b)
        OBVIOUS
      <4>1. UnderWay(b) /\ calls'[b] = calls[b]
        BY <1>4, <1>5, <1>6
      <4>2. b = p \/ b < p
        BY <1>6, <3>1, <3>3, <4>1
      <4> QED
        BY <3>1, <3>3, <3>4, <4>1, <4>2 DEF Linked
    <3>6. UnderWay(p)'
      BY <1>5, <3>1
    <3> QED
      BY <1>2, <2>2, <3>4, <3>5, <3>6 DEF Linked, UnderWay
  <2> QED
    BY <2>1, <2>2
<1> QED
  BY <1>4, <1>7, <1>8 DEF CallsNest

----------------------------------------------------------------------------
(* A step that writes to no stack *)

LEMMA QuietStep ==
  ASSUME ObsInv, WatcherTypes', \A d \in WatchedCalls : InChain(d)', NEW c \in WatchedCalls,
         OthersStay(c), GoesOn(c), ByStays(c), data' = data, noted' = noted, sampling' = sampling,
         ~cut' => ~cut, ~overlapped' => ~overlapped,
         ~cut' => \A k \in Stacked : Holds(c, k)' <=> Holds(c, k),
         ~cut' /\ ~overlapped' => CallsNest', AlertsAlternate'
  PROVE  ObsInv'
<1>1. \A k \in Stacked : OnePlace(k)'
  BY OnePlaceStays DEF ObsInv
<1>2. Balance'
  <2> SUFFICES ASSUME ~cut', NEW k \in Stacked PROVE Balanced(k)'
    BY DEF Balance
  <2> QED
    BY BalancedStays DEF ObsInv, Balance
<1>3. Nesting'
  <2> SUFFICES ASSUME ~cut', ~overlapped', NEW k \in Stacked PROVE StackNests(k)' /\ OwnNotes(k)'
    BY DEF Nesting
  <2> QED
    BY NestsStays DEF ObsInv, Nesting
<1>4. SampledWhole'
  BY DEF ObsInv, SampledWhole
<1> QED
  BY <1>1, <1>2, <1>3, <1>4 DEF ObsInv

LEMMA MovesTo ==
  ASSUME WatcherTypes, \A d \in WatchedCalls : InChain(d), NEW c \in WatchedCalls, calls[c].stage # "new",
         NEW stage \in CallStages, stage # "new", NEW at \in 0 .. Len(watchers),
         stage \in {"before", "after", "onError"} => at # 0,
         Moves(c, stage, at), watchers' = watchers
  PROVE  /\ OthersStay(c) /\ ByStays(c)
         /\ calls'[c].stage = stage /\ calls'[c].at = at /\ calls'[c].attempt = calls[c].attempt
         /\ calls'[c].by = calls[c].by
         /\ calls' \in [WatchedCalls -> [stage : CallStages, at : 0 .. Len(watchers'), attempt : 0 .. 2,
                                         by : WatchedCalls \cup {NoCall}]]
         /\ \A d \in WatchedCalls : InChain(d)'
<1>1. PICK rec, next : rec = calls[c] /\ next = [[rec EXCEPT !.stage = stage] EXCEPT !.at = at]
  OBVIOUS
<1>2. rec \in [stage : CallStages, at : 0 .. Len(watchers), attempt : 0 .. 2, by : WatchedCalls \cup {NoCall}]
  BY <1>1 DEF WatcherTypes
<1>3. /\ next.stage = stage /\ next.at = at /\ next.attempt = rec.attempt /\ next.by = rec.by
      /\ next \in [stage : CallStages, at : 0 .. Len(watchers), attempt : 0 .. 2, by : WatchedCalls \cup {NoCall}]
  BY <1>1, <1>2
<1>4. calls' = [calls EXCEPT ![c] = next]
  BY <1>1, <1>2 DEF Moves, WatcherTypes
<1>5. calls'[c] = next /\ OthersStay(c)
  BY <1>4 DEF WatcherTypes, OthersStay
<1>6. \A d \in WatchedCalls : InChain(d)'
  <2> SUFFICES ASSUME NEW d \in WatchedCalls PROVE InChain(d)'
    OBVIOUS
  <2>1. CASE d = c
    <3>1. Len(watchers) \in Nat
      BY DEF WatcherTypes, IsChain
    <3>2. at \in 0 .. Len(watchers) /\ (stage \in {"before", "after", "onError"} => at \in 1 .. Len(watchers))
      BY <3>1
    <3> QED
      <4>1. calls'[d].stage = stage /\ calls'[d].at = at /\ calls'[d].attempt = calls[c].attempt
        BY <1>1, <1>3, <1>5, <2>1
      <4>2. calls[c].attempt # 0
        BY DEF InChain
      <4> QED
        BY <3>2, <4>1, <4>2 DEF InChain
  <2>2. CASE d # c
    <3>1. calls'[d] = calls[d]
      BY <1>5, <2>2 DEF OthersStay
    <3>2. \A o \in (d + 1) .. Watched : calls[d].stage = "new" => o # c /\ o \in WatchedCalls
      BY <2>2 DEF InChain, WatchedCalls
    <3> QED
      BY <1>5, <3>1, <3>2 DEF InChain, OthersStay
  <2> QED
    BY <2>1, <2>2
<1> QED
  BY <1>1, <1>3, <1>4, <1>5, <1>6 DEF WatcherTypes, ByStays

LEMMA GoesOnOutside ==
  ASSUME WatcherTypes, NEW c \in WatchedCalls, watchers' = watchers, calls[c].stage # "new",
         calls'[c].stage \notin {"new", "before"}, calls'[c].attempt = calls[c].attempt
  PROVE  GoesOn(c)
<1>1. calls[c].attempt \in 0 .. 2
  BY DEF WatcherTypes
<1> QED
  BY <1>1 DEF GoesOn, Passed

LEMMA AlertsSame ==
  ASSUME AlertsAlternate, alerted' = alerted, rateEvents' = rateEvents
  PROVE  AlertsAlternate'
  BY DEF AlertsAlternate

LEMMA CallStartsKeeps ==
  ASSUME ObserversAssumption, ObsInv, NEW c \in WatchedCalls, CallStarts(c)
  PROVE  ObsInv'
<1>1. PICK p \in WatchedCalls \cup {NoCall} :
        calls' = [calls EXCEPT ![c] = [stage |-> "before", at |-> 1, attempt |-> 1, by |-> p]]
  BY DEF CallStarts
<1>2. WatcherTypes /\ (\A d \in WatchedCalls : InChain(d)) /\ calls[c].stage = "new"
  BY DEF ObsInv, CallStarts
<1>3. PICK next : next = [stage |-> "before", at |-> 1, attempt |-> 1, by |-> p]
  OBVIOUS
<1>4. calls'[c] = next /\ OthersStay(c)
  BY <1>1, <1>2, <1>3 DEF WatcherTypes, OthersStay, CallStarts
<1>5. 1 \in 1 .. Len(watchers) /\ Len(watchers) \in Nat
  BY <1>2 DEF WatcherTypes, IsChain
<1>6. WatcherTypes'
  <2>1. next \in [stage : CallStages, at : 0 .. Len(watchers), attempt : 0 .. 2, by : WatchedCalls \cup {NoCall}]
    BY <1>3, <1>5 DEF CallStages
  <2>2. calls' \in [WatchedCalls -> [stage : CallStages, at : 0 .. Len(watchers), attempt : 0 .. 2,
                                    by : WatchedCalls \cup {NoCall}]]
    BY <1>1, <1>2, <1>3, <2>1 DEF WatcherTypes
  <2> QED
    BY <1>2, <2>2 DEF WatcherTypes, CallStarts
<1>7. \A d \in WatchedCalls : InChain(d)'
  <2> SUFFICES ASSUME NEW d \in WatchedCalls PROVE InChain(d)'
    OBVIOUS
  <2>1. watchers' = watchers /\ calls'[c].stage = "before" /\ calls'[c].at = 1 /\ calls'[c].attempt = 1
    BY <1>3, <1>4 DEF CallStarts
  <2>2. CASE d = c
    BY <1>5, <2>1, <2>2 DEF InChain
  <2>3. CASE d # c
    <3>1. calls'[d] = calls[d]
      BY <1>4, <2>3 DEF OthersStay
    <3>2. ASSUME calls[d].stage = "new", NEW o \in (d + 1) .. Watched PROVE calls'[o].stage = "new"
      <4>1. d \in Nat /\ c \in Nat /\ Watched \in Nat /\ o \in WatchedCalls
        BY DEF WatchedCalls, ObserversAssumption
      <4>2. ~(d \in 1 .. (c - 1))
        BY <3>2 DEF CallStarts
      <4>3. o # c
        BY <4>1, <4>2, <2>3 DEF WatchedCalls
      <4> QED
        BY <1>2, <1>4, <3>2, <4>1, <4>3 DEF InChain, OthersStay
    <3> QED
      BY <1>2, <2>1, <3>1, <3>2 DEF InChain
  <2> QED
    BY <2>2, <2>3
<1>8. GoesOn(c) /\ ByStays(c)
  <2>1. calls[c].attempt = 0
    BY <1>2 DEF InChain
  <2> QED
    BY <1>2, <1>3, <1>4, <2>1 DEF GoesOn, ByStays
<1>9. \A k \in Stacked : Holds(c, k)' <=> Holds(c, k)
  <2>1. OpenPlaces(c) = {}
    BY <1>2 DEF OpenPlaces
  <2>2. OpenPlaces(c)' = {}
    BY <1>3, <1>4 DEF OpenPlaces
  <2> QED
    BY <2>1, <2>2 DEF Holds
<1>10. ~cut' /\ ~overlapped' => CallsNest'
  <2>1. ~cut' /\ ~overlapped' => ~cut /\ ~overlapped
    BY DEF CallStarts
  <2> QED
    BY <1>2, <2>1, StartNests DEF ObsInv, Nesting
<1>11. AlertsAlternate' /\ data' = data /\ noted' = noted /\ sampling' = sampling
       /\ (~cut' => ~cut) /\ (~overlapped' => ~overlapped)
  BY AlertsSame DEF CallStarts, ObsInv
<1> QED
  BY <1>4, <1>6, <1>7, <1>8, <1>9, <1>10, <1>11, QuietStep

\* The steps of a call that is under way, as QuietStep wants them: it is where
\* it was among the calls, and goes to a hook or to the end.
LEMMA StaysLast ==
  ASSUME ObsInv, NEW c \in WatchedCalls, OthersStay(c), UnderWay(c), calls'[c].by = calls[c].by,
         calls[c].stage = "body" => \A d \in WatchedCalls : UnderWay(d) => ~(c < d),
         ~cut, ~overlapped
  PROVE  CallsNest'
<1>1. CallsNest /\ WatcherTypes
  BY DEF ObsInv, Nesting
<1>2. \A d \in WatchedCalls : UnderWay(d) => ~(c < d)
  BY <1>1, OnlyBodiesCall
<1> QED
  BY <1>1, <1>2, LastMoves

LEMMA ModuleEndsKeeps ==
  ASSUME ObserversAssumption, ObsInv, NEW c \in WatchedCalls, ModuleEnds(c)
  PROVE  ObsInv'
<1>1. PICK stage \in {"after", "onError"} : Moves(c, stage, Len(watchers))
  BY DEF ModuleEnds
<1>2. /\ WatcherTypes /\ (\A d \in WatchedCalls : InChain(d)) /\ calls[c].stage = "body"
      /\ watchers' = watchers
  BY DEF ObsInv, ModuleEnds
<1>3. Len(watchers) \in Nat /\ Len(watchers) # 0
  BY <1>2 DEF WatcherTypes, IsChain
<1>4. /\ OthersStay(c) /\ ByStays(c)
      /\ calls'[c].stage = stage /\ calls'[c].at = Len(watchers) /\ calls'[c].attempt = calls[c].attempt
      /\ calls'[c].by = calls[c].by
      /\ calls' \in [WatchedCalls -> [stage : CallStages, at : 0 .. Len(watchers'), attempt : 0 .. 2,
                                      by : WatchedCalls \cup {NoCall}]]
      /\ \A d \in WatchedCalls : InChain(d)'
  <2>1. stage \in CallStages /\ stage # "new" /\ Len(watchers) \in 0 .. Len(watchers) /\ calls[c].stage # "new"
    BY <1>2, <1>3 DEF CallStages
  <2> QED
    BY <1>1, <1>2, <1>3, <2>1, MovesTo
<1>5. WatcherTypes'
  BY <1>2, <1>4 DEF WatcherTypes, ModuleEnds
<1>6. GoesOn(c)
  BY <1>2, <1>4, GoesOnOutside
<1>7. \A k \in Stacked : Holds(c, k)' <=> Holds(c, k)
  <2>1. OpenPlaces(c) = 1 .. Len(watchers)
    BY <1>2 DEF OpenPlaces
  <2>2. OpenPlaces(c)' = 1 .. Len(watchers)
    BY <1>4 DEF OpenPlaces
  <2> QED
    BY <1>2, <2>1, <2>2 DEF Holds
<1>8. ASSUME ~cut', ~overlapped' PROVE CallsNest'
  <2>1. ~cut /\ ~overlapped /\ ~\E d \in WatchedCalls : UnderWay(d) /\ calls[d].by = c
    BY <1>8 DEF ModuleEnds
  <2>2. CallsNest /\ UnderWay(c)
    BY <1>2, <2>1 DEF ObsInv, Nesting, UnderWay
  <2>3. \A d \in WatchedCalls : UnderWay(d) => ~(c < d)
    BY <1>2, <2>1, <2>2, FirstAboveIsChild
  <2> QED
    BY <1>4, <2>1, <2>2, <2>3, StaysLast
<1>9. AlertsAlternate' /\ data' = data /\ noted' = noted /\ sampling' = sampling
      /\ (~cut' => ~cut) /\ (~overlapped' => ~overlapped)
  BY AlertsSame DEF ModuleEnds, ObsInv
<1> QED
  BY <1>4, <1>5, <1>6, <1>7, <1>8, <1>9, QuietStep

LEMMA ModuleCancelledKeeps ==
  ASSUME ObsInv, NEW c \in WatchedCalls, ModuleCancelled(c)
  PROVE  ObsInv'
<1>1. /\ WatcherTypes /\ (\A d \in WatchedCalls : InChain(d)) /\ calls[c].stage = "body"
      /\ watchers' = watchers /\ Moves(c, "ended", 0)
  BY DEF ObsInv, ModuleCancelled
<1>2. Len(watchers) \in Nat
  BY <1>1 DEF WatcherTypes, IsChain
<1>3. /\ OthersStay(c) /\ ByStays(c)
      /\ calls'[c].stage = "ended" /\ calls'[c].at = 0 /\ calls'[c].attempt = calls[c].attempt
      /\ calls' \in [WatchedCalls -> [stage : CallStages, at : 0 .. Len(watchers'), attempt : 0 .. 2,
                                      by : WatchedCalls \cup {NoCall}]]
      /\ \A d \in WatchedCalls : InChain(d)'
  <2>1. "ended" \in CallStages /\ 0 \in 0 .. Len(watchers) /\ calls[c].stage # "new"
    BY <1>1, <1>2 DEF CallStages
  <2> QED
    BY <1>1, <2>1, MovesTo
<1>4. WatcherTypes'
  BY <1>1, <1>3 DEF WatcherTypes, ModuleCancelled
<1>5. GoesOn(c)
  BY <1>1, <1>3, GoesOnOutside
<1>6. AlertsAlternate' /\ data' = data /\ noted' = noted /\ sampling' = sampling /\ cut'
      /\ (~overlapped' => ~overlapped)
  BY AlertsSame DEF ModuleCancelled, ObsInv
<1> QED
  BY <1>3, <1>4, <1>5, <1>6, QuietStep

LEMMA AtHook ==
  ASSUME ObsInv, NEW c \in WatchedCalls, calls[c].stage \in {"before", "after", "onError"}
  PROVE  /\ WatcherTypes /\ (\A d \in WatchedCalls : InChain(d)) /\ UnderWay(c)
         /\ calls[c].at \in 1 .. Len(watchers) /\ Len(watchers) \in Nat
         /\ calls[c].attempt \in 1 .. 2
         /\ watchers \in Seq(Stacked \cup {"notify", "app"})
<1>1. WatcherTypes /\ (\A d \in WatchedCalls : InChain(d)) /\ UnderWay(c)
  BY DEF ObsInv, UnderWay
<1>2. Len(watchers) \in Nat /\ watchers \in Seq(Stacked \cup {"notify", "app"})
  BY <1>1 DEF WatcherTypes, IsChain
<1>3. InChain(c) /\ calls[c].attempt \in 0 .. 2
  BY <1>1 DEF WatcherTypes
<1>4. calls[c].attempt # 0 /\ calls[c].at \in 1 .. Len(watchers)
  BY <1>3 DEF InChain
<1> QED
  BY <1>1, <1>2, <1>3, <1>4

LEMMA BeforeThrowsKeeps ==
  ASSUME ObsInv, NEW c \in WatchedCalls, BeforeThrows(c)
  PROVE  ObsInv'
<1>1. PICK i : i = calls[c].at
  OBVIOUS
<1>2. /\ WatcherTypes /\ (\A d \in WatchedCalls : InChain(d)) /\ UnderWay(c)
      /\ i \in 1 .. Len(watchers) /\ Len(watchers) \in Nat
  BY <1>1, AtHook DEF BeforeThrows
<1>3. calls[c].stage = "before" /\ watchers[i] = "app" /\ watchers' = watchers /\ Moves(c, "onError", i)
  BY <1>1 DEF BeforeThrows
<1>4. /\ OthersStay(c) /\ ByStays(c)
      /\ calls'[c].stage = "onError" /\ calls'[c].at = i /\ calls'[c].attempt = calls[c].attempt
      /\ calls'[c].by = calls[c].by
      /\ calls' \in [WatchedCalls -> [stage : CallStages, at : 0 .. Len(watchers'), attempt : 0 .. 2,
                                      by : WatchedCalls \cup {NoCall}]]
      /\ \A d \in WatchedCalls : InChain(d)'
  <2>1. "onError" \in CallStages /\ i \in 0 .. Len(watchers) /\ i # 0 /\ calls[c].stage # "new"
    BY <1>2, <1>3 DEF CallStages
  <2> QED
    BY <1>2, <1>3, <2>1, MovesTo
<1>5. WatcherTypes'
  BY <1>2, <1>4 DEF WatcherTypes, BeforeThrows
<1>6. GoesOn(c)
  BY <1>2, <1>3, <1>4, GoesOnOutside
<1>7. \A k \in Stacked : Holds(c, k)' <=> Holds(c, k)
  <2>1. OpenPlaces(c) = 1 .. (i - 1)
    BY <1>1, <1>3 DEF OpenPlaces
  <2>2. OpenPlaces(c)' = 1 .. i
    BY <1>4 DEF OpenPlaces
  <2>3. 1 .. i = 1 .. (i - 1) \cup {i}
    BY <1>2
  <2>4. watchers[i] \notin Stacked
    BY <1>3 DEF Stacked
  <2> QED
    BY <1>3, <2>1, <2>2, <2>3, <2>4 DEF Holds
<1>8. AlertsAlternate' /\ data' = data /\ noted' = noted /\ sampling' = sampling
      /\ (~cut' => ~cut) /\ (~overlapped' => ~overlapped)
  BY AlertsSame DEF BeforeThrows, ObsInv
<1>9. ~cut' /\ ~overlapped' => CallsNest'
  BY <1>2, <1>3, <1>4, <1>8, StaysLast
<1> QED
  BY <1>4, <1>5, <1>6, <1>7, <1>8, <1>9, QuietStep

LEMMA AfterThrowsKeeps ==
  ASSUME ObsInv, NEW c \in WatchedCalls, AfterThrows(c)
  PROVE  ObsInv'
<1>1. PICK i : i = calls[c].at
  OBVIOUS
<1>2. /\ WatcherTypes /\ (\A d \in WatchedCalls : InChain(d)) /\ UnderWay(c)
      /\ i \in 1 .. Len(watchers) /\ Len(watchers) \in Nat
  BY <1>1, AtHook DEF AfterThrows
<1>3. calls[c].stage = "after" /\ watchers' = watchers /\ Moves(c, "onError", Len(watchers))
  BY <1>1 DEF AfterThrows
<1>4. /\ OthersStay(c) /\ ByStays(c)
      /\ calls'[c].stage = "onError" /\ calls'[c].at = Len(watchers) /\ calls'[c].attempt = calls[c].attempt
      /\ calls'[c].by = calls[c].by
      /\ calls' \in [WatchedCalls -> [stage : CallStages, at : 0 .. Len(watchers'), attempt : 0 .. 2,
                                      by : WatchedCalls \cup {NoCall}]]
      /\ \A d \in WatchedCalls : InChain(d)'
  <2>1. /\ "onError" \in CallStages /\ Len(watchers) \in 0 .. Len(watchers) /\ Len(watchers) # 0
        /\ calls[c].stage # "new"
    BY <1>2, <1>3 DEF CallStages
  <2> QED
    BY <1>2, <1>3, <2>1, MovesTo
<1>5. WatcherTypes'
  BY <1>2, <1>4 DEF WatcherTypes, AfterThrows
<1>6. GoesOn(c)
  BY <1>2, <1>3, <1>4, GoesOnOutside
<1>7. ASSUME ~cut', NEW k \in Stacked PROVE Holds(c, k)' <=> Holds(c, k)
  <2>1. OpenPlaces(c) = 1 .. i
    BY <1>1, <1>3 DEF OpenPlaces
  <2>2. OpenPlaces(c)' = 1 .. Len(watchers)
    BY <1>4 DEF OpenPlaces
  <2>3. 1 .. Len(watchers) = 1 .. i \cup ((i + 1) .. Len(watchers))
    BY <1>2
  <2>4. Stacks((i + 1) .. Len(watchers)) = {}
    BY <1>1, <1>7 DEF AfterThrows
  <2>5. \A j \in (i + 1) .. Len(watchers) : watchers[j] # k
    BY <2>4 DEF Stacks
  <2> QED
    BY <1>3, <2>1, <2>2, <2>3, <2>5 DEF Holds
<1>8. AlertsAlternate' /\ data' = data /\ noted' = noted /\ sampling' = sampling
      /\ (~cut' => ~cut) /\ (~overlapped' => ~overlapped)
  BY AlertsSame DEF AfterThrows, ObsInv
<1>9. ~cut' /\ ~overlapped' => CallsNest'
  BY <1>2, <1>3, <1>4, <1>8, StaysLast
<1> QED
  BY <1>4, <1>5, <1>6, <1>7, <1>8, <1>9, QuietStep

LEMMA OnErrorAnswersKeeps ==
  ASSUME ObsInv, NEW c \in WatchedCalls, OnErrorAnswers(c)
  PROVE  ObsInv'
<1>1. PICK i : i = calls[c].at
  OBVIOUS
<1>2. /\ WatcherTypes /\ (\A d \in WatchedCalls : InChain(d)) /\ UnderWay(c)
      /\ i \in 1 .. Len(watchers) /\ Len(watchers) \in Nat
  BY <1>1, AtHook DEF OnErrorAnswers
<1>3. calls[c].stage = "onError" /\ watchers[i] = "app" /\ watchers' = watchers
  BY <1>1 DEF OnErrorAnswers
<1>4. ASSUME ~cut', NEW k \in Stacked PROVE ~Holds(c, k)
  <2>1. OpenPlaces(c) = 1 .. i
    BY <1>1, <1>3 DEF OpenPlaces
  <2>2. 1 .. i = 1 .. (i - 1) \cup {i} /\ "app" \notin Stacked
    BY <1>2 DEF Stacked
  <2>3. Stacks(1 .. (i - 1)) = {}
    BY <1>1, <1>4 DEF OnErrorAnswers
  <2>4. \A j \in 1 .. (i - 1) : watchers[j] # k
    BY <2>3 DEF Stacks
  <2> QED
    BY <1>3, <2>1, <2>2, <2>4 DEF Holds
<1>5. AlertsAlternate' /\ data' = data /\ noted' = noted /\ sampling' = sampling
      /\ (~cut' => ~cut) /\ (~overlapped' => ~overlapped)
  BY AlertsSame DEF OnErrorAnswers, ObsInv
<1>6. CASE Moves(c, "ended", 0)
  <2>1. /\ OthersStay(c) /\ ByStays(c)
        /\ calls'[c].stage = "ended" /\ calls'[c].at = 0 /\ calls'[c].attempt = calls[c].attempt
        /\ calls'[c].by = calls[c].by
        /\ calls' \in [WatchedCalls -> [stage : CallStages, at : 0 .. Len(watchers'), attempt : 0 .. 2,
                                        by : WatchedCalls \cup {NoCall}]]
        /\ \A d \in WatchedCalls : InChain(d)'
    <3>1. "ended" \in CallStages /\ 0 \in 0 .. Len(watchers) /\ calls[c].stage # "new"
      BY <1>2, <1>3 DEF CallStages
    <3> QED
      BY <1>2, <1>3, <1>6, <3>1, MovesTo
  <2>2. WatcherTypes'
    BY <1>2, <2>1 DEF WatcherTypes, OnErrorAnswers
  <2>3. GoesOn(c)
    BY <1>2, <1>3, <2>1, GoesOnOutside
  <2>4. OpenPlaces(c)' = {}
    BY <2>1 DEF OpenPlaces
  <2>5. ~cut' => \A k \in Stacked : Holds(c, k)' <=> Holds(c, k)
    BY <1>4, <2>4 DEF Holds
  <2>6. ~cut' /\ ~overlapped' => CallsNest'
    BY <1>2, <1>3, <1>5, <2>1, StaysLast
  <2> QED
    BY <1>5, <2>1, <2>2, <2>3, <2>5, <2>6, QuietStep
<1>7. CASE /\ calls[c].attempt = 1
           /\ calls' = [calls EXCEPT ![c].stage = "before", ![c].at = 1, ![c].attempt = 2]
  <2>1. PICK rec, next : /\ rec = calls[c]
                         /\ next = [[[rec EXCEPT !.stage = "before"] EXCEPT !.at = 1] EXCEPT !.attempt = 2]
    OBVIOUS
  <2>2. rec \in [stage : CallStages, at : 0 .. Len(watchers), attempt : 0 .. 2, by : WatchedCalls \cup {NoCall}]
    BY <1>2, <2>1 DEF WatcherTypes
  <2>3. "before" \in CallStages /\ 1 \in 0 .. Len(watchers) /\ 2 \in 0 .. 2 /\ 1 \in 1 .. Len(watchers)
    BY <1>2 DEF CallStages
  <2>4. /\ next.stage = "before" /\ next.at = 1 /\ next.attempt = 2 /\ next.by = rec.by
        /\ next \in [stage : CallStages, at : 0 .. Len(watchers), attempt : 0 .. 2, by : WatchedCalls \cup {NoCall}]
    BY <2>1, <2>2, <2>3
  <2>5. calls' = [calls EXCEPT ![c] = next]
    BY <1>2, <1>7, <2>1 DEF WatcherTypes
  <2>6. calls'[c] = next /\ OthersStay(c)
    BY <1>2, <1>3, <2>5 DEF WatcherTypes, OthersStay
  <2>7. WatcherTypes'
    BY <1>2, <2>4, <2>5 DEF WatcherTypes, OnErrorAnswers
  <2>8. \A d \in WatchedCalls : InChain(d)'
    <3> SUFFICES ASSUME NEW d \in WatchedCalls PROVE InChain(d)'
      OBVIOUS
    <3>1. CASE d = c
      BY <1>3, <2>3, <2>4, <2>6, <3>1 DEF InChain
    <3>2. CASE d # c
      <4>1. calls'[d] = calls[d]
        BY <2>6, <3>2 DEF OthersStay
      <4>2. \A o \in (d + 1) .. Watched : calls[d].stage = "new" => o # c /\ o \in WatchedCalls
        BY <1>2, <1>3, <3>2 DEF InChain, WatchedCalls
      <4> QED
        BY <1>2, <1>3, <2>6, <4>1, <4>2 DEF InChain, OthersStay
    <3> QED
      BY <3>1, <3>2
  <2>9. GoesOn(c) /\ ByStays(c) /\ calls'[c].by = calls[c].by
    <3>1. calls'[c].attempt = 2 /\ calls[c].attempt = 1 /\ calls'[c].by = calls[c].by
      BY <1>7, <2>1, <2>4, <2>6
    <3> QED
      BY <3>1 DEF GoesOn, ByStays
  <2>10. OpenPlaces(c)' = {}
    BY <2>4, <2>6 DEF OpenPlaces
  <2>11. ~cut' => \A k \in Stacked : Holds(c, k)' <=> Holds(c, k)
    BY <1>4, <2>10 DEF Holds
  <2>12. ~cut' /\ ~overlapped' => CallsNest'
    BY <1>2, <1>3, <1>5, <2>6, <2>9, StaysLast
  <2> QED
    BY <1>5, <2>6, <2>7, <2>8, <2>9, <2>11, <2>12, QuietStep
<1> QED
  BY <1>6, <1>7 DEF OnErrorAnswers

----------------------------------------------------------------------------
(* A step that pushes an entry *)

LEMMA OnePlacePushed ==
  ASSUME WatcherTypes, WatcherTypes', NEW c \in WatchedCalls, OthersStay(c), GoesOn(c),
         NEW k \in Stacked, OnePlace(k), NEW e \in StackEntries, ~Made(k, e), Made(k, e)',
         data'.stacks[k] = Append(data.stacks[k], e), noted'[k] = noted[k]
  PROVE  OnePlace(k)'
<1>1. PICK stack, notes : stack = data.stacks[k] /\ notes = noted[k]
  OBVIOUS
<1>2. stack \in Seq(StackEntries) /\ notes \subseteq WatchNotes
  BY <1>1 DEF WatcherTypes
<1>3. PICK more : more = Append(stack, e)
  OBVIOUS
<1>4. PICK n \in Nat : n = Len(stack)
  BY <1>2
<1>5. Len(more) = n + 1 /\ more[n + 1] = e /\ \A i \in 1 .. n : more[i] = stack[i]
  BY <1>2, <1>3, <1>4
<1>6. 1 .. (n + 1) = 1 .. n \cup {n + 1} /\ n + 1 \notin 1 .. n
  BY <1>4
<1>7. /\ \A i \in 1 .. n : Made(k, stack[i]) /\ stack[i] \in StackEntries
      /\ \A o \in notes : o.of # <<>> => Made(k, o.of) /\ o.of \in StackEntries
  BY <1>1, <1>2, <1>4 DEF OnePlace, WatchNotes
<1>8. /\ \A i \in 1 .. n : stack[i] # e
      /\ \A o \in notes : o.of # e
  BY <1>7, EntriesAreNotEmpty
<1>9. /\ \A i \in 1 .. (n + 1) : Made(k, more[i])'
      /\ \A o \in notes : o.of # <<>> => Made(k, o.of)'
  BY <1>5, <1>6, <1>7, MadeStays
<1>10. \A i, j \in 1 .. (n + 1) : more[i] = more[j] => i = j
  <2>1. \A i, j \in 1 .. n : stack[i] = stack[j] => i = j
    BY <1>1, <1>4 DEF OnePlace
  <2>2. \A i, j \in 1 .. n : more[i] = more[j] => i = j
    BY <1>5, <2>1
  <2>3. \A i \in 1 .. n : more[i] # more[n + 1]
    BY <1>5, <1>8
  <2> QED
    BY <1>6, <2>2, <2>3
<1>11. \A i \in 1 .. (n + 1) : \A o \in notes : o.of # more[i]
  BY <1>1, <1>4, <1>5, <1>6, <1>8 DEF OnePlace
<1>12. \A m, o \in notes : m.of = o.of /\ m.of # <<>> => m = o
  BY <1>1 DEF OnePlace
<1>13. data'.stacks[k] = more /\ noted'[k] = notes /\ Len(more) = n + 1
  BY <1>1, <1>3, <1>5
<1> QED
  BY <1>9, <1>10, <1>11, <1>12, <1>13 DEF OnePlace

LEMMA HoldersAreFinite ==
  ASSUME ObserversAssumption, NEW k
  PROVE  IsFiniteSet(Holders(k))
<1>1. IsFiniteSet(1 .. Watched)
  BY FS_Interval DEF ObserversAssumption
<1>2. Holders(k) \in SUBSET (1 .. Watched)
  BY DEF Holders, WatchedCalls
<1> QED
  BY <1>1, <1>2, FS_Subset

LEMMA BalancedPushed ==
  ASSUME ObserversAssumption, WatcherTypes, NEW c \in WatchedCalls, OthersStay(c), NEW k \in Stacked,
         Balanced(k), NEW e \in StackEntries, e.call = c, ~Holds(c, k), Holds(c, k)',
         data'.stacks[k] = Append(data.stacks[k], e), noted'[k] = noted[k]
  PROVE  Balanced(k)'
<1>1. \A d \in WatchedCalls : Holds(d, k)' <=> Holds(d, k) \/ d = c
  BY OthersKeep
<1>2. Holders(k)' = Holders(k) \cup {c} /\ c \notin Holders(k)
  BY <1>1 DEF Holders
<1>3. Cardinality(Holders(k)') = Cardinality(Holders(k)) + 1
  BY <1>2, HoldersAreFinite, FS_AddElement
<1>4. PICK stack, more : stack = data.stacks[k] /\ more = Append(stack, e)
  OBVIOUS
<1>5. PICK n \in Nat : n = Len(stack)
  BY <1>4 DEF WatcherTypes
<1>6. stack \in Seq(StackEntries)
  BY <1>4 DEF WatcherTypes
<1>7. Len(more) = n + 1 /\ more[n + 1] = e /\ \A i \in 1 .. n : more[i] = stack[i]
  BY <1>4, <1>5, <1>6
<1>8. 1 .. (n + 1) = 1 .. n \cup {n + 1}
  BY <1>5
<1>9. \A d : (\E i \in 1 .. (n + 1) : more[i].call = d) <=> (\E i \in 1 .. n : stack[i].call = d) \/ d = c
  BY <1>7, <1>8
<1>10. data'.stacks[k] = more
  BY <1>4
<1>11. \A d : KnownAt(d, k)' <=> KnownAt(d, k) \/ d = c
  BY <1>4, <1>5, <1>7, <1>9, <1>10 DEF KnownAt
<1>12. \A d : ToldAt(d, k)' <=> ToldAt(d, k)
  BY DEF ToldAt
<1>13. Len(data'.stacks[k]) = Cardinality(Holders(k)')
  BY <1>3, <1>4, <1>5, <1>7, <1>10 DEF Balanced
<1> QED
  BY <1>1, <1>11, <1>12, <1>13 DEF Balanced

LEMMA NestsPushed ==
  ASSUME WatcherTypes, \A d \in WatchedCalls : InChain(d), NEW c \in WatchedCalls, OthersStay(c),
         calls[c].stage # "new", calls'[c].by = calls[c].by, NEW k \in Stacked,
         OnePlace(k), StackNests(k), OwnNotes(k), NEW e \in StackEntries, e.call = c,
         k = "tracing" => e.parent = calls[c].by,
         ~Holds(c, k), Holds(c, k)', \A d \in WatchedCalls : Holds(d, k) => d < c,
         data'.stacks[k] = Append(data.stacks[k], e), noted'[k] = noted[k]
  PROVE  StackNests(k)' /\ OwnNotes(k)'
<1>1. PICK stack, notes : stack = data.stacks[k] /\ notes = noted[k]
  OBVIOUS
<1>2. stack \in Seq(StackEntries) /\ notes \subseteq WatchNotes
  BY <1>1 DEF WatcherTypes
<1>3. PICK more : more = Append(stack, e)
  OBVIOUS
<1>4. PICK n \in Nat : n = Len(stack)
  BY <1>2
<1>5. Len(more) = n + 1 /\ more[n + 1] = e /\ \A i \in 1 .. n : more[i] = stack[i]
  BY <1>2, <1>3, <1>4
<1>6. 1 .. (n + 1) = 1 .. n \cup {n + 1}
  BY <1>4
<1>7. \A d \in WatchedCalls : Holds(d, k)' <=> Holds(d, k) \/ d = c
  BY OthersKeep
<1>8. \A d \in WatchedCalls : calls[d].stage # "new" => calls'[d].by = calls[d].by
  BY DEF OthersStay
<1>9. ASSUME NEW i \in 1 .. n
      PROVE  /\ stack[i].call \in WatchedCalls /\ stack[i].call < c
             /\ calls'[stack[i].call].by = calls[stack[i].call].by
  <2>1. stack[i] \in StackEntries /\ Made(k, stack[i])
    BY <1>1, <1>2, <1>4 DEF OnePlace
  <2>2. stack[i].call \in WatchedCalls /\ calls[stack[i].call].stage # "new"
    BY <2>1, NotNewOnce DEF StackEntries
  <2>3. Holds(stack[i].call, k)
    BY <1>1, <1>4, <2>2 DEF StackNests
  <2> QED
    BY <1>8, <2>2, <2>3
<1>10. ASSUME NEW o \in notes PROVE calls'[o.told].by = calls[o.told].by
  <2>1. o.of \in StackEntries /\ o.of.call = o.told
    BY <1>1 DEF OwnNotes
  <2>2. Made(k, o.of)
    BY <1>1, <2>1, EntriesAreNotEmpty DEF OnePlace
  <2>3. o.told \in WatchedCalls /\ calls[o.told].stage # "new"
    BY <2>1, <2>2, NotNewOnce DEF StackEntries
  <2> QED
    BY <1>8, <2>3
<1>11. OwnNotes(k)'
  BY <1>1, <1>10 DEF OwnNotes
<1>12. \A i, j \in 1 .. (n + 1) : i < j => more[i].call < more[j].call
  <2> SUFFICES ASSUME NEW i \in 1 .. (n + 1), NEW j \in 1 .. (n + 1), i < j
               PROVE  more[i].call < more[j].call
    OBVIOUS
  <2>1. i \in 1 .. n
    BY <1>4
  <2>2. CASE j = n + 1
    BY <1>5, <1>9, <2>1, <2>2
  <2>3. CASE j \in 1 .. n
    BY <1>1, <1>4, <1>5, <2>1, <2>3 DEF StackNests
  <2> QED
    BY <1>6, <2>2, <2>3
<1>13. \A d \in WatchedCalls : Holds(d, k)' <=> \E i \in 1 .. (n + 1) : more[i].call = d
  <2>1. \A d : (\E i \in 1 .. (n + 1) : more[i].call = d) <=> (\E i \in 1 .. n : stack[i].call = d) \/ d = c
    BY <1>5, <1>6
  <2>2. \A d \in WatchedCalls : Holds(d, k) <=> \E i \in 1 .. n : stack[i].call = d
    BY <1>1, <1>4 DEF StackNests
  <2> QED
    BY <1>7, <2>1, <2>2
<1>14. ASSUME k = "tracing" PROVE \A i \in 1 .. (n + 1) : more[i].parent = calls'[more[i].call].by
  <2>1. \A i \in 1 .. n : stack[i].parent = calls[stack[i].call].by
    BY <1>1, <1>4, <1>14 DEF StackNests
  <2>2. \A i \in 1 .. n : more[i].parent = calls'[more[i].call].by
    BY <1>5, <1>9, <2>1
  <2>3. more[n + 1].parent = calls'[more[n + 1].call].by
    BY <1>5, <1>14
  <2> QED
    BY <1>6, <2>2, <2>3
<1>15. data'.stacks[k] = more /\ Len(more) = n + 1
  BY <1>1, <1>3, <1>5
<1>16. StackNests(k)'
  BY <1>12, <1>13, <1>14, <1>15 DEF StackNests
<1> QED
  BY <1>11, <1>16

LEMMA BeforeGoes ==
  ASSUME ObsInv, NEW c \in WatchedCalls, BeforeHook(c)
  PROVE  /\ OthersStay(c) /\ ByStays(c) /\ GoesOn(c) /\ calls'[c].by = calls[c].by
         /\ calls'[c].attempt = calls[c].attempt /\ calls'[c].stage # "new"
         /\ calls' \in [WatchedCalls -> [stage : CallStages, at : 0 .. Len(watchers'), attempt : 0 .. 2,
                                         by : WatchedCalls \cup {NoCall}]]
         /\ \A d \in WatchedCalls : InChain(d)'
         /\ OpenPlaces(c) = 1 .. (calls[c].at - 1) /\ OpenPlaces(c)' = 1 .. calls[c].at
         /\ \A k : watchers[calls[c].at] = k => Passed(c, k)'
<1>1. PICK i : i = calls[c].at
  OBVIOUS
<1>2. /\ WatcherTypes /\ (\A d \in WatchedCalls : InChain(d)) /\ UnderWay(c)
      /\ i \in 1 .. Len(watchers) /\ Len(watchers) \in Nat /\ calls[c].attempt \in 1 .. 2
  BY <1>1, AtHook DEF BeforeHook
<1>3. calls[c].stage = "before" /\ watchers' = watchers
  BY DEF BeforeHook
<1>4. PICK stage \in {"body", "before"}, at \in 0 .. Len(watchers) :
        /\ Moves(c, stage, at)
        /\ stage = "body" => i = Len(watchers)
        /\ stage = "before" => at = i + 1
  <2>1. IF i = Len(watchers) THEN Moves(c, "body", 0) ELSE Moves(c, "before", i + 1)
    BY <1>1 DEF BeforeHook
  <2>2. 0 \in 0 .. Len(watchers) /\ (i # Len(watchers) => i + 1 \in 0 .. Len(watchers))
    BY <1>2
  <2> QED
    BY <2>1, <2>2
<1>5. /\ OthersStay(c) /\ ByStays(c)
      /\ calls'[c].stage = stage /\ calls'[c].at = at /\ calls'[c].attempt = calls[c].attempt
      /\ calls'[c].by = calls[c].by
      /\ calls' \in [WatchedCalls -> [stage : CallStages, at : 0 .. Len(watchers'), attempt : 0 .. 2,
                                      by : WatchedCalls \cup {NoCall}]]
      /\ \A d \in WatchedCalls : InChain(d)'
  <2>1. /\ stage \in CallStages /\ stage # "new" /\ (stage \in {"before", "after", "onError"} => at # 0)
        /\ calls[c].stage # "new"
    BY <1>2, <1>3, <1>4 DEF CallStages
  <2> QED
    BY <1>2, <1>3, <1>4, <2>1, MovesTo
<1>6. OpenPlaces(c) = 1 .. (i - 1)
  BY <1>1, <1>3 DEF OpenPlaces
<1>7. OpenPlaces(c)' = 1 .. i
  <2>1. CASE stage = "body"
    BY <1>3, <1>4, <1>5, <2>1 DEF OpenPlaces
  <2>2. CASE stage = "before"
    <3>1. OpenPlaces(c)' = 1 .. (at - 1) /\ at - 1 = i
      BY <1>2, <1>4, <1>5, <2>2 DEF OpenPlaces
    <3> QED
      BY <3>1
  <2> QED
    BY <2>1, <2>2
<1>8. \A j \in 1 .. Len(watchers) : j <= i => (calls'[c].stage = "before" => j < calls'[c].at)
  BY <1>2, <1>4, <1>5
<1>9. calls'[c].stage # "new"
  BY <1>5
<1>10. \A k : watchers[i] = k => Passed(c, k)'
  BY <1>2, <1>3, <1>8, <1>9 DEF Passed
<1>11. \A k : Passed(c, k) => Passed(c, k)'
  BY <1>1, <1>2, <1>3, <1>8, <1>9 DEF Passed
<1>12. GoesOn(c)
  BY <1>2, <1>5, <1>11 DEF GoesOn
<1> QED
  BY <1>1, <1>5, <1>6, <1>7, <1>9, <1>10, <1>12

LEMMA HookGoes ==
  ASSUME ObsInv, NEW c \in WatchedCalls, HookReturns(c)
  PROVE  /\ OthersStay(c) /\ ByStays(c) /\ GoesOn(c) /\ calls'[c].by = calls[c].by
         /\ calls' \in [WatchedCalls -> [stage : CallStages, at : 0 .. Len(watchers'), attempt : 0 .. 2,
                                         by : WatchedCalls \cup {NoCall}]]
         /\ \A d \in WatchedCalls : InChain(d)'
         /\ OpenPlaces(c) = 1 .. calls[c].at /\ OpenPlaces(c)' = 1 .. (calls[c].at - 1)
<1>1. PICK i : i = calls[c].at
  OBVIOUS
<1>2. /\ WatcherTypes /\ (\A d \in WatchedCalls : InChain(d)) /\ UnderWay(c)
      /\ i \in 1 .. Len(watchers) /\ Len(watchers) \in Nat /\ calls[c].attempt \in 1 .. 2
  BY <1>1, AtHook DEF HookReturns
<1>3. PICK was : was = calls[c].stage /\ was \in {"after", "onError"} /\ watchers' = watchers
  BY DEF HookReturns
<1>4. PICK stage \in {"ended", "after", "onError"}, at \in 0 .. Len(watchers) :
        /\ Moves(c, stage, at) /\ at = i - 1
        /\ stage = "ended" <=> at = 0
  <2>1. IF i = 1 THEN Moves(c, "ended", 0) ELSE Moves(c, was, i - 1)
    BY <1>1, <1>3 DEF HookReturns, Inwards
  <2>2. i - 1 \in 0 .. Len(watchers) /\ (i = 1 <=> i - 1 = 0)
    BY <1>2
  <2>3. CASE i = 1
    BY <2>1, <2>2, <2>3
  <2>4. CASE i # 1
    BY <1>3, <2>1, <2>2, <2>4
  <2> QED
    BY <2>3, <2>4
<1>5. /\ OthersStay(c) /\ ByStays(c)
      /\ calls'[c].stage = stage /\ calls'[c].at = at /\ calls'[c].attempt = calls[c].attempt
      /\ calls'[c].by = calls[c].by
      /\ calls' \in [WatchedCalls -> [stage : CallStages, at : 0 .. Len(watchers'), attempt : 0 .. 2,
                                      by : WatchedCalls \cup {NoCall}]]
      /\ \A d \in WatchedCalls : InChain(d)'
  <2>1. /\ stage \in CallStages /\ stage # "new" /\ (stage \in {"before", "after", "onError"} => at # 0)
        /\ calls[c].stage # "new"
    BY <1>3, <1>4 DEF CallStages
  <2> QED
    BY <1>2, <1>3, <1>4, <2>1, MovesTo
<1>6. OpenPlaces(c) = 1 .. i
  BY <1>1, <1>3 DEF OpenPlaces
<1>7. OpenPlaces(c)' = 1 .. (i - 1)
  <2>1. CASE stage = "ended"
    BY <1>2, <1>4, <1>5, <2>1 DEF OpenPlaces
  <2>2. CASE stage # "ended"
    BY <1>4, <1>5, <2>2 DEF OpenPlaces
  <2> QED
    BY <2>1, <2>2
<1>8. GoesOn(c)
  BY <1>2, <1>3, <1>4, <1>5, GoesOnOutside
<1> QED
  BY <1>1, <1>5, <1>6, <1>7, <1>8

\* Who is at the place that opens or is told there.
LEMMA OneMore ==
  ASSUME WatcherTypes, watchers' = watchers, NEW c \in WatchedCalls, NEW i \in 1 .. Len(watchers),
         OpenPlaces(c) = 1 .. (i - 1), OpenPlaces(c)' = 1 .. i, NEW k \in Stacked
  PROVE  /\ watchers[i] = k => ~Holds(c, k) /\ Holds(c, k)'
         /\ watchers[i] # k => (Holds(c, k)' <=> Holds(c, k))
<1>1. Len(watchers) \in Nat /\ DOMAIN watchers = 1 .. Len(watchers)
  BY DEF WatcherTypes, IsChain
<1>2. 1 .. i = 1 .. (i - 1) \cup {i} /\ \A j \in 1 .. (i - 1) : j \in 1 .. Len(watchers) /\ j # i
  BY <1>1
<1>3. \A j \in 1 .. Len(watchers) : watchers[i] = k /\ watchers[j] = k => i = j
  <2>1. \A j, o \in DOMAIN watchers : watchers[j] = watchers[o] /\ watchers[j] \in Stacked => j = o
    BY DEF WatcherTypes, IsChain
  <2> QED
    BY <1>1, <2>1
<1> QED
  BY <1>2, <1>3 DEF Holds

LEMMA OneLess ==
  ASSUME WatcherTypes, watchers' = watchers, NEW c \in WatchedCalls, NEW i \in 1 .. Len(watchers),
         OpenPlaces(c) = 1 .. i, OpenPlaces(c)' = 1 .. (i - 1), NEW k \in Stacked
  PROVE  /\ watchers[i] = k => Holds(c, k) /\ ~Holds(c, k)'
         /\ watchers[i] # k => (Holds(c, k)' <=> Holds(c, k))
<1>1. Len(watchers) \in Nat /\ DOMAIN watchers = 1 .. Len(watchers)
  BY DEF WatcherTypes, IsChain
<1>2. 1 .. i = 1 .. (i - 1) \cup {i} /\ \A j \in 1 .. (i - 1) : j \in 1 .. Len(watchers) /\ j # i
  BY <1>1
<1>3. \A j \in 1 .. Len(watchers) : watchers[i] = k /\ watchers[j] = k => i = j
  <2>1. \A j, o \in DOMAIN watchers : watchers[j] = watchers[o] /\ watchers[j] \in Stacked => j = o
    BY DEF WatcherTypes, IsChain
  <2> QED
    BY <1>1, <2>1
<1> QED
  BY <1>2, <1>3 DEF Holds

LEMMA HoldersAreUnderWay ==
  ASSUME NEW d \in WatchedCalls, NEW k, Holds(d, k)
  PROVE  UnderWay(d)
  BY DEF Holds, OpenPlaces, UnderWay

\* While calls nest, the entry a span is pushed upon is of the call that made
\* the call.
LEMMA ParentOnTop ==
  ASSUME ObserversAssumption, WatcherTypes, CallsNest, NEW c \in WatchedCalls, calls[c].stage = "before",
         NEW k \in Stacked, StackNests(k), ~Holds(c, k), \E i \in 1 .. Len(watchers) : watchers[i] = k
  PROVE  /\ TopCall(data.stacks[k]) = calls[c].by
         /\ \A d \in WatchedCalls : Holds(d, k) => d < c
<1>1. PICK stack, p : stack = data.stacks[k] /\ p = calls[c].by
  OBVIOUS
<1>2. stack \in Seq(StackEntries) /\ p \in WatchedCalls \cup {NoCall}
  BY <1>1 DEF WatcherTypes
<1>3. PICK n \in Nat : n = Len(stack)
  BY <1>2
<1>4. \A d \in WatchedCalls : d \in Nat
  BY DEF WatchedCalls
<1>5. UnderWay(c) /\ Linked(c)
  BY DEF UnderWay, CallsNest
<1>6. \A d \in WatchedCalls : UnderWay(d) => ~(c < d)
  BY <1>5, OnlyBodiesCall
<1>7. \A d \in WatchedCalls : Holds(d, k) => UnderWay(d) /\ d < c
  BY <1>4, <1>6, HoldersAreUnderWay
<1>8. ASSUME NEW i \in 1 .. n PROVE stack[i].call \in WatchedCalls /\ Holds(stack[i].call, k)
  <2>1. stack[i] \in StackEntries
    BY <1>2, <1>3
  <2>2. stack[i].call \in WatchedCalls
    BY <2>1 DEF StackEntries
  <2> QED
    BY <1>1, <1>3, <2>2 DEF StackNests
<1>9. CASE p = NoCall
  <2>1. \A d \in WatchedCalls : ~Holds(d, k)
    BY <1>1, <1>5, <1>7, <1>9 DEF Linked
  <2>2. n = 0
    BY <1>3, <1>8, <2>1
  <2>3. stack = <<>>
    <3>1. Len(stack) = 0
      BY <1>3, <2>2
    <3> QED
      BY <1>2, <3>1
  <2>4. TopCall(stack) = NoCall
    BY <2>3 DEF TopCall
  <2> QED
    BY <1>1, <1>7, <1>9, <2>4
<1>10. CASE p # NoCall
  <2>1. /\ p \in WatchedCalls /\ UnderWay(p) /\ p < c /\ calls[p].stage = "body"
        /\ \A d \in WatchedCalls : UnderWay(d) => ~(p < d /\ d < c)
    BY <1>1, <1>2, <1>5, <1>10 DEF Linked
  <2>2. Holds(p, k)
    BY <2>1 DEF Holds, OpenPlaces
  <2>3. PICK i \in 1 .. n : stack[i].call = p
    BY <1>1, <1>3, <2>1, <2>2 DEF StackNests
  <2>4. n \in 1 .. n
    BY <1>3, <2>3
  <2>5. PICK q : q = stack[n].call
    OBVIOUS
  <2>6. q \in WatchedCalls /\ Holds(q, k) /\ UnderWay(q) /\ q < c
    BY <1>7, <1>8, <2>4, <2>5
  <2>7. i < n => p < q
    BY <1>1, <1>3, <2>3, <2>4, <2>5 DEF StackNests
  <2>8. i = n
    BY <1>3, <1>4, <2>1, <2>6, <2>7
  <2>9. Last(stack).call = p /\ stack # <<>>
    BY <1>2, <1>3, <2>3, <2>4, <2>8 DEF Last
  <2>10. TopCall(stack) = p
    BY <2>9 DEF TopCall
  <2> QED
    BY <1>1, <1>7, <2>10
<1> QED
  BY <1>9, <1>10

\* What before() of a watcher does to the trace's data.
LEMMA WatcherPushes ==
  ASSUME WatcherTypes, NEW k \in Stacked, NEW c \in WatchedCalls, calls[c].attempt \in 1 .. 2,
         WatcherBefore(k, c)
  PROVE  /\ StackEntry(k, c) \in StackEntries
         /\ data' \in [stacks : [Stacked -> Seq(StackEntries)], sampled : {"undecided", "yes", "no"}]
         /\ data'.stacks[k] = Append(data.stacks[k], StackEntry(k, c))
         /\ \A o \in Stacked \ {k} : data'.stacks[o] = data.stacks[o]
         /\ data.sampled # "undecided" => data'.sampled = data.sampled
<1>1. PICK e, stack : e = StackEntry(k, c) /\ stack = data.stacks[k]
  OBVIOUS
<1>2. stack \in Seq(StackEntries) /\ data.stacks \in [Stacked -> Seq(StackEntries)]
      /\ data.sampled \in {"undecided", "yes", "no"}
  BY <1>1 DEF WatcherTypes
<1>3. TopCall(stack) \in WatchedCalls \cup {NoCall}
  <2>1. CASE stack = <<>>
    BY <2>1 DEF TopCall
  <2>2. CASE stack # <<>>
    <3>1. Len(stack) \in 1 .. Len(stack)
      BY <1>2, <2>2
    <3>2. stack[Len(stack)] \in StackEntries
      BY <1>2, <3>1
    <3>3. Last(stack) = stack[Len(stack)]
      BY DEF Last
    <3>4. Last(stack).call \in WatchedCalls
      BY <3>2, <3>3 DEF StackEntries
    <3> QED
      BY <2>2, <3>4 DEF TopCall
  <2> QED
    BY <2>1, <2>2
<1>4. e \in StackEntries
  BY <1>1, <1>3 DEF StackEntry, StackEntries
<1>5. PICK more : more = PushedOn(k, c)
  OBVIOUS
<1>6. more = [data.stacks EXCEPT ![k] = Append(stack, e)]
  BY <1>1, <1>5 DEF PushedOn
<1>7. Append(stack, e) \in Seq(StackEntries)
  BY <1>2, <1>4
<1>8. /\ more \in [Stacked -> Seq(StackEntries)] /\ more[k] = Append(stack, e)
      /\ \A o \in Stacked \ {k} : more[o] = data.stacks[o]
  BY <1>2, <1>6, <1>7
<1>9. PICK s \in {"undecided", "yes", "no"} :
        /\ data' = [stacks |-> more, sampled |-> s]
        /\ data.sampled # "undecided" => s = data.sampled
  <2>1. CASE k = "tracing"
    <3>1. PICK s \in ShouldSample : data' = [stacks |-> more, sampled |-> s]
      BY <1>5, <2>1 DEF WatcherBefore
    <3>2. s \in {"undecided", "yes", "no"} /\ (data.sampled # "undecided" => s = data.sampled)
      <4>1. CASE data.sampled # "undecided"
        BY <1>2, <3>1, <4>1 DEF ShouldSample
      <4>2. CASE data.sampled = "undecided"
        <5>1. ShouldSample \subseteq {"yes", "no"}
          BY <4>2, Zenon DEF ShouldSample
        <5> QED
          BY <3>1, <4>2, <5>1
      <4> QED
        BY <4>1, <4>2
    <3> QED
      BY <3>1, <3>2
  <2>2. CASE k # "tracing"
    <3>1. k \in {"metrics", "usage"}
      BY <2>2 DEF Stacked
    <3>2. data' = [data EXCEPT !.stacks = more]
      BY <1>5, <2>2, <3>1 DEF WatcherBefore
    <3>3. data' = [stacks |-> more, sampled |-> data.sampled]
      BY <3>2 DEF WatcherTypes
    <3> QED
      BY <1>2, <3>3
  <2> QED
    BY <2>1, <2>2
<1>10. data'.stacks = more /\ data'.sampled = s
  BY <1>9
<1>11. data' \in [stacks : [Stacked -> Seq(StackEntries)], sampled : {"undecided", "yes", "no"}]
  BY <1>8, <1>9
<1> QED
  BY <1>1, <1>4, <1>8, <1>9, <1>10, <1>11

LEMMA BeforeHookKeeps ==
  ASSUME ObserversAssumption, ObsInv, NEW c \in WatchedCalls, BeforeHook(c)
  PROVE  ObsInv'
<1>1. PICK i, k : i = calls[c].at /\ k = watchers[i]
  OBVIOUS
<1>2. /\ WatcherTypes /\ (\A d \in WatchedCalls : InChain(d)) /\ UnderWay(c)
      /\ i \in 1 .. Len(watchers) /\ Len(watchers) \in Nat /\ calls[c].attempt \in 1 .. 2
  BY <1>1, AtHook DEF BeforeHook
<1>3. calls[c].stage = "before" /\ watchers' = watchers /\ noted' = noted /\ sampling' = sampling
      /\ cut' = cut /\ overlapped' = overlapped /\ alerted' = alerted /\ rateEvents' = rateEvents
      /\ WatcherBefore(k, c)
  BY <1>1 DEF BeforeHook
<1>4. /\ OthersStay(c) /\ ByStays(c) /\ GoesOn(c) /\ calls'[c].by = calls[c].by
      /\ calls'[c].attempt = calls[c].attempt /\ calls'[c].stage # "new"
      /\ calls' \in [WatchedCalls -> [stage : CallStages, at : 0 .. Len(watchers'), attempt : 0 .. 2,
                                      by : WatchedCalls \cup {NoCall}]]
      /\ \A d \in WatchedCalls : InChain(d)'
      /\ OpenPlaces(c) = 1 .. (i - 1) /\ OpenPlaces(c)' = 1 .. i
      /\ Passed(c, k)'
  BY <1>1, BeforeGoes
<1>5. ~cut' /\ ~overlapped' => CallsNest'
  BY <1>2, <1>3, <1>4, StaysLast
<1>6. AlertsAlternate'
  BY <1>3, AlertsSame DEF ObsInv
<1>7. \A o \in Stacked : k # o => (Holds(c, o)' <=> Holds(c, o))
  BY <1>1, <1>2, <1>3, <1>4, OneMore
<1>8. CASE k \notin Stacked
  <2>1. data' = data
    BY <1>3, <1>8 DEF WatcherBefore, Stacked
  <2>2. WatcherTypes'
    BY <1>2, <1>3, <1>4, <2>1 DEF WatcherTypes
  <2> QED
    BY <1>3, <1>4, <1>5, <1>6, <1>7, <1>8, <2>1, <2>2, QuietStep
<1>9. CASE k \in Stacked
  <2>1. PICK e : e = StackEntry(k, c)
    OBVIOUS
  <2>2. /\ e \in StackEntries
        /\ data' \in [stacks : [Stacked -> Seq(StackEntries)], sampled : {"undecided", "yes", "no"}]
        /\ data'.stacks[k] = Append(data.stacks[k], e)
        /\ \A o \in Stacked \ {k} : data'.stacks[o] = data.stacks[o]
        /\ data.sampled # "undecided" => data'.sampled = data.sampled
    BY <1>2, <1>3, <1>9, <2>1, WatcherPushes
  <2>3. /\ e.call = c /\ e.attempt = calls[c].attempt
        /\ k = "tracing" => e.parent = TopCall(data.stacks[k])
    BY <2>1 DEF StackEntry
  <2>4. WatcherTypes'
    BY <1>2, <1>3, <1>4, <2>2 DEF WatcherTypes
  <2>5. ~Holds(c, k) /\ Holds(c, k)'
    BY <1>1, <1>2, <1>3, <1>4, <1>9, OneMore
  <2>6. ~Made(k, e) /\ Made(k, e)'
    <3>1. ~Passed(c, k)
      <4>1. \A j \in 1 .. (i - 1) : watchers[j] # k
        BY <1>4, <2>5 DEF Holds
      <4>2. \A j \in 1 .. Len(watchers) : j < i => j \in 1 .. (i - 1)
        BY <1>2
      <4> QED
        BY <1>1, <1>3, <4>1, <4>2 DEF Passed
    <3>2. ~(calls[c].attempt < calls[c].attempt)
      BY <1>2
    <3> QED
      BY <1>4, <2>3, <3>1, <3>2 DEF Made
  <2>7. ASSUME NEW o \in Stacked PROVE OnePlace(o)'
    <3>1. OnePlace(o) /\ noted'[o] = noted[o]
      BY <1>3 DEF ObsInv
    <3>2. CASE o = k
      BY <1>2, <1>4, <2>2, <2>4, <2>6, <3>1, <3>2, OnePlacePushed
    <3>3. CASE o # k
      BY <1>2, <1>4, <2>2, <2>4, <3>1, <3>3, OnePlaceStays
    <3> QED
      BY <3>2, <3>3
  <2>8. ASSUME ~cut', NEW o \in Stacked PROVE Balanced(o)'
    <3>1. Balanced(o) /\ noted'[o] = noted[o]
      BY <1>3, <2>8 DEF ObsInv, Balance
    <3>2. CASE o = k
      BY <1>2, <1>4, <2>2, <2>3, <2>5, <3>1, <3>2, BalancedPushed
    <3>3. CASE o # k
      BY <1>4, <1>7, <2>2, <3>1, <3>3, BalancedStays
    <3> QED
      BY <3>2, <3>3
  <2>9. ASSUME ~cut', ~overlapped', NEW o \in Stacked PROVE StackNests(o)' /\ OwnNotes(o)'
    <3>1. OnePlace(o) /\ StackNests(o) /\ OwnNotes(o) /\ noted'[o] = noted[o] /\ CallsNest
      BY <1>3, <2>9 DEF ObsInv, Nesting
    <3>2. CASE o = k
      <4>1. TopCall(data.stacks[k]) = calls[c].by /\ \A d \in WatchedCalls : Holds(d, k) => d < c
        BY <1>1, <1>2, <1>3, <1>9, <2>5, <3>1, <3>2, ParentOnTop
      <4>2. k = "tracing" => e.parent = calls[c].by
        BY <2>3, <4>1
      <4>3. calls[c].stage # "new"
        BY <1>3
      <4> QED
        BY <1>2, <1>4, <2>2, <2>3, <2>5, <3>1, <3>2, <4>1, <4>2, <4>3, NestsPushed
    <3>3. CASE o # k
      BY <1>2, <1>4, <1>7, <2>2, <3>1, <3>3, NestsStays
    <3> QED
      BY <3>2, <3>3
  <2>10. SampledWhole'
    BY <1>3, <2>2 DEF ObsInv, SampledWhole
  <2>11. Balance' /\ Nesting'
    BY <1>5, <2>8, <2>9 DEF Balance, Nesting
  <2> QED
    BY <1>4, <1>6, <2>4, <2>7, <2>10, <2>11 DEF ObsInv
<1> QED
  BY <1>8, <1>9

----------------------------------------------------------------------------
(* A step that tells a watcher *)

LastTaken(k, n) ==
  /\ Len(data.stacks[k]) = n + 1 /\ Len(data'.stacks[k]) = n
  /\ \A i \in 1 .. n : data'.stacks[k][i] = data.stacks[k][i]
NotesGrow(k, note) == noted[k] \subseteq noted'[k] /\ noted'[k] \subseteq noted[k] \cup {note}

LEMMA OnePlaceNoted ==
  ASSUME WatcherTypes, WatcherTypes', NEW c \in WatchedCalls, OthersStay(c), GoesOn(c),
         NEW k \in Stacked, OnePlace(k), data.stacks[k] = <<>>, data'.stacks[k] = data.stacks[k],
         NEW note \in WatchNotes, note.of = <<>>, NotesGrow(k, note)
  PROVE  OnePlace(k)'
<1>1. PICK notes : notes = noted[k]
  OBVIOUS
<1>2. notes \subseteq WatchNotes
  BY <1>1 DEF WatcherTypes
<1>3. \A o \in noted'[k] : o.of # <<>> => o \in notes
  BY <1>1 DEF NotesGrow
<1>4. ASSUME NEW o \in notes, o.of # <<>> PROVE Made(k, o.of)'
  <2>1. o.of \in StackEntries /\ Made(k, o.of)
    BY <1>1, <1>2, <1>4 DEF WatchNotes, OnePlace
  <2> QED
    BY <2>1, MadeStays
<1>5. \A m, o \in noted'[k] : m.of = o.of /\ m.of # <<>> => m = o
  BY <1>1, <1>3 DEF OnePlace
<1>6. Len(data'.stacks[k]) = 0 /\ 1 .. 0 = {}
  OBVIOUS
<1> QED
  BY <1>3, <1>4, <1>5, <1>6 DEF OnePlace

LEMMA OnePlaceTold ==
  ASSUME WatcherTypes, WatcherTypes', NEW c \in WatchedCalls, OthersStay(c), GoesOn(c),
         NEW k \in Stacked, OnePlace(k), NEW n \in Nat, LastTaken(k, n),
         NEW note \in WatchNotes, note.of = data.stacks[k][n + 1], NotesGrow(k, note)
  PROVE  OnePlace(k)'
<1>1. PICK stack, less, notes : stack = data.stacks[k] /\ less = data'.stacks[k] /\ notes = noted[k]
  OBVIOUS
<1>2. stack \in Seq(StackEntries) /\ notes \subseteq WatchNotes
  BY <1>1 DEF WatcherTypes
<1>3. Len(stack) = n + 1 /\ Len(less) = n /\ \A i \in 1 .. n : less[i] = stack[i]
  BY <1>1 DEF LastTaken
<1>4. n + 1 \in 1 .. (n + 1) /\ \A i \in 1 .. n : i \in 1 .. (n + 1) /\ i # n + 1
  OBVIOUS
<1>5. \A i \in 1 .. (n + 1) : stack[i] \in StackEntries /\ Made(k, stack[i])'
  <2> SUFFICES ASSUME NEW i \in 1 .. (n + 1) PROVE stack[i] \in StackEntries /\ Made(k, stack[i])'
    OBVIOUS
  <2>1. stack[i] \in StackEntries /\ Made(k, stack[i])
    BY <1>1, <1>2, <1>3 DEF OnePlace
  <2> QED
    BY <2>1, MadeStays
<1>6. \A o \in noted'[k] : o \in notes \/ o = note
  BY <1>1 DEF NotesGrow
<1>7. ASSUME NEW o \in notes, o.of # <<>> PROVE Made(k, o.of)'
  <2>1. o.of \in StackEntries /\ Made(k, o.of)
    BY <1>1, <1>2, <1>7 DEF WatchNotes, OnePlace
  <2> QED
    BY <2>1, MadeStays
<1>8. note.of = stack[n + 1]
  BY <1>1
<1>9. \A o \in noted'[k] : o.of # <<>> => Made(k, o.of)'
  BY <1>4, <1>5, <1>6, <1>7, <1>8
<1>10. \A i \in 1 .. n : Made(k, less[i])'
  BY <1>3, <1>4, <1>5
<1>11. \A i, j \in 1 .. n : less[i] = less[j] => i = j
  BY <1>1, <1>3, <1>4 DEF OnePlace
<1>12. \A i \in 1 .. (n + 1) : \A o \in notes : o.of # stack[i]
  BY <1>1, <1>3 DEF OnePlace
<1>13. \A i \in 1 .. n : note.of # stack[i]
  BY <1>1, <1>3, <1>4, <1>8 DEF OnePlace
<1>14. \A i \in 1 .. n : \A o \in noted'[k] : o.of # less[i]
  BY <1>3, <1>4, <1>6, <1>12, <1>13
<1>15. \A m, o \in noted'[k] : m.of = o.of /\ m.of # <<>> => m = o
  BY <1>1, <1>4, <1>6, <1>8, <1>12 DEF OnePlace
<1> QED
  BY <1>1, <1>3, <1>9, <1>10, <1>11, <1>14, <1>15 DEF OnePlace

LEMMA BalancedTold ==
  ASSUME ObserversAssumption, WatcherTypes, NEW c \in WatchedCalls, OthersStay(c), NEW k \in Stacked,
         Balanced(k), NEW n \in Nat, LastTaken(k, n), Holds(c, k), ~Holds(c, k)',
         NEW note \in WatchNotes, note.told = c, note.of = data.stacks[k][n + 1], NotesGrow(k, note),
         k # "tracing" => note \in noted'[k]
  PROVE  Balanced(k)'
<1>1. PICK stack, less, notes : stack = data.stacks[k] /\ less = data'.stacks[k] /\ notes = noted[k]
  OBVIOUS
<1>2. stack \in Seq(StackEntries) /\ notes \subseteq WatchNotes
  BY <1>1 DEF WatcherTypes
<1>3. Len(stack) = n + 1 /\ Len(less) = n /\ \A i \in 1 .. n : less[i] = stack[i]
  BY <1>1 DEF LastTaken
<1>4. 1 .. (n + 1) = 1 .. n \cup {n + 1}
  OBVIOUS
<1>5. note.of = stack[n + 1] /\ note.of \in StackEntries
  BY <1>1, <1>2, <1>3, <1>4
<1>6. \A d \in WatchedCalls : Holds(d, k)' <=> Holds(d, k) /\ d # c
  BY OthersKeep
<1>7. Holders(k)' = Holders(k) \ {c} /\ c \in Holders(k)
  BY <1>6 DEF Holders
<1>8. Cardinality(Holders(k)') = Cardinality(Holders(k)) - 1
  <2>1. IsFiniteSet(Holders(k))
    BY HoldersAreFinite
  <2>2. Cardinality(Holders(k) \ {c}) = Cardinality(Holders(k)) - 1
    BY <1>7, <2>1, FS_RemoveElement
  <2> QED
    BY <1>7, <2>2
<1>9. Len(data'.stacks[k]) = Cardinality(Holders(k)')
  <2>1. Cardinality(Holders(k)) = n + 1
    BY <1>1, <1>3 DEF Balanced
  <2>2. Cardinality(Holders(k)') = n
    BY <1>8, <2>1
  <2> QED
    BY <1>1, <1>3, <2>2
<1>10. notes \subseteq noted'[k] /\ \A o \in noted'[k] : o \in notes \/ o = note
  BY <1>1 DEF NotesGrow
<1>11. \A o \in noted'[k] : o.of \in StackEntries
  BY <1>1, <1>5, <1>10 DEF Balanced
<1>12. ASSUME k # "tracing", NEW d \in WatchedCalls
       PROVE  Holds(d, k)' \/ ToldAt(d, k)' <=> KnownAt(d, k)'
  <2>1. ToldAt(d, k)' <=> ToldAt(d, k) \/ d = c
    BY <1>1, <1>10, <1>12 DEF ToldAt
  <2>2. (\E i \in 1 .. (n + 1) : stack[i].call = d) <=> (\E i \in 1 .. n : less[i].call = d) \/ note.of.call = d
    BY <1>3, <1>4, <1>5
  <2>3. (\E o \in noted'[k] : o.of.call = d) <=> (\E o \in notes : o.of.call = d) \/ note.of.call = d
    BY <1>10, <1>12
  <2>4. KnownAt(d, k)' <=> KnownAt(d, k)
    BY <1>1, <1>3, <2>2, <2>3 DEF KnownAt
  <2>5. Holds(d, k) \/ ToldAt(d, k) <=> KnownAt(d, k)
    BY <1>12 DEF Balanced
  <2> QED
    BY <1>6, <2>1, <2>4, <2>5
<1> QED
  BY <1>9, <1>11, <1>12 DEF Balanced

LEMMA NestsTold ==
  ASSUME WatcherTypes, NEW c \in WatchedCalls, OthersStay(c),
         calls'[c].by = calls[c].by, NEW k \in Stacked, StackNests(k), OwnNotes(k),
         NEW n \in Nat, LastTaken(k, n), data.stacks[k][n + 1].call = c, ~Holds(c, k)',
         NEW note \in WatchNotes, note.told = c, note.of = data.stacks[k][n + 1], NotesGrow(k, note)
  PROVE  StackNests(k)' /\ OwnNotes(k)'
<1>1. PICK stack, less, notes : stack = data.stacks[k] /\ less = data'.stacks[k] /\ notes = noted[k]
  OBVIOUS
<1>2. stack \in Seq(StackEntries) /\ notes \subseteq WatchNotes
  BY <1>1 DEF WatcherTypes
<1>3. Len(stack) = n + 1 /\ Len(less) = n /\ \A i \in 1 .. n : less[i] = stack[i]
  BY <1>1 DEF LastTaken
<1>4. 1 .. (n + 1) = 1 .. n \cup {n + 1} /\ \A i \in 1 .. n : i < n + 1
  OBVIOUS
<1>5. \A i \in 1 .. (n + 1) : stack[i] \in StackEntries /\ stack[i].call \in WatchedCalls
  <2>1. \A i \in 1 .. (n + 1) : stack[i] \in StackEntries
    BY <1>2, <1>3
  <2> QED
    BY <2>1 DEF StackEntries
<1>6. \A d \in WatchedCalls : calls'[d].by = calls[d].by
  BY DEF OthersStay
<1>7. \A d \in WatchedCalls : Holds(d, k)' <=> Holds(d, k) /\ d # c
  BY OthersKeep
<1>8. stack[n + 1].call = c /\ note.of = stack[n + 1] /\ c \in Nat
  BY <1>1 DEF WatchedCalls
<1>9. \A i, j \in 1 .. (n + 1) : i < j => stack[i].call < stack[j].call
  BY <1>1, <1>3 DEF StackNests
<1>10. \A i \in 1 .. n : stack[i].call < c
  BY <1>4, <1>8, <1>9
<1>11. \A d \in WatchedCalls : Holds(d, k)' <=> \E i \in 1 .. n : less[i].call = d
  <2> SUFFICES ASSUME NEW d \in WatchedCalls PROVE Holds(d, k)' <=> \E i \in 1 .. n : less[i].call = d
    OBVIOUS
  <2>1. Holds(d, k) <=> \E i \in 1 .. (n + 1) : stack[i].call = d
    BY <1>1, <1>3 DEF StackNests
  <2>2. \A i \in 1 .. n : stack[i].call # c
    BY <1>8, <1>10
  <2> QED
    BY <1>3, <1>4, <1>7, <1>8, <2>1, <2>2
<1>12. \A i, j \in 1 .. n : i < j => less[i].call < less[j].call
  BY <1>3, <1>4, <1>9
<1>13. ASSUME k = "tracing" PROVE \A i \in 1 .. (n + 1) : stack[i].parent = calls'[stack[i].call].by
  <2>1. \A i \in 1 .. (n + 1) : stack[i].parent = calls[stack[i].call].by
    BY <1>1, <1>3, <1>13 DEF StackNests
  <2> QED
    BY <1>5, <1>6, <2>1
<1>14. k = "tracing" => \A i \in 1 .. n : less[i].parent = calls'[less[i].call].by
  BY <1>3, <1>4, <1>13
<1>15. StackNests(k)'
  BY <1>1, <1>3, <1>11, <1>12, <1>14 DEF StackNests
<1>16. OwnNotes(k)'
  <2> SUFFICES ASSUME NEW o \in noted'[k]
               PROVE  /\ o.of \in StackEntries /\ o.of.call = o.told
                      /\ k = "tracing" => o.of.parent = calls'[o.told].by
    BY DEF OwnNotes
  <2>1. CASE o = note
    BY <1>4, <1>5, <1>8, <1>13, <2>1
  <2>2. CASE o \in notes
    <3>1. o.told \in WatchedCalls
      BY <1>2, <2>2 DEF WatchNotes
    <3> QED
      BY <1>1, <1>6, <2>2, <3>1 DEF OwnNotes
  <2> QED
    BY <1>1, <2>1, <2>2 DEF NotesGrow
<1> QED
  BY <1>15, <1>16

\* What after() or onError() of a watcher does: there was nothing to pop, or
\* the last entry is taken.
PopsNothing(k, note) == data.stacks[k] = <<>> /\ data' = data /\ note.of = <<>>
PopsLast(k, note, n) ==
  /\ LastTaken(k, n) /\ note.of = data.stacks[k][n + 1]
  /\ k # "tracing" => note \in noted'[k]
NotedAs(c, ok, note) == note \in WatchNotes /\ note.told = c /\ note.ok = ok
ExportedOnly(k, ok) == k = "tracing" /\ noted'[k] # noted[k] => Exported(ok)

LEMMA WatcherPops ==
  ASSUME WatcherTypes, NEW k \in Stacked, NEW c \in WatchedCalls, NEW ok \in BOOLEAN, WatcherTold(k, c, ok)
  PROVE  /\ data' \in [stacks : [Stacked -> Seq(StackEntries)], sampled : {"undecided", "yes", "no"}]
         /\ noted' \in [Stacked -> SUBSET WatchNotes] /\ data'.sampled = data.sampled
         /\ \A o \in Stacked \ {k} : data'.stacks[o] = data.stacks[o] /\ noted'[o] = noted[o]
         /\ ExportedOnly(k, ok)
         /\ \E note : /\ NotedAs(c, ok, note) /\ NotesGrow(k, note)
                      /\ PopsNothing(k, note) \/ \E n \in Nat : PopsLast(k, note, n)
<1>1. PICK stack : stack = data.stacks[k]
  OBVIOUS
<1>2. stack \in Seq(StackEntries) /\ data.stacks \in [Stacked -> Seq(StackEntries)]
      /\ data.sampled \in {"undecided", "yes", "no"} /\ noted \in [Stacked -> SUBSET WatchNotes]
  BY <1>1 DEF WatcherTypes
<1>3. CASE stack = <<>>
  <2>1. PICK note : note = [told |-> c, of |-> <<>>, ok |-> ok]
    OBVIOUS
  <2>2. NotedAs(c, ok, note) /\ note.of = <<>>
    BY <2>1 DEF NotedAs, WatchNotes
  <2>3. /\ data' = data
        /\ noted' = IF k = "usage" THEN [noted EXCEPT ![k] = @ \cup {note}] ELSE noted
    BY <1>1, <1>3, <2>1 DEF WatcherTold
  <2>4. note \in WatchNotes
    BY <2>2 DEF NotedAs
  <2>5. /\ noted' \in [Stacked -> SUBSET WatchNotes]
        /\ noted'[k] = IF k = "usage" THEN noted[k] \cup {note} ELSE noted[k]
        /\ \A o \in Stacked \ {k} : noted'[o] = noted[o]
    BY <1>2, <2>3, <2>4
  <2>6. NotesGrow(k, note) /\ ExportedOnly(k, ok)
    BY <2>5 DEF NotesGrow, ExportedOnly
  <2>7. PopsNothing(k, note)
    BY <1>1, <1>3, <2>2, <2>3 DEF PopsNothing
  <2>8. data' \in [stacks : [Stacked -> Seq(StackEntries)], sampled : {"undecided", "yes", "no"}]
    BY <2>3 DEF WatcherTypes
  <2> QED
    BY <2>2, <2>3, <2>5, <2>6, <2>7, <2>8
<1>4. CASE stack # <<>>
  <2>1. PICK n \in Nat : Len(stack) = n + 1
    <3>1. Len(stack) \in Nat /\ Len(stack) # 0
      BY <1>2, <1>4
    <3>2. Len(stack) - 1 \in Nat /\ Len(stack) = (Len(stack) - 1) + 1
      BY <3>1
    <3> QED
      BY <3>2
  <2>2. stack[n + 1] \in StackEntries
    BY <1>2, <2>1
  <2>3. PICK note : note = [told |-> c, of |-> stack[n + 1], ok |-> ok]
    OBVIOUS
  <2>4. NotedAs(c, ok, note) /\ note.of = stack[n + 1] /\ note \in WatchNotes
    BY <2>2, <2>3 DEF NotedAs, WatchNotes
  <2>5. PICK less : less = RemoveAt(stack, n + 1)
    OBVIOUS
  <2>6. less = [i \in 1 .. n |-> stack[i]]
    <3>1. less = SubSeq(stack, 1, n) \o SubSeq(stack, n + 2, n + 1)
      BY <2>1, <2>5 DEF RemoveAt
    <3> QED
      BY <1>2, <2>1, <3>1
  <2>7. less \in Seq(StackEntries) /\ Len(less) = n /\ \A i \in 1 .. n : less[i] = stack[i]
    <3>1. \A i \in 1 .. n : stack[i] \in StackEntries
      BY <1>2, <2>1
    <3> QED
      BY <2>6, <3>1
  <2>8. /\ noted' = IF k = "tracing" /\ ~Exported(ok) THEN noted ELSE [noted EXCEPT ![k] = @ \cup {note}]
        /\ data' = [data EXCEPT !.stacks[k] = less]
    BY <1>1, <1>4, <2>1, <2>3, <2>5 DEF WatcherTold, PopsAt
  <2>9. /\ noted' \in [Stacked -> SUBSET WatchNotes]
        /\ noted'[k] = IF k = "tracing" /\ ~Exported(ok) THEN noted[k] ELSE noted[k] \cup {note}
        /\ \A o \in Stacked \ {k} : noted'[o] = noted[o]
    BY <1>2, <2>4, <2>8
  <2>10. NotesGrow(k, note) /\ ExportedOnly(k, ok) /\ (k # "tracing" => note \in noted'[k])
    BY <2>9 DEF NotesGrow, ExportedOnly
  <2>11. PICK more : more = [data.stacks EXCEPT ![k] = less]
    OBVIOUS
  <2>12. /\ more \in [Stacked -> Seq(StackEntries)] /\ more[k] = less
         /\ \A o \in Stacked \ {k} : more[o] = data.stacks[o]
    BY <1>2, <2>7, <2>11
  <2>13. data' = [stacks |-> more, sampled |-> data.sampled]
    BY <2>8, <2>11 DEF WatcherTypes
  <2>14. data'.stacks = more /\ data'.sampled = data.sampled
    BY <2>13
  <2>15. PopsLast(k, note, n)
    BY <1>1, <2>1, <2>4, <2>7, <2>10, <2>12, <2>14 DEF PopsLast, LastTaken
  <2>16. data' \in [stacks : [Stacked -> Seq(StackEntries)], sampled : {"undecided", "yes", "no"}]
    BY <1>2, <2>12, <2>13
  <2> QED
    BY <2>4, <2>9, <2>10, <2>12, <2>14, <2>15, <2>16
<1> QED
  BY <1>3, <1>4

\* Events about the error rate that go by turns, the last of them as it stands.
ByTurns(events, standing) ==
  /\ events \in Seq(RateNotes)
  /\ \A i \in 1 .. Len(events) : events[i] = IF i % 2 = 1 THEN "exceeded" ELSE "recovered"
  /\ standing <=> Len(events) % 2 = 1

LEMMA OneMoreTurn ==
  ASSUME NEW events, NEW standing, NEW event, ByTurns(events, standing),
         event = IF standing THEN "recovered" ELSE "exceeded"
  PROVE  ByTurns(Append(events, event), ~standing)
<1>1. PICK more : more = Append(events, event)
  OBVIOUS
<1>2. PICK n \in Nat : n = Len(events)
  BY DEF ByTurns
<1>3. event \in RateNotes
  BY DEF RateNotes
<1>4. /\ more \in Seq(RateNotes) /\ Len(more) = n + 1 /\ more[n + 1] = event
      /\ \A i \in 1 .. n : more[i] = events[i]
  BY <1>1, <1>2, <1>3 DEF ByTurns
<1>5. (n + 1) % 2 = 1 <=> n % 2 # 1
  BY <1>2
<1>6. standing <=> n % 2 = 1
  BY <1>2 DEF ByTurns
<1>7. \A i \in 1 .. n : events[i] = IF i % 2 = 1 THEN "exceeded" ELSE "recovered"
  BY <1>2 DEF ByTurns
<1>8. 1 .. (n + 1) = 1 .. n \cup {n + 1}
  BY <1>2
<1>9. more[n + 1] = IF (n + 1) % 2 = 1 THEN "exceeded" ELSE "recovered"
  BY <1>4, <1>5, <1>6
<1>10. \A i \in 1 .. (n + 1) : more[i] = IF i % 2 = 1 THEN "exceeded" ELSE "recovered"
  BY <1>4, <1>7, <1>8, <1>9
<1>11. ByTurns(more, ~standing)
  BY <1>4, <1>5, <1>6, <1>10 DEF ByTurns
<1> QED
  BY <1>1, <1>11

LEMMA TurnsTaken ==
  ASSUME rateEvents \in Seq(RateNotes), AlertsAlternate
  PROVE  ByTurns(rateEvents, alerted)
  BY DEF ByTurns, AlertsAlternate

LEMMA TurnsAgain ==
  ASSUME NEW events, NEW standing, ByTurns(events, standing), rateEvents' = events, alerted' <=> standing
  PROVE  AlertsAlternate' /\ rateEvents' \in Seq(RateNotes)
<1>1. DOMAIN events = 1 .. Len(events) /\ events \in Seq(RateNotes)
  BY DEF ByTurns
<1>2. \A i \in DOMAIN events : events[i] = IF i % 2 = 1 THEN "exceeded" ELSE "recovered"
  BY <1>1 DEF ByTurns
<1>3. alerted' <=> Len(events) % 2 = 1
  BY DEF ByTurns
<1> QED
  BY <1>1, <1>2, <1>3 DEF AlertsAlternate

LEMMA RecoveryTakesTurn ==
  ASSUME NEW raised, NEW standing, ByTurns(raised, standing),
         alerted' = (standing /\ ~CheckErrorRecovery(standing)),
         rateEvents' = IF CheckErrorRecovery(standing) THEN Append(raised, "recovered") ELSE raised
  PROVE  AlertsAlternate' /\ rateEvents' \in Seq(RateNotes)
<1>1. PICK event : event = "recovered"
  OBVIOUS
<1>2. CASE CheckErrorRecovery(standing)
  <2>1. standing
    BY <1>2 DEF CheckErrorRecovery
  <2>2. ByTurns(Append(raised, event), ~standing)
    BY <1>1, <2>1, OneMoreTurn
  <2>3. rateEvents' = Append(raised, event) /\ (alerted' <=> ~standing)
    BY <1>1, <1>2, <2>1
  <2> QED
    BY <2>2, <2>3, TurnsAgain
<1>3. CASE ~CheckErrorRecovery(standing)
  <2>1. rateEvents' = raised /\ (alerted' <=> standing)
    BY <1>3
  <2> QED
    BY <2>1, TurnsAgain
<1> QED
  BY <1>2, <1>3

LEMMA NotifyKeepsTurns ==
  ASSUME rateEvents \in Seq(RateNotes), AlertsAlternate, NotifyAfter \/ NotifyOnError
  PROVE  AlertsAlternate' /\ rateEvents' \in Seq(RateNotes)
<1>1. ByTurns(rateEvents, alerted)
  BY TurnsTaken
<1>2. CASE NotifyAfter
  <2>1. /\ alerted' = (alerted /\ ~CheckErrorRecovery(alerted))
        /\ rateEvents' = IF CheckErrorRecovery(alerted) THEN Append(rateEvents, "recovered") ELSE rateEvents
    BY <1>2 DEF NotifyAfter
  <2> QED
    BY <1>1, <2>1, RecoveryTakesTurn
<1>3. CASE NotifyOnError
  <2>1. PICK raised, standing :
          /\ standing = (alerted \/ RateReached)
          /\ raised = IF CheckErrorRateThreshold THEN Append(rateEvents, "exceeded") ELSE rateEvents
    OBVIOUS
  <2>2. /\ alerted' = (standing /\ ~CheckErrorRecovery(standing))
        /\ rateEvents' = IF CheckErrorRecovery(standing) THEN Append(raised, "recovered") ELSE raised
    BY <1>3, <2>1 DEF NotifyOnError
  <2>3. ByTurns(raised, standing)
    <3>1. CASE CheckErrorRateThreshold
      <4>1. ~alerted /\ standing
        BY <2>1, <3>1 DEF CheckErrorRateThreshold
      <4>2. PICK event : event = "exceeded"
        OBVIOUS
      <4>3. ByTurns(Append(rateEvents, event), ~alerted)
        BY <1>1, <4>1, <4>2, OneMoreTurn
      <4> QED
        BY <2>1, <3>1, <4>1, <4>2, <4>3 DEF ByTurns
    <3>2. CASE ~CheckErrorRateThreshold
      <4>1. standing <=> alerted
        BY <2>1, <3>2 DEF CheckErrorRateThreshold
      <4> QED
        BY <1>1, <2>1, <3>2, <4>1 DEF ByTurns
    <3> QED
      BY <3>1, <3>2
  <2> QED
    BY <2>2, <2>3, RecoveryTakesTurn
<1> QED
  BY <1>2, <1>3

\* While calls nest, the entry on top is of the call that is told.
LEMMA OwnOnTop ==
  ASSUME WatcherTypes, CallsNest, NEW c \in WatchedCalls, UnderWay(c), calls[c].stage # "body",
         NEW k \in Stacked, StackNests(k), Holds(c, k), NEW n \in Nat, Len(data.stacks[k]) = n + 1
  PROVE  data.stacks[k][n + 1].call = c
<1>1. PICK stack, q : stack = data.stacks[k] /\ q = stack[n + 1].call
  OBVIOUS
<1>2. stack \in Seq(StackEntries) /\ Len(stack) = n + 1 /\ n + 1 \in 1 .. (n + 1)
  BY <1>1 DEF WatcherTypes
<1>3. stack[n + 1] \in StackEntries
  BY <1>2
<1>4. q \in WatchedCalls /\ c \in Nat /\ q \in Nat
  BY <1>1, <1>3 DEF StackEntries, WatchedCalls
<1>5. PICK i \in 1 .. (n + 1) : stack[i].call = c
  BY <1>1, <1>2 DEF StackNests
<1>6. Holds(q, k)
  BY <1>1, <1>2, <1>4 DEF StackNests
<1>7. ~(c < q)
  BY <1>4, <1>6, OnlyBodiesCall, HoldersAreUnderWay
<1>8. i < n + 1 => c < q
  BY <1>1, <1>2, <1>5 DEF StackNests
<1>9. i = n + 1
  BY <1>7, <1>8
<1> QED
  BY <1>1, <1>5, <1>9

LEMMA HookReturnsKeeps ==
  ASSUME ObserversAssumption, ObsInv, NEW c \in WatchedCalls, HookReturns(c)
  PROVE  ObsInv'
<1>1. PICK i, k, ok : i = calls[c].at /\ k = watchers[i] /\ ok = (calls[c].stage = "after")
  OBVIOUS
<1>2. /\ WatcherTypes /\ (\A d \in WatchedCalls : InChain(d)) /\ UnderWay(c)
      /\ i \in 1 .. Len(watchers) /\ Len(watchers) \in Nat
      /\ calls[c].stage \in {"after", "onError"}
  BY <1>1, AtHook DEF HookReturns
<1>3. /\ watchers' = watchers /\ sampling' = sampling /\ cut' = cut /\ overlapped' = overlapped
      /\ HookTold(c, ok)
  BY <1>1 DEF HookReturns
<1>4. /\ OthersStay(c) /\ ByStays(c) /\ GoesOn(c) /\ calls'[c].by = calls[c].by
      /\ calls' \in [WatchedCalls -> [stage : CallStages, at : 0 .. Len(watchers'), attempt : 0 .. 2,
                                      by : WatchedCalls \cup {NoCall}]]
      /\ \A d \in WatchedCalls : InChain(d)'
      /\ OpenPlaces(c) = 1 .. i /\ OpenPlaces(c)' = 1 .. (i - 1)
  BY <1>1, HookGoes
<1>5. ~cut' /\ ~overlapped' => CallsNest'
  BY <1>2, <1>3, <1>4, StaysLast
<1>6. \A o \in Stacked : k # o => (Holds(c, o)' <=> Holds(c, o))
  BY <1>1, <1>2, <1>3, <1>4, OneLess
<1>7. CASE k \notin Stacked
  <2>1. data' = data /\ noted' = noted /\ AlertsAlternate' /\ rateEvents' \in Seq(RateNotes)
    <3>1. CASE k = "notify"
      <4>1. data' = data /\ noted' = noted /\ (NotifyAfter \/ NotifyOnError)
        BY <1>1, <1>3, <1>7, <3>1 DEF HookTold
      <4>2. rateEvents \in Seq(RateNotes) /\ AlertsAlternate
        BY <1>2 DEF WatcherTypes, ObsInv
      <4> QED
        BY <4>1, <4>2, NotifyKeepsTurns
    <3>2. CASE k # "notify"
      <4>1. data' = data /\ noted' = noted /\ alerted' = alerted /\ rateEvents' = rateEvents
        BY <1>1, <1>3, <1>7, <3>2 DEF HookTold
      <4> QED
        BY <1>2, <4>1, AlertsSame DEF WatcherTypes, ObsInv
    <3> QED
      BY <3>1, <3>2
  <2>2. WatcherTypes'
    BY <1>2, <1>3, <1>4, <2>1 DEF WatcherTypes
  <2> QED
    BY <1>3, <1>4, <1>5, <1>6, <1>7, <2>1, <2>2, QuietStep
<1>8. CASE k \in Stacked
  <2>1. WatcherTold(k, c, ok) /\ alerted' = alerted /\ rateEvents' = rateEvents
    BY <1>1, <1>3, <1>8 DEF HookTold, Stacked
  <2>2. /\ data' \in [stacks : [Stacked -> Seq(StackEntries)], sampled : {"undecided", "yes", "no"}]
        /\ noted' \in [Stacked -> SUBSET WatchNotes] /\ data'.sampled = data.sampled
        /\ \A o \in Stacked \ {k} : data'.stacks[o] = data.stacks[o] /\ noted'[o] = noted[o]
        /\ ExportedOnly(k, ok)
    BY <1>1, <1>2, <1>8, <2>1, WatcherPops
  <2>3. PICK note : /\ NotedAs(c, ok, note) /\ NotesGrow(k, note)
                    /\ PopsNothing(k, note) \/ \E n \in Nat : PopsLast(k, note, n)
    BY <1>1, <1>2, <1>8, <2>1, WatcherPops
  <2>4. note \in WatchNotes /\ note.told = c /\ note.ok = ok
    BY <2>3 DEF NotedAs
  <2>5. WatcherTypes'
    BY <1>2, <1>3, <1>4, <2>1, <2>2 DEF WatcherTypes
  <2>6. AlertsAlternate'
    BY <2>1, AlertsSame DEF ObsInv
  <2>7. Holds(c, k) /\ ~Holds(c, k)'
    BY <1>1, <1>2, <1>3, <1>4, <1>8, OneLess
  <2>8. SampledWhole'
    <3> SUFFICES ASSUME NEW n \in noted'["tracing"]
                 PROVE  data'.sampled = "yes" \/ (sampling' = "error_first" /\ ~n.ok)
      BY DEF SampledWhole
    <3>1. "tracing" \in Stacked
      BY DEF Stacked
    <3>2. CASE n \in noted["tracing"]
      BY <1>3, <2>2, <3>2 DEF ObsInv, SampledWhole
    <3>3. CASE n \notin noted["tracing"]
      <4>1. k = "tracing"
        BY <2>2, <3>1, <3>3
      <4>2. n = note /\ Exported(ok)
        BY <2>2, <2>3, <3>3, <4>1 DEF NotesGrow, ExportedOnly
      <4> QED
        BY <1>3, <2>2, <2>4, <4>2 DEF Exported
    <3> QED
      BY <3>2, <3>3
  <2>9. CASE PopsNothing(k, note)
    <3>1. data.stacks[k] = <<>> /\ data' = data /\ note.of = <<>>
      BY <2>9 DEF PopsNothing
    <3>2. \A o \in Stacked : OnePlace(o)'
      <4> SUFFICES ASSUME NEW o \in Stacked PROVE OnePlace(o)'
        OBVIOUS
      <4>1. OnePlace(o)
        BY DEF ObsInv
      <4>2. CASE o = k
        BY <1>2, <1>4, <2>3, <2>4, <2>5, <3>1, <4>1, <4>2, OnePlaceNoted
      <4>3. CASE o # k
        BY <1>2, <1>4, <2>2, <2>5, <4>1, <4>3, OnePlaceStays
      <4> QED
        BY <4>2, <4>3
    <3>3. cut
      <4> SUFFICES ASSUME ~cut PROVE FALSE
        OBVIOUS
      <4>1. Len(data.stacks[k]) = Cardinality(Holders(k))
        BY <1>8 DEF ObsInv, Balance, Balanced
      <4>2. Cardinality(Holders(k)) = 0
        BY <3>1, <4>1
      <4>3. Holders(k) = {}
        BY <4>2, HoldersAreFinite, FS_EmptySet
      <4> QED
        BY <2>7, <4>3 DEF Holders
    <3>4. Balance' /\ Nesting'
      BY <1>3, <3>3 DEF Balance, Nesting
    <3> QED
      BY <1>4, <2>5, <2>6, <2>8, <3>2, <3>4 DEF ObsInv
  <2>10. ASSUME NEW n \in Nat, PopsLast(k, note, n) PROVE ObsInv'
    <3>1. LastTaken(k, n) /\ note.of = data.stacks[k][n + 1] /\ (k # "tracing" => note \in noted'[k])
      BY <2>10 DEF PopsLast
    <3>2. \A o \in Stacked : OnePlace(o)'
      <4> SUFFICES ASSUME NEW o \in Stacked PROVE OnePlace(o)'
        OBVIOUS
      <4>1. OnePlace(o)
        BY DEF ObsInv
      <4>2. CASE o = k
        BY <1>2, <1>4, <2>3, <2>4, <2>5, <3>1, <4>1, <4>2, OnePlaceTold
      <4>3. CASE o # k
        BY <1>2, <1>4, <2>2, <2>5, <4>1, <4>3, OnePlaceStays
      <4> QED
        BY <4>2, <4>3
    <3>3. ASSUME ~cut', NEW o \in Stacked PROVE Balanced(o)'
      <4>1. Balanced(o)
        BY <1>3, <3>3 DEF ObsInv, Balance
      <4>2. CASE o = k
        BY <1>2, <1>4, <2>3, <2>4, <2>7, <3>1, <4>1, <4>2, BalancedTold
      <4>3. CASE o # k
        BY <1>4, <1>6, <2>2, <4>1, <4>3, BalancedStays
      <4> QED
        BY <4>2, <4>3
    <3>4. ASSUME ~cut', ~overlapped', NEW o \in Stacked PROVE StackNests(o)' /\ OwnNotes(o)'
      <4>1. OnePlace(o) /\ StackNests(o) /\ OwnNotes(o) /\ CallsNest
        BY <1>3, <3>4 DEF ObsInv, Nesting
      <4>2. CASE o = k
        <5>1. Len(data.stacks[k]) = n + 1 /\ calls[c].stage # "body"
          BY <1>2, <3>1 DEF LastTaken
        <5>2. data.stacks[k][n + 1].call = c
          BY <1>2, <2>7, <4>1, <4>2, <5>1, OwnOnTop
        <5> QED
          BY <1>2, <1>4, <2>3, <2>4, <2>7, <3>1, <4>1, <4>2, <5>2, NestsTold
      <4>3. CASE o # k
        BY <1>2, <1>4, <1>6, <2>2, <4>1, <4>3, NestsStays
      <4> QED
        BY <4>2, <4>3
    <3>5. Balance' /\ Nesting'
      BY <1>5, <3>3, <3>4 DEF Balance, Nesting
    <3> QED
      BY <1>4, <2>5, <2>6, <2>8, <3>2, <3>5 DEF ObsInv
  <2> QED
    BY <2>3, <2>9, <2>10
<1> QED
  BY <1>7, <1>8

----------------------------------------------------------------------------
(* The theorem *)

LEMMA ObsInvAtFirst ==
  ASSUME ObserversAssumption, ObserversInit
  PROVE  ObsInv
<1>1. /\ watchers \in Chains
      /\ calls = [c \in WatchedCalls |-> [stage |-> "new", at |-> 0, attempt |-> 0, by |-> NoCall]]
      /\ data = [stacks |-> [k \in Stacked |-> <<>>], sampled |-> "undecided"]
      /\ noted = [k \in Stacked |-> {}]
      /\ alerted = FALSE /\ rateEvents = <<>>
  BY DEF ObserversInit
<1>2. IsChain(watchers)
  BY <1>1 DEF ObserversAssumption
<1>3. Len(watchers) \in Nat /\ 0 \in 0 .. Len(watchers)
  BY <1>2 DEF IsChain
<1>4. \A c \in WatchedCalls : calls[c].stage = "new" /\ calls[c].attempt = 0
  BY <1>1
<1>5. \A k \in Stacked : data.stacks[k] = <<>> /\ noted[k] = {}
  BY <1>1
<1>6. WatcherTypes
  <2>1. calls \in [WatchedCalls -> [stage : CallStages, at : 0 .. Len(watchers), attempt : 0 .. 2,
                                    by : WatchedCalls \cup {NoCall}]]
    BY <1>1, <1>3 DEF CallStages
  <2>2. data \in [stacks : [Stacked -> Seq(StackEntries)], sampled : {"undecided", "yes", "no"}]
    BY <1>1
  <2>3. noted \in [Stacked -> SUBSET WatchNotes] /\ rateEvents \in Seq(RateNotes)
    BY <1>1
  <2> QED
    BY <1>1, <1>2, <2>1, <2>2, <2>3 DEF WatcherTypes
<1>7. \A c \in WatchedCalls : InChain(c) /\ ~UnderWay(c)
  BY <1>4 DEF InChain, UnderWay, WatchedCalls, ObserversAssumption
<1>8. ASSUME NEW k \in Stacked PROVE OnePlace(k) /\ Balanced(k) /\ StackNests(k) /\ OwnNotes(k)
  <2>1. Len(data.stacks[k]) = 0 /\ 1 .. 0 = {} /\ noted[k] = {}
    BY <1>5
  <2>2. \A c \in WatchedCalls : ~Holds(c, k)
    BY <1>7, HoldersAreUnderWay
  <2>3. Holders(k) = {}
    BY <2>2 DEF Holders
  <2>4. Cardinality(Holders(k)) = 0
    BY <2>3, FS_EmptySet
  <2>5. OnePlace(k) /\ OwnNotes(k)
    BY <2>1 DEF OnePlace, OwnNotes
  <2>6. StackNests(k)
    BY <2>1, <2>2 DEF StackNests
  <2>7. Balanced(k)
    BY <2>1, <2>2, <2>4 DEF Balanced, ToldAt, KnownAt
  <2> QED
    BY <2>5, <2>6, <2>7
<1>9. CallsNest
  BY <1>7 DEF CallsNest
<1>10. SampledWhole
  BY <1>5 DEF SampledWhole, Stacked
<1>11. AlertsAlternate
  <2>1. DOMAIN rateEvents = {} /\ Len(rateEvents) = 0 /\ 0 % 2 # 1
    BY <1>1
  <2> QED
    BY <1>1, <2>1 DEF AlertsAlternate
<1> QED
  BY <1>6, <1>7, <1>8, <1>9, <1>10, <1>11 DEF ObsInv, Balance, Nesting

LEMMA ObsInvAtRest ==
  ASSUME ObsInv, UNCHANGED observerVars
  PROVE  ObsInv'
<1>1. /\ watchers' = watchers /\ sampling' = sampling /\ calls' = calls /\ data' = data /\ noted' = noted
      /\ alerted' = alerted /\ rateEvents' = rateEvents /\ overlapped' = overlapped /\ cut' = cut
  BY DEF observerVars
<1>2. WatcherTypes' /\ \A c \in WatchedCalls : InChain(c)'
  BY <1>1 DEF ObsInv, WatcherTypes, InChain
<1>3. \A c : OpenPlaces(c)' = OpenPlaces(c) /\ (UnderWay(c)' <=> UnderWay(c))
  BY <1>1 DEF OpenPlaces, UnderWay
<1>4. \A c, k : (Holds(c, k)' <=> Holds(c, k)) /\ (Passed(c, k)' <=> Passed(c, k))
  BY <1>1, <1>3 DEF Holds, Passed
<1>5. \A k : Holders(k)' = Holders(k)
  BY <1>4 DEF Holders
<1>6. \A k, e : Made(k, e)' <=> Made(k, e)
  BY <1>1, <1>4 DEF Made
<1>7. \A k \in Stacked : OnePlace(k)'
  BY <1>1, <1>6 DEF ObsInv, OnePlace
<1>8. \A c, k : (ToldAt(c, k)' <=> ToldAt(c, k)) /\ (KnownAt(c, k)' <=> KnownAt(c, k))
  BY <1>1 DEF ToldAt, KnownAt
<1>9. \A k : Balanced(k)' <=> Balanced(k)
  BY <1>1, <1>4, <1>5, <1>8 DEF Balanced
<1>10. CallsNest' <=> CallsNest
  BY <1>1 DEF CallsNest, Linked, UnderWay
<1>11. \A k : (StackNests(k)' <=> StackNests(k)) /\ (OwnNotes(k)' <=> OwnNotes(k))
  BY <1>1, <1>4 DEF StackNests, OwnNotes
<1>12. Balance' /\ Nesting'
  BY <1>1, <1>9, <1>10, <1>11 DEF ObsInv, Balance, Nesting
<1>13. SampledWhole' /\ AlertsAlternate'
  BY <1>1 DEF ObsInv, SampledWhole, AlertsAlternate
<1> QED
  BY <1>2, <1>7, <1>12, <1>13 DEF ObsInv

LEMMA ObsInvStep ==
  ASSUME ObserversAssumption, ObsInv, [ObserversNext]_observerVars
  PROVE  ObsInv'
<1> USE ObserversAssumption
<1>1. CASE ObserversNext
  <2>1. PICK c \in WatchedCalls :
          \/ CallStarts(c) \/ BeforeHook(c) \/ BeforeThrows(c) \/ ModuleEnds(c) \/ ModuleCancelled(c)
          \/ HookReturns(c) \/ AfterThrows(c) \/ OnErrorAnswers(c)
    BY <1>1 DEF ObserversNext
  <2>2. CASE CallStarts(c)
    BY <2>2, CallStartsKeeps
  <2>3. CASE BeforeHook(c)
    BY <2>3, BeforeHookKeeps
  <2>4. CASE BeforeThrows(c)
    BY <2>4, BeforeThrowsKeeps
  <2>5. CASE ModuleEnds(c)
    BY <2>5, ModuleEndsKeeps
  <2>6. CASE ModuleCancelled(c)
    BY <2>6, ModuleCancelledKeeps
  <2>7. CASE HookReturns(c)
    BY <2>7, HookReturnsKeeps
  <2>8. CASE AfterThrows(c)
    BY <2>8, AfterThrowsKeeps
  <2>9. CASE OnErrorAnswers(c)
    BY <2>9, OnErrorAnswersKeeps
  <2> QED
    BY <2>1, <2>2, <2>3, <2>4, <2>5, <2>6, <2>7, <2>8, <2>9
<1>2. CASE UNCHANGED observerVars
  BY <1>2, ObsInvAtRest
<1> QED
  BY <1>1, <1>2

\* Whatever the calls of a trace, their nesting and their failures: an entry
\* is one watcher's once, calls that nest are told of their own, nothing that
\* was opened is lost, and the alerts alternate.
THEOREM WatchersAreHonest == ObserversSpec => []ObserversHonest
<1>1. ObserversInit => ObsInv
  BY ObserversAssumption, ObsInvAtFirst
<1>2. ObsInv /\ [ObserversNext]_observerVars => ObsInv'
  BY ObserversAssumption, ObsInvStep
<1>3. ObsInv => ObserversHonest
  BY EverybodyIsHonest
<1> QED
  BY <1>1, <1>2, <1>3, PTL DEF ObserversSpec
----------------------------------------------------------------------------
(* Usage: hours and times                                                   *)

LEMMA DivBounds ==
  ASSUME NEW t \in Int
  PROVE  /\ BucketKey(t) \in Int
         /\ BucketKey(t) * TicksPerHour <= t
         /\ t < BucketKey(t) * TicksPerHour + TicksPerHour
<1>1. TicksPerHour \in Nat /\ TicksPerHour > 0
  BY UsageAssumption
<1> QED BY <1>1 DEF BucketKey

LEMMA TimesGrows ==
  ASSUME NEW a \in Int, NEW b \in Int, a <= b, NEW n \in Nat
  PROVE  a * n <= b * n
OBVIOUS

LEMMA KeyIs ==
  ASSUME NEW t \in Int, NEW q \in Int, q * TicksPerHour <= t, t < q * TicksPerHour + TicksPerHour
  PROVE  BucketKey(t) = q
<1> DEFINE k == BucketKey(t) n == TicksPerHour
<1>1. n \in Nat /\ n > 0
  BY UsageAssumption
<1>2. k \in Int /\ k * n <= t /\ t < k * n + n
  BY DivBounds
<1> HIDE DEF k, n
<1>3. (k + 1) * n = k * n + n /\ (q + 1) * n = q * n + n
  BY <1>1, <1>2
<1>4. ~(k + 1 <= q)
  <2>1. k + 1 <= q => (k + 1) * n <= q * n BY <1>1, <1>2, TimesGrows
  <2>2. q * n <= t BY DEF n
  <2>3. k * n \in Int /\ q * n \in Int BY <1>1, <1>2
  <2> QED BY <1>1, <1>2, <1>3, <2>1, <2>2, <2>3
<1>5. ~(q + 1 <= k)
  <2>1. q + 1 <= k => (q + 1) * n <= k * n BY <1>1, <1>2, TimesGrows
  <2>2. t < q * n + n BY DEF n
  <2>3. k * n \in Int /\ q * n \in Int BY <1>1, <1>2
  <2> QED BY <1>1, <1>2, <1>3, <2>1, <2>2, <2>3
<1> QED BY <1>2, <1>4, <1>5 DEF k

\* A later time is in no earlier hour, and as many hours back is as many hours
\* back.
LEMMA KeyGrows ==
  ASSUME NEW s \in Int, NEW t \in Int, s <= t
  PROVE  BucketKey(s) <= BucketKey(t)
<1> DEFINE j == BucketKey(s) k == BucketKey(t) n == TicksPerHour
<1>1. n \in Nat /\ n > 0
  BY UsageAssumption
<1>2. k \in Int /\ t < k * n + n /\ j \in Int /\ j * n <= s
  BY DivBounds
<1> HIDE DEF j, k, n
<1>3. (k + 1) * n = k * n + n
  BY <1>1, <1>2
<1>4. k + 1 <= j => (k + 1) * n <= j * n
  BY <1>1, <1>2, TimesGrows
<1>5. k * n \in Int /\ j * n \in Int
  BY <1>1, <1>2
<1>6. ~(k + 1 <= j)
  BY <1>1, <1>2, <1>3, <1>4, <1>5
<1> QED BY <1>2, <1>6 DEF j, k

LEMMA KeyBack ==
  ASSUME NEW t \in Int, NEW i \in Int
  PROVE  BucketKey(t - i * TicksPerHour) = BucketKey(t) - i
<1> DEFINE k == BucketKey(t) n == TicksPerHour
<1>1. n \in Nat /\ n > 0
  BY UsageAssumption
<1>2. k \in Int /\ k * n <= t /\ t < k * n + n
  BY DivBounds
<1> HIDE DEF k, n
<1>3. (k - i) * n = k * n - i * n /\ i * n \in Int /\ k * n \in Int /\ k - i \in Int
  BY <1>1, <1>2
<1>4. t - i * n \in Int /\ (k - i) * n <= t - i * n /\ t - i * n < (k - i) * n + n
  BY <1>1, <1>2, <1>3
<1>5. BucketKey(t - i * n) = k - i
  BY <1>3, <1>4, KeyIs DEF n
<1> QED BY <1>5 DEF k, n
----------------------------------------------------------------------------
(* Sums                                                                     *)

LEMMA LeastOf ==
  ASSUME NEW T \in SUBSET Nat, T # {}
  PROVE  \E n \in T : /\ \A k \in T : n <= k
                     /\ \A k \in Nat : k < n => k \notin T
<1>1. PICK n \in T : \A k \in T : ~(<<k, n>> \in OpToRel(<, Nat))
  BY NatLessThanWellFounded, WFMin, Zenon
<1>2. \A k \in T : ~(k < n)
  BY <1>1 DEF OpToRel
<1> QED
  BY <1>2

\* iter sums f over the subsets of D.
Sums(iter, f, D) ==
  iter = [s \in SUBSET D |-> IF s = {} THEN 0
                             ELSE LET x == CHOOSE x \in s : TRUE IN f[x] + iter[s \ {x}]]

\* Those of S that g sends to the value c, and into T.
Share(S, g, c) == {p \in S : g[p] = c}
Part(S, g, T) == {p \in S : g[p] \in T}

LEMMA ShareAdds ==
  ASSUME NEW S, IsFiniteSet(S), NEW g, NEW T, NEW x \in T
  PROVE  /\ Cardinality(Part(S, g, T)) = Cardinality(Share(S, g, x)) + Cardinality(Part(S, g, T \ {x}))
         /\ Cardinality(Part(S, g, T)) \in Nat /\ Cardinality(Share(S, g, x)) \in Nat
<1> DEFINE a == Share(S, g, x)
           b == Part(S, g, T \ {x})
           c == Part(S, g, T)
<1>1. a \in SUBSET S /\ b \in SUBSET S /\ c \in SUBSET S /\ c = a \cup b /\ a \cap b = {}
  BY DEF Share, Part
<1> HIDE DEF a, b, c
<1>2. IsFiniteSet(a) /\ IsFiniteSet(b) /\ IsFiniteSet(c)
  BY <1>1, FS_Subset
<1>3. Cardinality(a) \in Nat /\ Cardinality(b) \in Nat /\ Cardinality(c) \in Nat
  BY <1>2, FS_CardinalityType
<1>4. Cardinality(c) = Cardinality(a) + Cardinality(b) - Cardinality(a \cap b)
  BY <1>1, <1>2, FS_Union
<1>5. Cardinality(a \cap b) = 0
  BY <1>1, FS_EmptySet
<1> QED BY <1>3, <1>4, <1>5 DEF a, b, c

LEMMA SumsExist ==
  ASSUME NEW S, IsFiniteSet(S), NEW g, NEW D, NEW f, f = [c \in D |-> Cardinality(Share(S, g, c))]
  PROVE  \E iter : Sums(iter, f, D)
<1> DEFINE iter == [s \in SUBSET D |-> Cardinality(Part(S, g, s))]
           next(s) == LET x == CHOOSE x \in s : TRUE IN f[x] + iter[s \ {x}]
<1>1. ASSUME NEW s \in SUBSET D, s # {} PROVE iter[s] = next(s)
  <2> DEFINE x == CHOOSE x \in s : TRUE
  <2>1. x \in s BY <1>1
  <2> HIDE DEF x
  <2>2. f[x] = Cardinality(Share(S, g, x)) /\ s \ {x} \in SUBSET D BY <2>1
  <2>3. iter[s \ {x}] = Cardinality(Part(S, g, s \ {x})) /\ iter[s] = Cardinality(Part(S, g, s)) BY <2>2
  <2>4. iter[s] = f[x] + iter[s \ {x}] BY <2>1, <2>2, <2>3, ShareAdds
  <2> QED BY <2>4 DEF x
<1>2. iter[{}] = 0
  <2>1. Part(S, g, {}) = {} BY DEF Part
  <2> QED BY <2>1, FS_EmptySet
<1>3. iter = [s \in SUBSET D |-> iter[s]]
  OBVIOUS
<1> HIDE DEF iter
<1>4. iter = [s \in SUBSET D |-> IF s = {} THEN 0 ELSE next(s)]
  BY <1>1, <1>2, <1>3
<1>5. Sums(iter, f, D)
  BY <1>4 DEF Sums
<1> QED BY <1>5

LEMMA SumsAre ==
  ASSUME NEW S, IsFiniteSet(S), NEW g, NEW D, IsFiniteSet(D),
         NEW f, f = [c \in D |-> Cardinality(Share(S, g, c))], NEW iter, Sums(iter, f, D)
  PROVE  iter[D] = Cardinality(Part(S, g, D))
<1> DEFINE Fails(T) == iter[T] # Cardinality(Part(S, g, T))
           Sizes == {Cardinality(T) : T \in {T \in SUBSET D : Fails(T)}}
<1> SUFFICES ASSUME Fails(D) PROVE FALSE
  OBVIOUS
<1>1. \A T \in SUBSET D : IsFiniteSet(T) /\ Cardinality(T) \in Nat
  BY FS_Subset, FS_CardinalityType
<1>2. Sizes \in SUBSET Nat /\ Sizes # {}
  BY <1>1
<1>3. PICK n \in Sizes : \A k \in Nat : k < n => k \notin Sizes
  BY <1>2, LeastOf
<1>4. PICK T \in SUBSET D : Fails(T) /\ n = Cardinality(T)
  BY <1>3
<1>5. \A s \in SUBSET D : iter[s] = IF s = {} THEN 0
                                    ELSE LET x == CHOOSE x \in s : TRUE IN f[x] + iter[s \ {x}]
  BY DEF Sums
<1>6. T # {}
  <2> SUFFICES ASSUME T = {} PROVE FALSE OBVIOUS
  <2>1. iter[T] = 0 BY <1>5
  <2>2. Part(S, g, T) = {} BY DEF Part
  <2> QED BY <1>4, <2>1, <2>2, FS_EmptySet
<1> DEFINE x == CHOOSE x \in T : TRUE
<1>7. x \in T /\ iter[T] = f[x] + iter[T \ {x}]
  BY <1>5, <1>6
<1> HIDE DEF x
<1>8. f[x] = Cardinality(Share(S, g, x))
  BY <1>7
<1>9. Cardinality(T \ {x}) = n - 1 /\ n - 1 \in Nat /\ n \in Nat /\ T \ {x} \in SUBSET D
  <2>1. Cardinality(T \ {x}) = n - 1 BY <1>1, <1>4, <1>7, FS_RemoveElement
  <2>2. T \ {x} \in SUBSET D OBVIOUS
  <2> QED BY <1>1, <1>4, <2>1, <2>2
<1>10. ~Fails(T \ {x})
  <2>1. n - 1 \notin Sizes BY <1>3, <1>9
  <2> QED BY <1>9, <2>1
<1>11. iter[T \ {x}] = Cardinality(Part(S, g, T \ {x}))
  BY <1>10
<1> QED BY <1>4, <1>7, <1>8, <1>11, ShareAdds

LEMMA SumOfShares ==
  ASSUME NEW S, IsFiniteSet(S), NEW g, NEW D, IsFiniteSet(D),
         NEW f, f = [c \in D |-> Cardinality(Share(S, g, c))]
  PROVE  SumOver(f) = Cardinality(Part(S, g, D))
<1> DEFINE iter == CHOOSE iter : Sums(iter, f, D)
<1>1. Sums(iter, f, D)
  BY SumsExist
<1>2. iter[D] = Cardinality(Part(S, g, D))
  BY <1>1, SumsAre
<1>3. DOMAIN f = D
  OBVIOUS
<1>4. SumOver(f) = iter[D]
  BY <1>3 DEF SumOver, FoldFunction, FoldFunctionOnSet, MapThenFoldSet, Sums
<1> QED BY <1>2, <1>4
----------------------------------------------------------------------------
(* The invariant: the buckets hold what was recorded                        *)

UsageRecord == [at : Int, caller : {o.caller : o \in Outcomes}, ok : BOOLEAN]

\* The places in the buckets, and the records that they are for.
Places == UNION {{<<h, i>> : i \in 1..Len(buckets[h])} : h \in DOMAIN buckets}
Stored == {i \in 1..Len(recorded) : i \notin full /\ BucketKey(recorded[i].at) \in DOMAIN buckets}

\* which names, for each place, the record in it.
Names(which) ==
  /\ which \in [Places -> Stored]
  /\ \A p, q \in Places : which[p] = which[q] => p = q
  /\ \A i \in Stored : \E p \in Places : which[p] = i
  /\ \A p \in Places : /\ buckets[p[1]][p[2]] = recorded[which[p]]
                       /\ BucketKey(recorded[which[p]].at) = p[1]

\* A record that is in no bucket found its own full, or is expired.
UsageInv ==
  /\ usageClock \in Int
  /\ recorded \in Seq(UsageRecord) /\ \A i \in 1..Len(recorded) : recorded[i].at <= usageClock
  /\ full \subseteq 1..Len(recorded)
  /\ DOMAIN buckets \subseteq Int /\ \A h \in DOMAIN buckets : buckets[h] \in Seq(UsageRecord)
  /\ \A i \in 1..Len(recorded) :
       i \notin full /\ BucketKey(recorded[i].at) \notin DOMAIN buckets => Expired(BucketKey(recorded[i].at))
  /\ \E which : Names(which)

LEMMA PlacesAre ==
  /\ \A h \in DOMAIN buckets : \A i \in 1..Len(buckets[h]) : <<h, i>> \in Places
  /\ \A p \in Places : /\ p[1] \in DOMAIN buckets /\ p[2] \in 1..Len(buckets[p[1]])
                       /\ p = <<p[1], p[2]>>
BY DEF Places

LEMMA RecordsAre ==
  ASSUME recorded \in Seq(UsageRecord)
  PROVE  /\ Len(recorded) \in Nat
         /\ \A i \in 1..Len(recorded) : recorded[i] \in UsageRecord /\ recorded[i].at \in Int
<1>1. Len(recorded) \in Nat /\ \A i \in 1..Len(recorded) : recorded[i] \in UsageRecord
  OBVIOUS
<1>2. \A r \in UsageRecord : r.at \in Int
  BY DEF UsageRecord
<1> QED BY <1>1, <1>2

LEMMA UsageInitially == UsageInit => UsageInv
<1> SUFFICES ASSUME UsageInit PROVE UsageInv
  OBVIOUS
<1>1. usageClock \in Int /\ buckets = <<>> /\ recorded = <<>> /\ full = {}
  BY UsageAssumption DEF UsageInit
<1>2. DOMAIN buckets = {} /\ Len(recorded) = 0 /\ recorded \in Seq(UsageRecord) /\ 1..Len(recorded) = {}
  BY <1>1
<1>3. Places = {} /\ Stored = {}
  BY <1>2 DEF Places, Stored
<1>4. Names([p \in {} |-> 0])
  BY <1>3 DEF Names
<1> QED BY <1>1, <1>2, <1>4 DEF UsageInv

LEMMA TimeStep == UsageInv /\ TimePasses => UsageInv'
<1> SUFFICES ASSUME UsageInv, TimePasses PROVE UsageInv'
  OBVIOUS
<1>1. usageClock \in Int /\ usageClock' = usageClock + 1 /\ buckets' = buckets /\ recorded' = recorded /\ full' = full
  BY DEF TimePasses, UsageInv
<1>2. \A i \in 1..Len(recorded) : recorded[i].at \in Int /\ recorded[i].at <= usageClock
  BY RecordsAre DEF UsageInv
<1>3. \A h \in Int : Expired(h) => h < BucketKey(usageClock' - RetentionHours * TicksPerHour)
  <2> DEFINE s == usageClock - RetentionHours * TicksPerHour
             t == usageClock' - RetentionHours * TicksPerHour
  <2>1. s \in Int /\ t \in Int /\ s <= t BY <1>1, UsageAssumption
  <2>2. BucketKey(s) <= BucketKey(t) BY <2>1, KeyGrows
  <2>3. BucketKey(s) \in Int /\ BucketKey(t) \in Int BY <2>1, DivBounds
  <2>4. \A h \in Int : h < BucketKey(s) => h < BucketKey(t)
    <3> HIDE DEF s, t
    <3> QED BY <2>2, <2>3
  <2> QED BY <2>4 DEF Expired
<1>4. \A i \in 1..Len(recorded) : BucketKey(recorded[i].at) \in Int
  BY <1>2, DivBounds
<1>5. Places' = Places /\ Stored' = Stored
  BY <1>1 DEF Places, Stored
<1>6. (\E which : Names(which))'
  <2>1. PICK which : Names(which) BY DEF UsageInv
  <2>2. Names(which)' BY <1>1, <1>5, <2>1 DEF Names
  <2> QED BY <2>2
<1>7. \A i \in 1..Len(recorded) :
        i \notin full /\ BucketKey(recorded[i].at) \notin DOMAIN buckets =>
          BucketKey(recorded[i].at) < BucketKey(usageClock' - RetentionHours * TicksPerHour)
  <2>1. \A i \in 1..Len(recorded) :
          i \notin full /\ BucketKey(recorded[i].at) \notin DOMAIN buckets => Expired(BucketKey(recorded[i].at))
    BY DEF UsageInv
  <2> QED BY <1>3, <1>4, <2>1
<1>8. \A i \in 1..Len(recorded) : recorded[i].at <= usageClock'
  BY <1>1, <1>2
<1>9. \A h \in DOMAIN buckets : buckets[h] \in Seq(UsageRecord)
  BY DEF UsageInv
<1>10. recorded \in Seq(UsageRecord) /\ full \subseteq 1..Len(recorded) /\ DOMAIN buckets \subseteq Int
  BY DEF UsageInv
<1> QED BY <1>1, <1>6, <1>7, <1>8, <1>9, <1>10 DEF UsageInv, Expired

LEMMA RecordStep == UsageInv /\ RecordUsage => UsageInv'
<1> SUFFICES ASSUME UsageInv, RecordUsage PROVE UsageInv'
  OBVIOUS
<1> DEFINE hour == BucketKey(usageClock)
           n == Len(recorded)
<1>1. PICK o \in Outcomes :
        LET entry == [at |-> usageClock, caller |-> o.caller, ok |-> o.ok]
            refused == Len(Bucket(hour)) >= MaxPerBucket
        IN /\ buckets' = [h \in {h \in DOMAIN buckets \cup {hour} : ~Expired(h)} |->
                            IF h = hour /\ ~refused THEN Append(Bucket(h), entry) ELSE Bucket(h)]
           /\ recorded' = Append(recorded, entry)
           /\ full' = IF refused THEN full \cup {Len(recorded) + 1} ELSE full
  BY DEF RecordUsage
<1> DEFINE entry == [at |-> usageClock, caller |-> o.caller, ok |-> o.ok]
           refused == Len(Bucket(hour)) >= MaxPerBucket
           kept == {h \in DOMAIN buckets \cup {hour} : ~Expired(h)}
<1>2. /\ buckets' = [h \in kept |-> IF h = hour /\ ~refused THEN Append(Bucket(h), entry) ELSE Bucket(h)]
      /\ recorded' = Append(recorded, entry) /\ full' = (IF refused THEN full \cup {n + 1} ELSE full)
      /\ usageClock' = usageClock
  BY <1>1 DEF RecordUsage
<1>3. /\ usageClock \in Int /\ recorded \in Seq(UsageRecord) /\ full \subseteq 1..n
      /\ DOMAIN buckets \subseteq Int /\ (\A h \in DOMAIN buckets : buckets[h] \in Seq(UsageRecord))
      /\ \A i \in 1..n : recorded[i].at \in Int /\ recorded[i].at <= usageClock
      /\ \A i \in 1..n : i \notin full /\ BucketKey(recorded[i].at) \notin DOMAIN buckets =>
                           Expired(BucketKey(recorded[i].at))
      /\ n \in Nat
  <2>1. recorded \in Seq(UsageRecord) BY DEF UsageInv
  <2>2. \A i \in 1..n : recorded[i].at \in Int BY <2>1, RecordsAre
  <2>3. n \in Nat BY <2>1, RecordsAre
  <2> QED BY <2>1, <2>2, <2>3 DEF UsageInv
<1>4. entry \in UsageRecord /\ entry.at = usageClock
  BY <1>3, UsageAssumption DEF UsageRecord
<1>5. hour \in Int /\ ~Expired(hour)
  <2> DEFINE s == usageClock - RetentionHours * TicksPerHour
  <2>1. s \in Int /\ s <= usageClock BY <1>3, UsageAssumption
  <2>2. BucketKey(s) <= hour /\ BucketKey(s) \in Int /\ hour \in Int BY <1>3, <2>1, KeyGrows, DivBounds
  <2> HIDE DEF s, hour
  <2>3. ~(hour < BucketKey(s)) BY <2>2
  <2> QED BY <2>2, <2>3 DEF Expired, s
<1>6. \A h : Bucket(h) \in Seq(UsageRecord) /\ Len(Bucket(h)) \in Nat
  BY <1>3 DEF Bucket
<1>7. PICK which : Names(which)
  BY DEF UsageInv
<1>8. /\ which \in [Places -> Stored]
      /\ \A p, q \in Places : which[p] = which[q] => p = q
      /\ \A i \in Stored : \E p \in Places : which[p] = i
      /\ \A p \in Places : /\ buckets[p[1]][p[2]] = recorded[which[p]]
                           /\ BucketKey(recorded[which[p]].at) = p[1]
  BY <1>7 DEF Names
<1> HIDE DEF hour, entry, refused, kept, n
<1>9. /\ recorded' \in Seq(UsageRecord) /\ Len(recorded') = n + 1 /\ recorded'[n + 1] = entry
      /\ \A i \in 1..n : recorded'[i] = recorded[i]
  BY <1>2, <1>3, <1>4 DEF n
<1>10. \A i \in 1..(n + 1) : i \in 1..n \/ i = n + 1
  BY <1>3
<1>11. \A i \in 1..n : i \in 1..(n + 1) /\ i # n + 1
  BY <1>3
<1>12. DOMAIN buckets' = kept /\ kept \subseteq Int /\ hour \in kept
       /\ kept \ {hour} \subseteq DOMAIN buckets
  BY <1>2, <1>3, <1>5 DEF kept
<1>13. \A h \in kept : buckets'[h] = IF h = hour /\ ~refused THEN Append(Bucket(h), entry) ELSE Bucket(h)
  BY <1>2
<1>14. ASSUME NEW h \in kept
       PROVE  /\ buckets'[h] \in Seq(UsageRecord)
              /\ \A i \in 1..Len(Bucket(h)) : i \in 1..Len(buckets'[h]) /\ buckets'[h][i] = Bucket(h)[i]
              /\ \A i \in 1..Len(buckets'[h]) :
                   i \in 1..Len(Bucket(h)) \/ (h = hour /\ ~refused /\ i = Len(Bucket(h)) + 1 /\ buckets'[h][i] = entry)
              /\ h = hour /\ ~refused => Len(Bucket(h)) + 1 \in 1..Len(buckets'[h])
  <2>1. Bucket(h) \in Seq(UsageRecord) /\ Len(Bucket(h)) \in Nat BY <1>6
  <2>2. CASE h = hour /\ ~refused
    <3>1. buckets'[h] = Append(Bucket(h), entry) BY <1>13, <2>2
    <3>2. /\ buckets'[h] \in Seq(UsageRecord) /\ Len(buckets'[h]) = Len(Bucket(h)) + 1
          /\ buckets'[h][Len(Bucket(h)) + 1] = entry
          /\ \A i \in 1..Len(Bucket(h)) : buckets'[h][i] = Bucket(h)[i]
      BY <1>4, <2>1, <3>1
    <3> QED BY <2>1, <2>2, <3>2
  <2>3. CASE ~(h = hour /\ ~refused)
    <3>1. buckets'[h] = Bucket(h) BY <1>13, <2>3
    <3> QED BY <2>1, <2>3, <3>1
  <2> QED BY <2>2, <2>3
<1>15. \A h \in DOMAIN buckets : Bucket(h) = buckets[h]
  BY DEF Bucket
<1>16. hour \notin DOMAIN buckets => Len(Bucket(hour)) = 0
  BY DEF Bucket
<1> DEFINE fresh == <<hour, Len(Bucket(hour)) + 1>>
           more == [p \in Places' |-> IF p = fresh THEN n + 1 ELSE which[p]]
<1>17. ASSUME NEW p \in Places'
       PROVE  \/ p \in Places /\ p # fresh /\ buckets'[p[1]][p[2]] = buckets[p[1]][p[2]]
              \/ p = fresh /\ ~refused /\ buckets'[p[1]][p[2]] = entry
  <2>1. p[1] \in kept /\ p[2] \in 1..Len(buckets'[p[1]]) /\ p = <<p[1], p[2]>>
    <3>1. p \in UNION {{<<h, i>> : i \in 1..Len(buckets'[h])} : h \in DOMAIN buckets'} BY DEF Places
    <3> QED BY <1>12, <3>1
  <2>2. CASE p[2] \in 1..Len(Bucket(p[1]))
    <3>1. p[1] \in DOMAIN buckets
      <4>1. p[1] = hour /\ hour \notin DOMAIN buckets => FALSE BY <1>16, <2>2
      <4> QED BY <1>12, <2>1, <4>1
    <3>2. p \in Places BY <1>15, <2>1, <2>2, <3>1, PlacesAre
    <3>3. p # fresh
      <4>1. fresh[1] = hour /\ fresh[2] = Len(Bucket(hour)) + 1 OBVIOUS
      <4>2. Len(Bucket(hour)) + 1 \notin 1..Len(Bucket(hour)) BY <1>6
      <4> HIDE DEF fresh
      <4> QED BY <2>2, <4>1, <4>2
    <3> QED BY <1>14, <1>15, <2>1, <2>2, <3>1, <3>2, <3>3
  <2>3. CASE p[2] \notin 1..Len(Bucket(p[1]))
    <3>1. p[1] = hour /\ ~refused /\ p[2] = Len(Bucket(hour)) + 1 /\ buckets'[p[1]][p[2]] = entry
      BY <1>14, <2>1, <2>3
    <3> QED BY <2>1, <3>1
  <2> QED BY <2>2, <2>3
<1>18. ASSUME NEW h \in kept, NEW i \in 1..Len(buckets'[h]) PROVE <<h, i>> \in Places'
  <2>1. <<h, i>> \in UNION {{<<k, j>> : j \in 1..Len(buckets'[k])} : k \in DOMAIN buckets'} BY <1>12
  <2> QED BY <2>1 DEF Places
<1>19. ~refused => fresh \in Places'
  BY <1>12, <1>14, <1>18
<1>20. \A p \in Places : p[1] \in kept => p \in Places'
  <2> SUFFICES ASSUME NEW p \in Places, p[1] \in kept PROVE p \in Places' OBVIOUS
  <2>1. p[1] \in DOMAIN buckets /\ p[2] \in 1..Len(Bucket(p[1])) /\ p = <<p[1], p[2]>> BY <1>15, PlacesAre
  <2>2. p[2] \in 1..Len(buckets'[p[1]]) BY <1>14, <2>1
  <2>3. <<p[1], p[2]>> \in Places' BY <1>18, <2>2
  <2> QED BY <2>1, <2>3
<1>21. /\ \A i : i \in Stored <=> i \in 1..n /\ i \notin full /\ BucketKey(recorded[i].at) \in DOMAIN buckets
       /\ \A i : i \in Stored' <=> i \in 1..(n + 1) /\ i \notin full' /\ BucketKey(recorded'[i].at) \in kept
  BY <1>9, <1>12 DEF Stored, n
<1>22. \A i \in 1..n : i \in full' <=> i \in full
  BY <1>2, <1>11
<1>23. n + 1 \in Stored' <=> ~refused
  <2>1. n + 1 \in 1..(n + 1) /\ BucketKey(recorded'[n + 1].at) = hour BY <1>3, <1>4, <1>9 DEF hour
  <2>2. n + 1 \notin full BY <1>3
  <2> QED BY <1>2, <1>12, <1>21, <2>1, <2>2
<1>24. \A i \in 1..n : i \in Stored' => i \in Stored
  <2> SUFFICES ASSUME NEW i \in 1..n, i \in Stored' PROVE i \in Stored OBVIOUS
  <2>1. i \notin full /\ BucketKey(recorded[i].at) \in kept BY <1>9, <1>21, <1>22
  <2>2. BucketKey(recorded[i].at) \in DOMAIN buckets
    <3>1. ~Expired(BucketKey(recorded[i].at)) BY <2>1 DEF kept
    <3> QED BY <1>3, <2>1, <3>1
  <2> QED BY <1>21, <2>1, <2>2
<1>25. ASSUME NEW p \in Places' PROVE more[p] \in Stored'
  <2>1. CASE p = fresh BY <1>17, <1>23, <2>1
  <2>2. CASE p # fresh
    <3>1. p \in Places /\ more[p] = which[p] BY <1>17, <2>2
    <3>2. which[p] \in Stored /\ BucketKey(recorded[which[p]].at) = p[1] BY <1>8, <3>1
    <3>3. p[1] \in kept
      <4>1. p \in UNION {{<<h, i>> : i \in 1..Len(buckets'[h])} : h \in DOMAIN buckets'} BY DEF Places
      <4> QED BY <1>12, <4>1
    <3>4. which[p] \in 1..n /\ which[p] \notin full BY <1>21, <3>2
    <3> QED BY <1>9, <1>11, <1>21, <1>22, <3>1, <3>2, <3>3, <3>4
  <2> QED BY <2>1, <2>2
<1>26. ASSUME NEW p \in Places', NEW q \in Places', more[p] = more[q] PROVE p = q
  <2>1. \A r \in Places' : r # fresh => r \in Places /\ more[r] = which[r] /\ which[r] \in 1..n BY <1>8, <1>17, <1>21
  <2>2. \A r \in Places' : r = fresh => more[r] = n + 1 OBVIOUS
  <2> HIDE DEF more, fresh
  <2> QED BY <1>8, <1>11, <1>26, <2>1, <2>2
<1>27. ASSUME NEW i \in Stored' PROVE \E p \in Places' : more[p] = i
  <2>1. CASE i = n + 1
    <3>1. fresh \in Places' BY <1>19, <1>23, <2>1
    <3> QED BY <2>1, <3>1
  <2>2. CASE i # n + 1
    <3>1. i \in 1..n /\ i \in Stored BY <1>10, <1>21, <1>24, <2>2
    <3>2. PICK p \in Places : which[p] = i BY <1>8, <3>1
    <3>3. p[1] \in kept BY <1>8, <1>9, <1>21, <3>1, <3>2
    <3>4. p \in Places' BY <1>20, <3>3
    <3>5. p # fresh
      <4>1. p[2] \in 1..Len(Bucket(p[1])) BY <1>15, PlacesAre
      <4>2. fresh[1] = hour /\ fresh[2] = Len(Bucket(hour)) + 1 OBVIOUS
      <4>3. Len(Bucket(hour)) + 1 \notin 1..Len(Bucket(hour)) BY <1>6
      <4> HIDE DEF fresh
      <4> QED BY <4>1, <4>2, <4>3
    <3>6. more[p] = which[p] BY <3>4, <3>5
    <3> QED BY <3>2, <3>4, <3>6
  <2> QED BY <2>1, <2>2
<1>28. ASSUME NEW p \in Places'
       PROVE  buckets'[p[1]][p[2]] = recorded'[more[p]] /\ BucketKey(recorded'[more[p]].at) = p[1]
  <2>1. CASE p = fresh
    <3>1. more[p] = n + 1 /\ p[1] = hour BY <2>1
    <3>2. buckets'[p[1]][p[2]] = entry
      <4>1. p \notin Places
        <5>1. Len(Bucket(hour)) + 1 \notin 1..Len(Bucket(hour)) BY <1>6
        <5> QED BY <1>15, <2>1, <5>1, PlacesAre
      <4> QED BY <1>17, <4>1
    <3> QED BY <1>4, <1>9, <3>1, <3>2 DEF hour
  <2>2. CASE p # fresh
    <3>1. p \in Places /\ more[p] = which[p] /\ buckets'[p[1]][p[2]] = buckets[p[1]][p[2]] BY <1>17, <2>2
    <3>2. which[p] \in 1..n BY <1>8, <1>21, <3>1
    <3> QED BY <1>8, <1>9, <3>1, <3>2
  <2> QED BY <2>1, <2>2
<1>29. more \in [Places' -> Stored']
  BY <1>25
<1> HIDE DEF more, fresh
<1>30. (\E some : Names(some))'
  <2>1. /\ more \in [Places' -> Stored']
        /\ \A p, q \in Places' : more[p] = more[q] => p = q
        /\ \A i \in Stored' : \E p \in Places' : more[p] = i
        /\ \A p \in Places' : /\ buckets'[p[1]][p[2]] = recorded'[more[p]]
                              /\ BucketKey(recorded'[more[p]].at) = p[1]
    BY <1>26, <1>27, <1>28, <1>29
  <2>2. \E some : /\ some \in [Places' -> Stored']
                  /\ \A p, q \in Places' : some[p] = some[q] => p = q
                  /\ \A i \in Stored' : \E p \in Places' : some[p] = i
                  /\ \A p \in Places' : /\ buckets'[p[1]][p[2]] = recorded'[some[p]]
                                        /\ BucketKey(recorded'[some[p]].at) = p[1]
    BY <2>1
  <2> QED BY <2>2 DEF Names
<1>31. ASSUME NEW i \in 1..(n + 1)
       PROVE  /\ recorded'[i].at <= usageClock'
              /\ i \notin full' /\ BucketKey(recorded'[i].at) \notin kept => Expired(BucketKey(recorded'[i].at))
  <2>1. CASE i = n + 1
    <3>1. recorded'[i].at = usageClock /\ BucketKey(recorded'[i].at) = hour BY <1>4, <1>9, <2>1 DEF hour
    <3> QED BY <1>2, <1>3, <1>12, <3>1
  <2>2. CASE i # n + 1
    <3>1. i \in 1..n /\ recorded'[i] = recorded[i] BY <1>9, <1>10, <2>2
    <3>2. recorded'[i].at <= usageClock' BY <1>2, <1>3, <3>1
    <3>3. i \notin full' => i \notin full BY <1>22, <3>1
    <3>4. i \notin full' /\ BucketKey(recorded[i].at) \notin kept => Expired(BucketKey(recorded[i].at))
      BY <1>3, <3>1, <3>3 DEF kept
    <3> QED BY <3>1, <3>2, <3>4
  <2> QED BY <2>1, <2>2
<1>32. \A h : Expired(h)' <=> Expired(h)
  BY <1>2 DEF Expired
<1>33. full' \subseteq 1..(n + 1)
  BY <1>2, <1>3
<1>34. \A h \in kept : buckets'[h] \in Seq(UsageRecord)
  BY <1>14
<1> QED BY <1>2, <1>3, <1>9, <1>12, <1>30, <1>31, <1>32, <1>33, <1>34 DEF UsageInv

----------------------------------------------------------------------------
(* What is counted                                                          *)

LEMMA UsageStep == UsageInv /\ [UsageNext]_usageVars => UsageInv'
<1> SUFFICES ASSUME UsageInv, [UsageNext]_usageVars PROVE UsageInv'
  OBVIOUS
<1>1. CASE TimePasses
  BY <1>1, TimeStep
<1>2. CASE RecordUsage
  BY <1>2, RecordStep
<1>3. CASE UNCHANGED usageVars
  <2>1. usageClock' = usageClock /\ buckets' = buckets /\ recorded' = recorded /\ full' = full
    BY <1>3 DEF usageVars
  <2>2. Places' = Places /\ Stored' = Stored BY <2>1 DEF Places, Stored
  <2>3. PICK which : Names(which) BY DEF UsageInv
  <2>4. Names(which)' BY <2>1, <2>2, <2>3 DEF Names
  <2>5. (\E some : Names(some))' BY <2>4
  <2> QED BY <2>1, <2>5 DEF UsageInv, Expired
<1> QED BY <1>1, <1>2, <1>3 DEF UsageNext

LEMMA PlacesName ==
  ASSUME UsageInv
  PROVE  \E which : Names(which)
BY DEF UsageInv

\* Places are named one for one, so that what is counted of them is what is
\* counted of the records.
LEMMA NamedAlike ==
  ASSUME UsageInv, NEW which, Names(which), NEW T \in SUBSET Stored,
         NEW S, S = {p \in Places : which[p] \in T}
  PROVE  IsFiniteSet(T) /\ IsFiniteSet(S) /\ Cardinality(S) = Cardinality(T)
<1> DEFINE f == [p \in S |-> which[p]]
<1>1. /\ which \in [Places -> Stored]
      /\ \A p, q \in Places : which[p] = which[q] => p = q
      /\ \A i \in Stored : \E p \in Places : which[p] = i
  BY DEF Names
<1>2. IsFiniteSet(T)
  <2>1. Len(recorded) \in Nat BY RecordsAre DEF UsageInv
  <2>2. IsFiniteSet(1..Len(recorded)) BY <2>1, FS_Interval
  <2>3. T \subseteq 1..Len(recorded) BY DEF Stored
  <2> QED BY <2>2, <2>3, FS_Subset
<1>3. f \in [S -> T]
  OBVIOUS
<1>4. \A a, b \in S : f[a] = f[b] => a = b
  BY <1>1
<1>5. \A i \in T : \E p \in S : f[p] = i
  <2> SUFFICES ASSUME NEW i \in T PROVE \E p \in S : f[p] = i OBVIOUS
  <2>1. PICK p \in Places : which[p] = i BY <1>1
  <2> QED BY <2>1
<1> HIDE DEF f
<1>6. f \in Injection(S, T)
  BY <1>3, <1>4 DEF Injection, IsInjective
<1>7. f \in Surjection(S, T)
  BY <1>3, <1>5 DEF Surjection
<1> QED BY <1>2, <1>6, <1>7, FS_Injection

\* What is collected for a time is in the buckets of the hours it covers.
LEMMA CollectIs ==
  ASSUME UsageInv, NEW from \in Int, NEW to \in Int
  PROVE  CollectRecords(from, to) = {p \in Places : buckets[p[1]][p[2]].at \in from..to}
<1>1. PICK which : Names(which)
  BY PlacesName
<1>2. \A p \in Places : which[p] \in Stored /\ buckets[p[1]][p[2]] = recorded[which[p]]
                        /\ BucketKey(recorded[which[p]].at) = p[1]
  BY <1>1 DEF Names
<1>3. \A i \in Stored : recorded[i].at \in Int
  BY RecordsAre DEF UsageInv, Stored
<1>4. \A h \in DOMAIN buckets : DOMAIN buckets[h] = 1..Len(buckets[h])
  BY DEF UsageInv
<1>5. ASSUME NEW p \in CollectRecords(from, to)
      PROVE  p \in Places /\ buckets[p[1]][p[2]].at \in from..to
  <2>1. PICK h \in DOMAIN buckets : p \in {<<h, i>> : i \in {i \in DOMAIN buckets[h] : buckets[h][i].at \in from .. to}}
    BY DEF CollectRecords
  <2>2. PICK i \in DOMAIN buckets[h] : p = <<h, i>> /\ buckets[h][i].at \in from..to
    BY <2>1
  <2> QED BY <1>4, <2>2, PlacesAre
<1>6. ASSUME NEW p \in Places, buckets[p[1]][p[2]].at \in from..to
      PROVE  p \in CollectRecords(from, to)
  <2> DEFINE t == buckets[p[1]][p[2]].at
  <2>1. t \in Int /\ BucketKey(t) = p[1] /\ from <= t /\ t <= to
    <3>1. t = recorded[which[p]].at BY <1>2
    <3>2. t \in Int /\ BucketKey(t) = p[1] BY <1>2, <1>3, <3>1
    <3> QED BY <1>6, <3>2
  <2>2. BucketKey(from) <= p[1] /\ p[1] <= BucketKey(to)
    BY <2>1, KeyGrows
  <2>3. p[1] \in DOMAIN buckets /\ p[2] \in DOMAIN buckets[p[1]] /\ p = <<p[1], p[2]>>
    BY <1>4, PlacesAre
  <2>4. p \in {<<p[1], i>> : i \in {i \in DOMAIN buckets[p[1]] : buckets[p[1]][i].at \in from .. to}}
    BY <1>6, <2>3
  <2> QED BY <2>2, <2>3, <2>4 DEF CollectRecords
<1> QED BY <1>5, <1>6

\* Of a time that is retained, the records that were taken are there.
LEMMA MadeAreStored ==
  ASSUME UsageInv, NEW from \in Int, NEW to \in Int, usageClock - RetentionHours * TicksPerHour <= from
  PROVE  MadeIn(from, to) \subseteq Stored
<1> SUFFICES ASSUME NEW i \in MadeIn(from, to) PROVE i \in Stored
  OBVIOUS
<1> DEFINE cutoff == usageClock - RetentionHours * TicksPerHour
<1>1. recorded \in Seq(UsageRecord) /\ usageClock \in Int
  BY DEF UsageInv
<1>2. i \in 1..Len(recorded) /\ i \notin full /\ recorded[i].at \in from..to
  BY <1>1 DEF MadeIn
<1>3. recorded[i].at \in Int /\ cutoff \in Int
  BY <1>1, <1>2, RecordsAre, UsageAssumption
<1>4. cutoff <= recorded[i].at
  BY <1>2, <1>3
<1>5. BucketKey(cutoff) <= BucketKey(recorded[i].at) /\ BucketKey(cutoff) \in Int
      /\ BucketKey(recorded[i].at) \in Int
  BY <1>3, <1>4, KeyGrows, DivBounds
<1>6. ~Expired(BucketKey(recorded[i].at))
  BY <1>5 DEF Expired
<1>7. BucketKey(recorded[i].at) \in DOMAIN buckets
  BY <1>2, <1>6 DEF UsageInv
<1> QED BY <1>2, <1>7 DEF Stored

\* So what is collected for it is what was made in it.
LEMMA CollectedAreMade ==
  ASSUME UsageInv, NEW from \in Int, NEW to \in Int, usageClock - RetentionHours * TicksPerHour <= from,
         NEW which, Names(which)
  PROVE  CollectRecords(from, to) = {p \in Places : which[p] \in MadeIn(from, to)}
<1>1. \A p \in Places : which[p] \in Stored /\ buckets[p[1]][p[2]] = recorded[which[p]]
  BY DEF Names
<1>2. DOMAIN recorded = 1..Len(recorded)
  BY DEF UsageInv
<1>3. \A i \in Stored : i \in MadeIn(from, to) <=> recorded[i].at \in from..to
  BY <1>2 DEF Stored, MadeIn
<1>4. CollectRecords(from, to) = {p \in Places : buckets[p[1]][p[2]].at \in from..to}
  BY CollectIs
<1> QED BY <1>1, <1>3, <1>4

LEMMA CountsHold ==
  ASSUME UsageInv, NEW period \in Nat
  PROVE  CountsExact(period)
<1> DEFINE cutoff == usageClock - period
           current == CollectRecords(cutoff, usageClock)
           taken == MadeIn(cutoff, usageClock)
<1> SUFFICES ASSUME period <= RetentionHours * TicksPerHour
             PROVE  /\ Cardinality(current) = Cardinality(taken)
                    /\ Cardinality(ErrorsAmong(current)) = Cardinality({i \in taken : ~recorded[i].ok})
                    /\ CallersAmong(current) = {recorded[i].caller : i \in taken}
  BY DEF CountsExact, Detail
<1>1. PICK which : Names(which)
  BY PlacesName
<1>2. usageClock \in Int /\ cutoff \in Int /\ usageClock - RetentionHours * TicksPerHour <= cutoff
  BY UsageAssumption DEF UsageInv
<1> HIDE DEF cutoff
<1>3. taken \in SUBSET Stored /\ current = {p \in Places : which[p] \in taken}
  BY <1>1, <1>2, MadeAreStored, CollectedAreMade
<1> HIDE DEF taken, current
<1>4. \A p \in Places : buckets[p[1]][p[2]] = recorded[which[p]]
  BY <1>1 DEF Names
<1>5. Cardinality(current) = Cardinality(taken)
  BY <1>1, <1>3, NamedAlike
<1>6. Cardinality(ErrorsAmong(current)) = Cardinality({i \in taken : ~recorded[i].ok})
  <2>1. ErrorsAmong(current) = {p \in Places : which[p] \in {i \in taken : ~recorded[i].ok}}
    BY <1>3, <1>4 DEF ErrorsAmong
  <2>2. {i \in taken : ~recorded[i].ok} \in SUBSET Stored
    BY <1>3
  <2> QED BY <1>1, <2>1, <2>2, NamedAlike
<1>7. CallersAmong(current) = {recorded[i].caller : i \in taken}
  <2>1. \A i \in taken : \E p \in current : which[p] = i BY <1>1, <1>3 DEF Names
  <2>2. \A p \in current : which[p] \in taken /\ buckets[p[1]][p[2]] = recorded[which[p]] BY <1>3, <1>4
  <2> QED BY <2>1, <2>2 DEF CallersAmong
<1> QED BY <1>5, <1>6, <1>7

LEMMA TrendHolds ==
  ASSUME UsageInv, NEW period \in Nat
  PROVE  TrendExact(period)
<1> DEFINE cutoff == usageClock - period
           before == cutoff - period
<1> SUFFICES ASSUME 2 * period <= RetentionHours * TicksPerHour
             PROVE  Trend(Cardinality(CollectRecords(cutoff, usageClock)), Cardinality(CollectRecords(before, cutoff)))
                      = Trend(Cardinality(MadeIn(cutoff, usageClock)), Cardinality(MadeIn(before, cutoff)))
  <2>1. before = usageClock - 2 * period BY DEF UsageInv
  <2> QED BY <2>1 DEF TrendExact, Detail
<1>1. PICK which : Names(which)
  BY PlacesName
<1>2. /\ usageClock \in Int /\ cutoff \in Int /\ before \in Int
      /\ usageClock - RetentionHours * TicksPerHour <= cutoff /\ usageClock - RetentionHours * TicksPerHour <= before
  BY UsageAssumption DEF UsageInv
<1> HIDE DEF cutoff, before
<1>3. Cardinality(CollectRecords(cutoff, usageClock)) = Cardinality(MadeIn(cutoff, usageClock))
  BY <1>1, <1>2, MadeAreStored, CollectedAreMade, NamedAlike
<1>4. Cardinality(CollectRecords(before, cutoff)) = Cardinality(MadeIn(before, cutoff))
  BY <1>1, <1>2, MadeAreStored, CollectedAreMade, NamedAlike
<1> QED BY <1>3, <1>4

LEMMA CollectedAreFinite ==
  ASSUME UsageInv, NEW from \in Int, NEW to \in Int
  PROVE  IsFiniteSet(CollectRecords(from, to)) /\ CollectRecords(from, to) \subseteq Places
<1>1. PICK which : Names(which)
  BY PlacesName
<1>2. Places = {p \in Places : which[p] \in Stored}
  BY <1>1 DEF Names
<1>3. IsFiniteSet(Places)
  BY <1>1, <1>2, NamedAlike
<1>4. CollectRecords(from, to) \in SUBSET Places
  BY CollectIs
<1> QED BY <1>3, <1>4, FS_Subset

\* What is counted for each value adds up to what is counted.
LEMMA SharesAreAll ==
  ASSUME NEW S, IsFiniteSet(S), NEW g, NEW D, IsFiniteSet(D), \A p \in S : g[p] \in D,
         NEW f, f = [c \in D |-> Cardinality(Share(S, g, c))]
  PROVE  SumOver(f) = Cardinality(S)
<1>1. Part(S, g, D) = S
  BY DEF Part
<1> QED BY <1>1, SumOfShares

LEMMA ImageIsFinite ==
  ASSUME NEW S, IsFiniteSet(S), NEW g, NEW D, D = {g[p] : p \in S}
  PROVE  IsFiniteSet(D)
<1> DEFINE f == [p \in S |-> g[p]]
<1>1. f \in [S -> D] /\ \A d \in D : \E p \in S : f[p] = d
  OBVIOUS
<1> HIDE DEF f
<1>2. f \in Surjection(S, D)
  BY <1>1 DEF Surjection
<1> QED BY <1>2, FS_Surjection

\* The last hours and those with calls make out the hours that are shown.
LEMMA LatestAre ==
  ASSUME NEW b \in Int, NEW H \in SUBSET Int, IsFiniteSet(H), \A h \in H : h <= b,
         NEW keys, keys = H \cup ((b - ShownHours + 1)..b)
  PROVE  {k \in keys : Cardinality({l \in keys : l > k}) < ShownHours} = (b - ShownHours + 1)..b
<1> DEFINE w == (b - ShownHours + 1)..b
<1>1. ShownHours \in Nat /\ ShownHours > 0
  BY UsageAssumption
<1>2. IsFiniteSet(w) /\ Cardinality(w) = ShownHours /\ w \subseteq Int
  <2>1. b - ShownHours + 1 \in Int /\ ~(b - ShownHours + 1 > b) /\ b - (b - ShownHours + 1) + 1 = ShownHours
    BY <1>1
  <2> QED BY <2>1, FS_Interval
<1>3. IsFiniteSet(keys) /\ keys \subseteq Int /\ \A k \in keys : k <= b
  <2>1. \A k \in w : k <= b BY <1>1
  <2> HIDE DEF w
  <2>2. keys = H \cup w BY DEF w
  <2> QED BY <1>2, <2>1, <2>2, FS_Union
<1>4. ASSUME NEW k \in w PROVE k \in keys /\ Cardinality({l \in keys : l > k}) < ShownHours
  <2>1. k \in Int /\ b - ShownHours + 1 <= k /\ k <= b BY <1>1
  <2>2. {l \in keys : l > k} = (k + 1)..b
    <3>1. \A l : l \in w <=> l \in Int /\ b - ShownHours + 1 <= l /\ l <= b BY <1>1
    <3>2. \A l : l \in keys <=> l \in H \/ l \in w OBVIOUS
    <3> HIDE DEF w
    <3>3. \A l \in (k + 1)..b : l \in keys /\ l > k BY <1>1, <2>1, <3>1, <3>2
    <3>4. \A l \in keys : l > k => l \in (k + 1)..b BY <1>3, <2>1
    <3>5. \A l \in (k + 1)..b : l \in {m \in keys : m > k} BY <3>3
    <3>6. \A l \in {m \in keys : m > k} : l \in (k + 1)..b BY <3>4
    <3> QED BY <3>5, <3>6
  <2>3. Cardinality((k + 1)..b) = IF k + 1 > b THEN 0 ELSE b - (k + 1) + 1 BY <2>1, FS_Interval
  <2>4. Cardinality((k + 1)..b) < ShownHours BY <1>1, <2>1, <2>3
  <2> QED BY <2>2, <2>4
<1>5. ASSUME NEW k \in keys, k \notin w PROVE ~(Cardinality({l \in keys : l > k}) < ShownHours)
  <2>1. k \in Int /\ k < b - ShownHours + 1 BY <1>1, <1>3, <1>5
  <2>2. \A l \in w : l \in keys /\ l > k BY <1>1, <2>1
  <2> DEFINE above == {l \in keys : l > k}
  <2>3. w \in SUBSET above BY <2>2
  <2>4. above \in SUBSET keys OBVIOUS
  <2> HIDE DEF above, w
  <2>5. IsFiniteSet(above) BY <1>3, <2>4, FS_Subset
  <2>6. Cardinality(w) <= Cardinality(above) BY <2>3, <2>5, FS_Subset
  <2>7. Cardinality(above) \in Nat BY <2>5, FS_CardinalityType
  <2>8. ~(Cardinality(above) < ShownHours) BY <1>1, <1>2, <2>6, <2>7
  <2> QED BY <2>8 DEF above
<1> QED BY <1>4, <1>5

LEMMA AddUp ==
  ASSUME UsageInv, NEW period \in Nat
  PROVE  AddsUp(period)
<1> DEFINE cutoff == usageClock - period
           current == CollectRecords(cutoff, usageClock)
           d == Detail(period)
           shown == PadHourlyDistribution(d.hours)
           b == BucketKey(usageClock)
           c == BucketKey(cutoff)
           w == (b - ShownHours + 1)..b
           caller == [p \in Places |-> buckets[p[1]][p[2]].caller]
           hour == [p \in Places |-> BucketKey(buckets[p[1]][p[2]].at)]
           H == {hour[p] : p \in current}
           C == {caller[p] : p \in current}
<1>1. usageClock \in Int /\ cutoff \in Int /\ cutoff <= usageClock
  BY DEF UsageInv
<1>2. IsFiniteSet(current) /\ current \subseteq Places
  BY <1>1, CollectedAreFinite
<1>3. \A p \in current : buckets[p[1]][p[2]].at \in cutoff..usageClock
  BY <1>1, CollectIs
<1>4. ErrorsAmong(current) \in SUBSET current
  BY DEF ErrorsAmong
<1>5. IsFiniteSet(ErrorsAmong(current))
  BY <1>2, <1>4, FS_Subset
<1>6. b \in Int /\ c \in Int
  BY <1>1, DivBounds
<1>7. ShownHours \in Nat /\ ShownHours > 0
  BY UsageAssumption
<1>8. \A p \in current : hour[p] \in Int /\ c <= hour[p] /\ hour[p] <= b
  <2> SUFFICES ASSUME NEW p \in current PROVE hour[p] \in Int /\ c <= hour[p] /\ hour[p] <= b OBVIOUS
  <2> DEFINE t == buckets[p[1]][p[2]].at
  <2>1. t \in Int /\ cutoff <= t /\ t <= usageClock BY <1>1, <1>3
  <2>2. hour[p] = BucketKey(t) BY <1>2
  <2> HIDE DEF t, hour
  <2> QED BY <1>1, <2>1, <2>2, KeyGrows, DivBounds
<1>9. /\ DOMAIN d.callers = CallersAmong(current) /\ d.callCount = Cardinality(current)
      /\ d.errorCount = Cardinality(ErrorsAmong(current))
      /\ \A k \in CallersAmong(current) :
           /\ d.callers[k].callCount = Cardinality(OfCaller(current, k))
           /\ d.callers[k].errorCount = Cardinality(ErrorsAmong(OfCaller(current, k)))
      /\ d.hours = [h \in {BucketKey(buckets[p[1]][p[2]].at) : p \in current} |-> Cardinality(OfHour(current, h))]
  BY DEF Detail
<1>10. CallersAmong(current) = C /\ \A k : /\ OfCaller(current, k) = Share(current, caller, k)
                                          /\ ErrorsAmong(OfCaller(current, k)) = Share(ErrorsAmong(current), caller, k)
  BY <1>2 DEF CallersAmong, OfCaller, ErrorsAmong, Share
<1>11. {BucketKey(buckets[p[1]][p[2]].at) : p \in current} = H /\ \A k : OfHour(current, k) = Share(current, hour, k)
  BY <1>2 DEF OfHour, Share
<1> HIDE DEF current, d, caller, hour, b, c, cutoff
<1>12. IsFiniteSet(C) /\ IsFiniteSet(H)
  BY <1>2, ImageIsFinite
<1>13. SumOver([k \in DOMAIN d.callers |-> d.callers[k].callCount]) = d.callCount
  <2>1. [k \in DOMAIN d.callers |-> d.callers[k].callCount] = [k \in C |-> Cardinality(Share(current, caller, k))]
    BY <1>9, <1>10
  <2>2. SumOver([k \in C |-> Cardinality(Share(current, caller, k))]) = Cardinality(current)
    BY <1>2, <1>12, SharesAreAll
  <2> QED BY <1>9, <2>1, <2>2
<1>14. SumOver([k \in DOMAIN d.callers |-> d.callers[k].errorCount]) = d.errorCount
  <2>1. [k \in DOMAIN d.callers |-> d.callers[k].errorCount] = [k \in C |-> Cardinality(Share(ErrorsAmong(current), caller, k))]
    BY <1>9, <1>10
  <2>2. \A p \in ErrorsAmong(current) : caller[p] \in C
    BY <1>4
  <2>3. SumOver([k \in C |-> Cardinality(Share(ErrorsAmong(current), caller, k))]) = Cardinality(ErrorsAmong(current))
    BY <1>5, <1>12, <2>2, SharesAreAll
  <2> QED BY <1>9, <2>1, <2>3
<1>15. d.hours = [h \in H |-> Cardinality(Share(current, hour, h))] /\ DOMAIN d.hours = H
  BY <1>9, <1>11
<1>16. H \in SUBSET Int /\ \A h \in H : c <= h /\ h <= b
  BY <1>8
<1> HIDE DEF H, C
<1>17. {BucketKey(usageClock - i * TicksPerHour) : i \in 0 .. (ShownHours - 1)} = w
  <2>1. \A i \in 0..(ShownHours - 1) : BucketKey(usageClock - i * TicksPerHour) = b - i
    <3> TAKE i \in 0..(ShownHours - 1)
    <3>1. i \in Int BY <1>7
    <3> QED BY <1>1, <3>1, KeyBack DEF b
  <2>2. \A k \in w : b - k \in 0..(ShownHours - 1) /\ k = b - (b - k) BY <1>6, <1>7
  <2>3. \A i \in 0..(ShownHours - 1) : b - i \in w BY <1>6, <1>7
  <2> HIDE DEF w
  <2> QED BY <2>1, <2>2, <2>3
<1> HIDE DEF w
<1>18. DOMAIN shown = w /\ \A k \in w : shown[k] = IF k \in H THEN d.hours[k] ELSE 0
  <2> DEFINE keys == H \cup w
             latest == {k \in keys : Cardinality({l \in keys : l > k}) < ShownHours}
  <2>1. latest = w BY <1>6, <1>12, <1>16, LatestAre DEF w
  <2>2. shown = [k \in latest |-> IF k \in H THEN d.hours[k] ELSE 0]
    BY <1>15, <1>17 DEF PadHourlyDistribution
  <2> HIDE DEF latest, shown
  <2> QED BY <2>1, <2>2
<1>19. IsFiniteSet(w) /\ Cardinality(w) = ShownHours
  <2>1. b - ShownHours + 1 \in Int /\ ~(b - ShownHours + 1 > b) /\ b - (b - ShownHours + 1) + 1 = ShownHours
    BY <1>6, <1>7
  <2> QED BY <1>6, <2>1, FS_Interval DEF w
<1>20. shown = [k \in w |-> Cardinality(Share(current, hour, k))]
  <2>1. \A k \in w : k \notin H => Share(current, hour, k) = {} BY DEF H, Share
  <2>2. \A k \in w : shown[k] = Cardinality(Share(current, hour, k))
    BY <1>15, <1>18, <2>1, FS_EmptySet
  <2>3. shown = [k \in DOMAIN shown |-> shown[k]] BY DEF PadHourlyDistribution
  <2> HIDE DEF shown
  <2> QED BY <1>18, <2>2, <2>3
<1>21. SumOver(shown) = Cardinality(Part(current, hour, w))
  BY <1>2, <1>19, <1>20, SumOfShares
<1>22. ASSUME period <= ShownHours * TicksPerHour
       PROVE  SumOver(shown) + (IF c \in H \ w THEN d.hours[c] ELSE 0) = d.callCount
  <2>1. b - ShownHours <= c
    <3>1. usageClock - ShownHours * TicksPerHour \in Int /\ usageClock - ShownHours * TicksPerHour <= cutoff
      BY <1>1, <1>22, UsageAssumption DEF cutoff
    <3>2. BucketKey(usageClock - ShownHours * TicksPerHour) = b - ShownHours
      BY <1>1, <1>7, KeyBack DEF b
    <3> QED BY <1>1, <3>1, <3>2, KeyGrows DEF c
  <2>2. \A h \in H : h \in w \/ h = c
    BY <1>6, <1>7, <1>16, <2>1 DEF w
  <2>3. \A p \in current : hour[p] \in H BY DEF H
  <2>4. CASE c \in H \ w
    <3> DEFINE more == w \cup {c}
    <3>1. Part(current, hour, more) = current BY <2>2, <2>3 DEF Part
    <3>2. more \ {c} = w /\ c \in more BY <2>4
    <3> HIDE DEF more
    <3>3. /\ Cardinality(current) = Cardinality(Share(current, hour, c)) + Cardinality(Part(current, hour, w))
          /\ Cardinality(Share(current, hour, c)) \in Nat /\ Cardinality(current) \in Nat
      BY <1>2, <3>1, <3>2, ShareAdds
    <3>4. Cardinality(Part(current, hour, w)) \in Nat
      <4>1. Part(current, hour, w) \in SUBSET current BY DEF Part
      <4> QED BY <1>2, <4>1, FS_Subset, FS_CardinalityType
    <3>5. d.hours[c] = Cardinality(Share(current, hour, c)) BY <1>15, <2>4
    <3> QED BY <1>9, <1>21, <2>4, <3>3, <3>4, <3>5
  <2>5. CASE ~(c \in H \ w)
    <3>1. Part(current, hour, w) = current BY <2>2, <2>3, <2>5 DEF Part
    <3>2. Cardinality(current) \in Nat BY <1>2, FS_CardinalityType
    <3> QED BY <1>9, <1>21, <2>5, <3>1, <3>2
  <2> QED BY <2>4, <2>5
<1>23. Cardinality(DOMAIN shown) = ShownHours
  BY <1>18, <1>19
<1>24. period <= ShownHours * TicksPerHour =>
         SumOver(shown) + (IF BucketKey(usageClock - period) \in DOMAIN d.hours \ DOMAIN shown
                             THEN d.hours[BucketKey(usageClock - period)] ELSE 0) = d.callCount
  BY <1>15, <1>18, <1>22 DEF c, cutoff
<1> HIDE DEF shown
<1>25. AddsUp(period) <=>
         /\ SumOver([k \in DOMAIN d.callers |-> d.callers[k].callCount]) = d.callCount
         /\ SumOver([k \in DOMAIN d.callers |-> d.callers[k].errorCount]) = d.errorCount
         /\ Cardinality(DOMAIN shown) = ShownHours
         /\ period <= ShownHours * TicksPerHour =>
              SumOver(shown) + (IF BucketKey(usageClock - period) \in DOMAIN d.hours \ DOMAIN shown
                                  THEN d.hours[BucketKey(usageClock - period)] ELSE 0) = d.callCount
  BY DEF AddsUp, d, shown
<1> QED BY <1>13, <1>14, <1>23, <1>24, <1>25

\* What a usage report says of a module is what its callers did.
THEOREM UsageIsTold == UsageSpec => []UsageTold
<1>1. UsageInv => UsageTold
  <2> SUFFICES ASSUME UsageInv, NEW hours \in PeriodHours
               PROVE  LET period == hours * TicksPerHour
                      IN CountsExact(period) /\ TrendExact(period) /\ AddsUp(period)
    BY DEF UsageTold
  <2>1. hours * TicksPerHour \in Nat
    BY UsageAssumption
  <2> QED BY <2>1, CountsHold, TrendHolds, AddUp
<1> QED BY <1>1, UsageInitially, UsageStep, PTL DEF UsageSpec
=============================================================================
