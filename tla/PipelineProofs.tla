---------------------------- MODULE PipelineProofs ----------------------------
(***************************************************************************)
(* What a run of the engine does to a strategy that operators edit under    *)
(* it, and what may become of the strategy.                                 *)
(***************************************************************************)
EXTENDS Pipeline, SequenceTheorems, WellFoundedInduction, TLAPS

----------------------------------------------------------------------------
(* Lists of steps *)

SoundStep(s) == IsAStep(s) /\ ~GateWeakened(s)

SoundList(list) ==
  /\ list \in Seq(Range(list))
  /\ \A i \in DOMAIN list : SoundStep(list[i])
  /\ IsInjective(Names(list))

LEMMA SeqOfItsRange ==
  ASSUME NEW S, NEW list \in Seq(S)
  PROVE  list \in Seq(Range(list))
<1>1. list \in [1..Len(list) -> S] /\ Len(list) \in Nat
  BY LenProperties
<1>2. list \in [1..Len(list) -> Range(list)]
  BY <1>1 DEF Range
<1> QED
  BY <1>1, <1>2, SeqDef

LEMMA ListParts ==
  ASSUME NEW list, list \in Seq(Range(list))
  PROVE  /\ Len(list) \in Nat /\ DOMAIN list = 1 .. Len(list)
         /\ \A i \in DOMAIN list : list[i] \in Range(list)
  BY LenProperties DEF Range

LEMMA EmptyList == SoundList(<<>>) /\ DependenciesMet(<<>>)
<1>1. <<>> \in Seq({}) /\ DOMAIN <<>> = {}
  OBVIOUS
<1>2. <<>> \in Seq(Range(<<>>))
  BY <1>1, SeqOfItsRange
<1>3. DOMAIN Names(<<>>) = {}
  BY DEF Names
<1> QED
  BY <1>1, <1>2, <1>3 DEF SoundList, DependenciesMet, IsInjective

LEMMA NamesDiffer ==
  ASSUME NEW list
  PROVE  IsInjective(Names(list)) <=>
           \A i, j \in DOMAIN list : list[i].name = list[j].name => i = j
  BY DEF IsInjective, Names

LEMMA IndexOfName ==
  ASSUME NEW list, list \in Seq(Range(list)), IsInjective(Names(list)), NEW n, Has(list, n)
  PROVE  /\ StepIndex(list, n) \in DOMAIN list
         /\ list[StepIndex(list, n)].name = n
         /\ \A i \in DOMAIN list : list[i].name = n => i = StepIndex(list, n)
<1>1. PICK i \in DOMAIN list : list[i].name = n
  BY DEF Has
<1>2. \A j \in DOMAIN list : list[j].name = n => j = i
  BY <1>1, NamesDiffer
<1>3. i <= i
  BY ListParts
<1>4. \E k \in DOMAIN list : list[k].name = n /\ \A j \in DOMAIN list : list[j].name = n => j <= k
  BY <1>1, <1>2, <1>3
<1>5. StepIndex(list, n) \in DOMAIN list /\ list[StepIndex(list, n)].name = n
  BY <1>4 DEF StepIndex
<1> QED
  BY <1>2, <1>5

LEMMA InsertParts ==
  ASSUME NEW list, list \in Seq(Range(list)), NEW k \in 1 .. (Len(list) + 1), NEW s,
         NEW new, new = InsertAt(list, k, s)
  PROVE  /\ new \in Seq(Range(new)) /\ Len(new) = Len(list) + 1 /\ DOMAIN new = 1 .. (Len(list) + 1)
         /\ \A i \in 1 .. (k - 1) : new[i] = list[i]
         /\ new[k] = s
         /\ \A i \in (k + 1) .. (Len(list) + 1) : new[i] = list[i - 1]
<1> DEFINE S == Range(list) \cup {s}
           head == SubSeq(list, 1, k - 1)
           tail == SubSeq(list, k, Len(list))
<1>1. Len(list) \in Nat /\ k \in Nat /\ \A i \in 1 .. Len(list) : list[i] \in S
  BY ListParts
<1>2. head \in Seq(S) /\ Len(head) = k - 1 /\ \A i \in 1 .. (k - 1) : head[i] = list[i]
  <2>1. \A i \in 1 .. (k - 1) : list[i] \in S
    BY <1>1
  <2> HIDE DEF S
  <2> QED
    BY <1>1, <2>1, SubSeqProperties
<1>3. tail \in Seq(S) /\ Len(tail) = Len(list) - k + 1
      /\ \A i \in 1 .. (Len(list) - k + 1) : tail[i] = list[k + i - 1]
  <2>1. \A i \in k .. Len(list) : list[i] \in S
    BY <1>1
  <2> HIDE DEF S
  <2> QED
    BY <1>1, <2>1, SubSeqProperties
<1>4. <<s>> \in Seq(S) /\ Len(<<s>>) = 1 /\ <<s>>[1] = s
  OBVIOUS
<1> HIDE DEF S, head, tail
<1>5. /\ head \o <<s>> \in Seq(S) /\ Len(head \o <<s>>) = k
      /\ \A i \in 1 .. k : (head \o <<s>>)[i] = IF i <= k - 1 THEN head[i] ELSE <<s>>[i - (k - 1)]
  BY <1>1, <1>2, <1>4, ConcatProperties
<1>6. new = (head \o <<s>>) \o tail
  BY DEF InsertAt, head, tail
<1>7. /\ new \in Seq(S) /\ Len(new) = Len(list) + 1
      /\ \A i \in 1 .. (Len(list) + 1) :
           new[i] = IF i <= k THEN (head \o <<s>>)[i] ELSE tail[i - k]
  <2>1. k + Len(tail) = Len(list) + 1
    BY <1>1, <1>3
  <2>2. PICK front : front = head \o <<s>>
    OBVIOUS
  <2>3. front \in Seq(S) /\ Len(front) = k
    BY <1>5, <2>2
  <2>4. /\ front \o tail \in Seq(S) /\ Len(front \o tail) = k + Len(tail)
        /\ \A i \in 1 .. (k + Len(tail)) :
             (front \o tail)[i] = IF i <= k THEN front[i] ELSE tail[i - k]
    BY <1>3, <2>3, ConcatProperties
  <2> QED
    BY <1>6, <2>1, <2>2, <2>4
<1>8. new \in Seq(Range(new)) /\ DOMAIN new = 1 .. (Len(list) + 1)
  BY <1>7, SeqOfItsRange, LenProperties
<1>9. ASSUME NEW i \in 1 .. (k - 1)
      PROVE  new[i] = list[i]
  <2>1. i \in 1 .. (Len(list) + 1) /\ i \in 1 .. k /\ i <= k /\ i <= k - 1
    BY <1>1
  <2>2. new[i] = (head \o <<s>>)[i]
    BY <1>7, <2>1
  <2>3. (head \o <<s>>)[i] = head[i]
    BY <1>5, <2>1
  <2>4. head[i] = list[i]
    BY <1>2
  <2> QED
    BY <2>2, <2>3, <2>4
<1>10. new[k] = s
  <2>1. k \in 1 .. (Len(list) + 1) /\ k \in 1 .. k /\ k <= k /\ ~(k <= k - 1) /\ k - (k - 1) = 1
    BY <1>1
  <2>2. new[k] = (head \o <<s>>)[k]
    BY <1>7, <2>1
  <2>3. (head \o <<s>>)[k] = <<s>>[k - (k - 1)]
    BY <1>5, <2>1
  <2> QED
    BY <1>4, <2>1, <2>2, <2>3
<1>11. ASSUME NEW i \in (k + 1) .. (Len(list) + 1)
       PROVE  new[i] = list[i - 1]
  <2>1. i \in 1 .. (Len(list) + 1) /\ ~(i <= k) /\ i - k \in 1 .. (Len(list) - k + 1)
        /\ k + (i - k) - 1 = i - 1
    BY <1>1
  <2>2. new[i] = tail[i - k]
    BY <1>7, <2>1
  <2>3. tail[i - k] = list[k + (i - k) - 1]
    BY <1>3, <2>1
  <2> QED
    BY <2>1, <2>2, <2>3
<1> QED
  BY <1>7, <1>8, <1>9, <1>10, <1>11

LEMMA RemoveParts ==
  ASSUME NEW list, list \in Seq(Range(list)), NEW k \in 1 .. Len(list),
         NEW new, new = RemoveAt(list, k)
  PROVE  /\ new \in Seq(Range(new)) /\ Len(new) = Len(list) - 1 /\ DOMAIN new = 1 .. (Len(list) - 1)
         /\ \A i \in 1 .. (k - 1) : new[i] = list[i]
         /\ \A i \in k .. (Len(list) - 1) : new[i] = list[i + 1]
<1> DEFINE S == Range(list)
           head == SubSeq(list, 1, k - 1)
           tail == SubSeq(list, k + 1, Len(list))
<1>1. Len(list) \in Nat /\ k \in Nat /\ \A i \in 1 .. Len(list) : list[i] \in S
  BY ListParts
<1>2. head \in Seq(S) /\ Len(head) = k - 1 /\ \A i \in 1 .. (k - 1) : head[i] = list[i]
  <2>1. \A i \in 1 .. (k - 1) : list[i] \in S
    BY <1>1
  <2> HIDE DEF S
  <2> QED
    BY <1>1, <2>1, SubSeqProperties
<1>3. tail \in Seq(S) /\ Len(tail) = Len(list) - k
      /\ \A i \in 1 .. (Len(list) - k) : tail[i] = list[k + i]
  <2>1. \A i \in (k + 1) .. Len(list) : list[i] \in S
    BY <1>1
  <2> HIDE DEF S
  <2> QED
    BY <1>1, <2>1, SubSeqProperties
<1> HIDE DEF S, head, tail
<1>4. new = head \o tail
  BY DEF RemoveAt, head, tail
<1>5. /\ new \in Seq(S) /\ Len(new) = Len(list) - 1
      /\ \A i \in 1 .. (Len(list) - 1) :
           new[i] = IF i <= k - 1 THEN head[i] ELSE tail[i - (k - 1)]
  <2>1. Len(head) + Len(tail) = Len(list) - 1
    BY <1>1, <1>2, <1>3
  <2>2. /\ head \o tail \in Seq(S) /\ Len(head \o tail) = Len(head) + Len(tail)
        /\ \A i \in 1 .. (Len(head) + Len(tail)) :
             (head \o tail)[i] = IF i <= Len(head) THEN head[i] ELSE tail[i - Len(head)]
    BY <1>2, <1>3, ConcatProperties
  <2> QED
    BY <1>2, <1>4, <2>1, <2>2
<1>6. new \in Seq(Range(new)) /\ DOMAIN new = 1 .. (Len(list) - 1)
  BY <1>1, <1>5, SeqOfItsRange, LenProperties
<1>7. ASSUME NEW i \in 1 .. (k - 1)
      PROVE  new[i] = list[i]
  <2>1. i \in 1 .. (Len(list) - 1) /\ i <= k - 1
    BY <1>1
  <2>2. new[i] = head[i]
    BY <1>5, <2>1
  <2>3. head[i] = list[i]
    BY <1>2
  <2> QED
    BY <2>2, <2>3
<1>8. ASSUME NEW i \in k .. (Len(list) - 1)
      PROVE  new[i] = list[i + 1]
  <2>1. i - (k - 1) \in 1 .. (Len(list) - k) /\ ~(i <= k - 1) /\ k + (i - (k - 1)) = i + 1
        /\ i \in 1 .. (Len(list) - 1)
    BY <1>1
  <2>2. tail[i - (k - 1)] = list[k + (i - (k - 1))]
    BY <1>3, <2>1
  <2> QED
    BY <1>5, <2>1, <2>2
<1> QED
  BY <1>5, <1>6, <1>7, <1>8

----------------------------------------------------------------------------
(* The operations of a strategy *)

\* Nobody in the list requires what a removable step of it provides.
Unneeded(list) ==
  \A i, j \in DOMAIN list : list[i].removable => list[i].provides \cap list[j].requires = {}

LEMMA SoundParts ==
  ASSUME NEW list, SoundList(list)
  PROVE  /\ Len(list) \in Nat /\ DOMAIN list = 1 .. Len(list)
         /\ \A i \in DOMAIN list : SoundStep(list[i])
         /\ \A i, j \in DOMAIN list : list[i].name = list[j].name => i = j
         /\ \A n : Has(list, n) => /\ StepIndex(list, n) \in DOMAIN list
                                   /\ list[StepIndex(list, n)].name = n
                                   /\ \A i \in DOMAIN list : list[i].name = n => i = StepIndex(list, n)
  BY ListParts, NamesDiffer, IndexOfName DEF SoundList

LEMMA RemoveSound ==
  ASSUME NEW list, SoundList(list), NEW k \in DOMAIN list, NEW new, new = RemoveAt(list, k)
  PROVE  /\ SoundList(new)
         /\ Unneeded(list) /\ list[k].removable => Unneeded(new) /\ (DependenciesMet(list) => DependenciesMet(new))
<1> DEFINE h(i) == IF i < k THEN i ELSE i + 1
<1>1. /\ Len(list) \in Nat /\ k \in 1 .. Len(list) /\ DOMAIN list = 1 .. Len(list)
  BY SoundParts
<1>2. /\ new \in Seq(Range(new)) /\ DOMAIN new = 1 .. (Len(list) - 1)
      /\ \A i \in 1 .. (k - 1) : new[i] = list[i]
      /\ \A i \in k .. (Len(list) - 1) : new[i] = list[i + 1]
  BY <1>1, RemoveParts DEF SoundList
<1>3. \A i \in DOMAIN new : h(i) \in DOMAIN list /\ new[i] = list[h(i)]
  BY <1>1, <1>2
<1>4. \A i, j \in DOMAIN new : (h(i) = h(j) => i = j) /\ (j < i <=> h(j) < h(i))
  BY <1>1, <1>2
<1>5. \A i \in DOMAIN list : i # k => \E j \in DOMAIN new : h(j) = i
  <2> TAKE i \in DOMAIN list
  <2> HAVE i # k
  <2>1. CASE i < k
    BY <1>1, <1>2, <2>1
  <2>2. CASE ~(i < k)
    <3>1. i - 1 \in DOMAIN new /\ h(i - 1) = i
      BY <1>1, <1>2, <2>2
    <3> QED
      BY <3>1
  <2> QED
    BY <2>1, <2>2
<1>6. DOMAIN new \subseteq Int /\ DOMAIN list \subseteq Int
  BY <1>1, <1>2
<1> HIDE DEF h
<1>7. SoundList(new)
  <2>1. \A i \in DOMAIN new : SoundStep(new[i])
    BY <1>3, SoundParts
  <2>2. \A i, j \in DOMAIN new : new[i].name = new[j].name => i = j
    BY <1>3, <1>4, SoundParts
  <2> QED
    BY <1>2, <2>1, <2>2, NamesDiffer DEF SoundList
<1>8. ASSUME Unneeded(list), list[k].removable
      PROVE  Unneeded(new) /\ (DependenciesMet(list) => DependenciesMet(new))
  <2>1. Unneeded(new)
    BY <1>3, <1>8 DEF Unneeded
  <2>2. ASSUME DependenciesMet(list), NEW i \in DOMAIN new
        PROVE  new[i].requires \subseteq SeedProvides \cup UNION {new[j].provides : j \in 1 .. (i - 1)}
    <3> SUFFICES ASSUME NEW what \in new[i].requires, what \notin SeedProvides
                 PROVE  \E j \in 1 .. (i - 1) : what \in new[j].provides
      OBVIOUS
    <3>1. what \in list[h(i)].requires /\ h(i) \in DOMAIN list
      BY <1>3
    <3>2. PICK m \in 1 .. (h(i) - 1) : what \in list[m].provides
      BY <2>2, <3>1 DEF DependenciesMet
    <3>3. m \in DOMAIN list /\ m < h(i)
      BY <1>1, <3>1, <3>2
    <3>4. m # k
      BY <1>8, <3>1, <3>2, <3>3 DEF Unneeded
    <3>5. PICK j \in DOMAIN new : h(j) = m
      BY <1>5, <3>3, <3>4
    <3>6. what \in new[j].provides /\ j < i
      BY <1>3, <1>4, <3>2, <3>3, <3>5
    <3>7. j \in 1 .. (i - 1)
      BY <1>1, <1>2, <3>6
    <3> QED
      BY <3>6, <3>7
  <2> QED
    BY <2>1, <2>2 DEF DependenciesMet
<1> QED
  BY <1>7, <1>8

LEMMA InsertSound ==
  ASSUME NEW list, SoundList(list), NEW k \in 1 .. (Len(list) + 1), NEW s, SoundStep(s), ~Has(list, s.name),
         NEW new, new = InsertAt(list, k, s)
  PROVE  SoundList(new) /\ Len(new) = Len(list) + 1
<1>1. Len(list) \in Nat /\ DOMAIN list = 1 .. Len(list)
  BY SoundParts
<1>2. /\ new \in Seq(Range(new)) /\ DOMAIN new = 1 .. (Len(list) + 1) /\ Len(new) = Len(list) + 1
      /\ \A i \in 1 .. (k - 1) : new[i] = list[i]
      /\ new[k] = s
      /\ \A i \in (k + 1) .. (Len(list) + 1) : new[i] = list[i - 1]
  <2>1. list \in Seq(Range(list))
    BY DEF SoundList
  <2>2. PICK w : w = InsertAt(list, k, s)
    OBVIOUS
  <2>3. /\ w \in Seq(Range(w)) /\ Len(w) = Len(list) + 1 /\ DOMAIN w = 1 .. (Len(list) + 1)
        /\ \A i \in 1 .. (k - 1) : w[i] = list[i]
        /\ w[k] = s
        /\ \A i \in (k + 1) .. (Len(list) + 1) : w[i] = list[i - 1]
    BY <2>1, <2>2, InsertParts
  <2>4. w = new
    BY <2>2
  <2> QED
    BY <2>3, <2>4, Zenon
<1> DEFINE h(i) == IF i < k THEN i ELSE i - 1
<1>3. \A i \in DOMAIN new : i # k => h(i) \in DOMAIN list /\ new[i] = list[h(i)]
  BY <1>1, <1>2
<1>4. \A i, j \in DOMAIN new : i # k /\ j # k /\ h(i) = h(j) => i = j
  BY <1>1, <1>2
<1> HIDE DEF h
<1>5. \A i \in DOMAIN new : SoundStep(new[i])
  BY <1>2, <1>3, SoundParts
<1>6. \A i, j \in DOMAIN new : new[i].name = new[j].name => i = j
  <2>1. \A i \in DOMAIN list : list[i].name # s.name
    BY DEF Has
  <2> QED
    BY <1>2, <1>3, <1>4, <2>1, SoundParts
<1> QED
  BY <1>2, <1>5, <1>6, NamesDiffer DEF SoundList

LEMMA WriteSound ==
  ASSUME NEW list, SoundList(list), NEW k \in DOMAIN list, NEW s, SoundStep(s),
         \A i \in DOMAIN list : list[i].name = s.name => i = k,
         NEW new, new = [list EXCEPT ![k] = s]
  PROVE  /\ SoundList(new) /\ Len(new) = Len(list)
         /\ s.requires = list[k].requires /\ s.provides = list[k].provides /\ DependenciesMet(list) =>
              DependenciesMet(new)
<1>1. Len(list) \in Nat /\ DOMAIN list = 1 .. Len(list) /\ list \in Seq(Range(list) \cup {s})
  BY SoundParts, SeqMonotonic DEF SoundList
<1>2. new \in Seq(Range(list) \cup {s}) /\ Len(new) = Len(list)
      /\ \A j \in 1 .. Len(list) : new[j] = IF j = k THEN s ELSE list[j]
  BY <1>1, ExceptSeq
<1>3. new \in Seq(Range(new)) /\ DOMAIN new = DOMAIN list
  BY <1>1, <1>2, SeqOfItsRange
<1>4. \A i \in DOMAIN new : SoundStep(new[i])
  BY <1>1, <1>2, <1>3, SoundParts
<1>5. \A i, j \in DOMAIN new : new[i].name = new[j].name => i = j
  BY <1>1, <1>2, <1>3, SoundParts
<1>6. ASSUME s.requires = list[k].requires, s.provides = list[k].provides, DependenciesMet(list)
      PROVE  DependenciesMet(new)
  <2>1. \A i \in DOMAIN list : new[i].requires = list[i].requires /\ new[i].provides = list[i].provides
    BY <1>1, <1>2, <1>6
  <2>2. ASSUME NEW i \in DOMAIN new
        PROVE  UNION {list[j].provides : j \in 1 .. (i - 1)} \subseteq UNION {new[j].provides : j \in 1 .. (i - 1)}
    <3>1. \A j \in 1 .. (i - 1) : j \in DOMAIN list
      BY <1>1, <1>3
    <3> QED
      BY <2>1, <3>1
  <2> QED
    BY <1>3, <1>6, <2>1, <2>2 DEF DependenciesMet
<1> QED
  BY <1>2, <1>3, <1>4, <1>5, <1>6, NamesDiffer DEF SoundList

\* What the three operations leave when they do not throw.
LEMMA RemovedSound ==
  ASSUME NEW list, SoundList(list), NEW n
  PROVE  /\ SoundList(Removed(list, n).list)
         /\ Removed(list, n).error = "none" /\ Unneeded(list) =>
              /\ Unneeded(Removed(list, n).list)
              /\ DependenciesMet(list) => DependenciesMet(Removed(list, n).list)
         /\ Len(Removed(list, n).list) <= Len(list)
<1> DEFINE k == StepIndex(list, n)
<1>0. Len(list) \in Nat
  BY SoundParts
<1>1. CASE ~Has(list, n)
  BY <1>0, <1>1 DEF Removed, Thrown
<1>2. CASE Has(list, n) /\ ~list[k].removable
  BY <1>0, <1>2 DEF Removed, Thrown
<1>3. CASE Has(list, n) /\ list[k].removable
  <2>1. k \in DOMAIN list
    BY <1>3, SoundParts
  <2>2. Removed(list, n).list = RemoveAt(list, k)
    BY <1>3 DEF Removed, ListNow
  <2>3. Len(RemoveAt(list, k)) <= Len(list)
    BY <1>0, <2>1, SoundParts, RemoveParts DEF SoundList
  <2> HIDE DEF k
  <2> QED
    BY <1>3, <2>1, <2>2, <2>3, RemoveSound DEF k
<1> QED
  BY <1>1, <1>2, <1>3

LEMMA ReplacedSound ==
  ASSUME NEW list, SoundList(list), NEW n, NEW s, IsAStep(s)
  PROVE  SoundList(Replaced(list, n, s).list) /\ Len(Replaced(list, n, s).list) = Len(list)
<1> DEFINE k == StepIndex(list, n)
<1>1. CASE Replaced(list, n, s).list = list
  BY <1>1
<1>2. CASE ~(Replaced(list, n, s).list = list)
  <2>1. /\ ~GateWeakened(s) /\ Has(list, n) /\ ~(s.name # n /\ Has(list, s.name))
        /\ Replaced(list, n, s).list = [list EXCEPT ![k] = s]
    BY <1>2 DEF Replaced, Thrown, ListNow
  <2>2. k \in DOMAIN list /\ \A i \in DOMAIN list : list[i].name = n => i = k
    BY <2>1, SoundParts
  <2>3. \A i \in DOMAIN list : list[i].name = s.name => i = k
    BY <2>1, <2>2 DEF Has
  <2> HIDE DEF k
  <2> QED
    BY <2>1, <2>2, <2>3, WriteSound DEF SoundStep
<1> QED
  BY <1>1, <1>2

LEMMA InsertedSound ==
  ASSUME NEW list, SoundList(list), NEW anchor, NEW s, IsAStep(s), NEW o \in {0, 1}
  PROVE  /\ SoundList(Inserted(list, anchor, s, o).list)
         /\ \/ /\ Len(Inserted(list, anchor, s, o).list) = Len(list) + 1
               /\ Inserted(list, anchor, s, o).error = "none" =>
                    DependenciesMet(Inserted(list, anchor, s, o).list)
            \/ Inserted(list, anchor, s, o).error # "none" /\ Inserted(list, anchor, s, o).list = list
<1> DEFINE k == StepIndex(list, anchor)
           new == InsertAt(list, k + o, s)
<1>1. CASE GateWeakened(s) \/ Has(list, s.name) \/ ~Has(list, anchor)
  <2>1. Inserted(list, anchor, s, o).list = list /\ Inserted(list, anchor, s, o).error # "none"
    BY <1>1 DEF Inserted, Thrown
  <2> QED
    BY <2>1
<1>2. CASE ~(GateWeakened(s) \/ Has(list, s.name) \/ ~Has(list, anchor))
  <2>1. Inserted(list, anchor, s, o) =
          IF DependenciesMet(new) THEN ListNow(new) ELSE Thrown("dependency", new)
    BY <1>2 DEF Inserted
  <2>2. /\ Inserted(list, anchor, s, o).list = new
        /\ Inserted(list, anchor, s, o).error = "none" => DependenciesMet(new)
    <3> HIDE DEF new
    <3> QED
      BY <2>1 DEF ListNow, Thrown
  <2>3. k + o \in 1 .. (Len(list) + 1)
    BY <1>2, SoundParts
  <2> HIDE DEF k
  <2>4. SoundList(new) /\ Len(new) = Len(list) + 1
    BY <1>2, <2>3, InsertSound DEF SoundStep
  <2> HIDE DEF new
  <2> QED
    BY <2>2, <2>4
<1> QED
  BY <1>1, <1>2

----------------------------------------------------------------------------
(* What the sections of a file write *)

FileFields == {"matchModules", "ignoreErrors", "pure", "timeoutMs"}

LEMMA NormalizedFields ==
  ASSUME NEW fields, Unknown(fields) = {}
  PROVE  DOMAIN Normalized(fields) \subseteq FileFields
<1>1. \A k \in DOMAIN ConfigurableFields : ConfigurableFields[k] \in FileFields
  BY DEF ConfigurableFields, FileFields
<1>2. DOMAIN fields \subseteq DOMAIN ConfigurableFields
  BY DEF Unknown
<1> QED
  BY <1>1, <1>2 DEF Normalized

\* The value of this field would switch a gate of this kind off.
Weakens(k, value, gate) ==
  \/ k = "matchModules" /\ value # "all"
  \/ k = "ignoreErrors" /\ value
  \/ k = "pure" /\ value /\ gate # "pure"

LEMMA WrittenStep ==
  ASSUME NEW fields, DOMAIN fields \subseteq FileFields, NEW step, IsAStep(step),
         NEW new, new = Written(fields, step)
  PROVE  /\ IsAStep(new)
         /\ new.name = step.name /\ new.requires = step.requires /\ new.provides = step.provides
         /\ new.gate = step.gate /\ new.removable = step.removable
         /\ ~GateWeakened(step) /\ (step.gate = "no" \/ Weakening(fields, step.gate) = {}) => SoundStep(new)
<1>1. DOMAIN step = StepFields
  BY DEF IsAStep
<1>2. FileFields \subseteq StepFields
        /\ \A k \in {"name", "requires", "provides", "gate", "removable"} : k \in StepFields /\ k \notin FileFields
  BY DEF FileFields, StepFields
<1>3. /\ DOMAIN new = StepFields
      /\ \A k \in StepFields : new[k] = IF k \in DOMAIN fields THEN fields[k] ELSE step[k]
      /\ new = [k \in StepFields |-> new[k]]
  <2>1. new = [k \in DOMAIN fields \cup DOMAIN step |-> IF k \in DOMAIN fields THEN fields[k] ELSE step[k]]
    BY DEF Written
  <2>2. DOMAIN fields \cup DOMAIN step = StepFields
    BY <1>1, <1>2
  <2> QED
    BY <2>1, <2>2
<1>4. /\ new.name = step.name /\ new.requires = step.requires /\ new.provides = step.provides
      /\ new.gate = step.gate /\ new.removable = step.removable
  BY <1>2, <1>3
<1>5. ASSUME ~GateWeakened(step), step.gate # "no" => Weakening(fields, step.gate) = {}
      PROVE  ~GateWeakened(new)
  <2> SUFFICES ASSUME GateWeakened(new) PROVE FALSE
    OBVIOUS
  <2>1. new.gate # "no" /\ Weakening(new, new.gate) # {}
    BY DEF GateWeakened
  <2>2. Weakening(step, new.gate) = {} /\ Weakening(fields, new.gate) = {}
    BY <1>4, <1>5, <2>1 DEF GateWeakened
  <2>0. PICK k : k \in Weakening(new, new.gate)
    BY <2>1
  <2>3. k \in DOMAIN new /\ Weakens(k, new[k], new.gate)
    BY <2>0 DEF Weakening, Weakens
  <2>4. CASE k \in DOMAIN fields
    <3>1. new[k] = fields[k]
      BY <1>3, <2>3, <2>4
    <3>2. k \in Weakening(fields, new.gate)
      BY <2>3, <2>4, <3>1 DEF Weakening, Weakens
    <3> QED
      BY <2>2, <3>2
  <2>5. CASE k \notin DOMAIN fields
    <3>1. new[k] = step[k] /\ k \in DOMAIN step
      BY <1>1, <1>3, <2>3, <2>5
    <3>2. k \in Weakening(step, new.gate)
      BY <2>3, <3>1 DEF Weakening, Weakens
    <3> QED
      BY <2>2, <3>2
  <2> QED
    BY <2>4, <2>5
<1> QED
  BY <1>3, <1>4, <1>5 DEF IsAStep, SoundStep

LEMMA ConfiguredStepSound ==
  ASSUME NEW inner, IsAStep(inner), NEW entry, Unknown(entry.fields) = {}
  PROVE  SoundStep(ConfiguredStep(inner, entry))
<1> DEFINE own == [name |-> IF entry.name = "" THEN inner.name ELSE entry.name,
                   requires |-> {}, provides |-> {}, gate |-> "no"]
           bare == Written(own, inner)
<1>1. DOMAIN inner = StepFields /\ DOMAIN own \subseteq StepFields /\ "gate" \in StepFields
  BY DEF IsAStep, StepFields
<1>2. "gate" \in DOMAIN own /\ own["gate"] = "no"
  OBVIOUS
<1> HIDE DEF own
<1>3. DOMAIN own \cup DOMAIN inner = StepFields
  BY <1>1
<1>4. bare = [k \in StepFields |-> bare[k]] /\ bare.gate = "no"
  BY <1>1, <1>2, <1>3 DEF Written
<1> HIDE DEF bare
<1>5. IsAStep(bare) /\ ~GateWeakened(bare)
  BY <1>4 DEF IsAStep, GateWeakened
<1> QED
  BY <1>4, <1>5, NormalizedFields, WrittenStep DEF ConfiguredStep, bare, own

LEMMA ResolvedSound ==
  ASSUME NEW entry, PipelineConfigAssumption
  PROVE  /\ Resolved(entry).error = "none" => SoundStep(Resolved(entry).step)
         /\ ResolvedSync(entry).error = "none" => SoundStep(ResolvedSync(entry).step)
<1>1. ASSUME NEW e, Resolved(e).error = "none"
      PROVE  SoundStep(Resolved(e).step)
  <2>1. Unknown(e.fields) = {}
    BY <1>1 DEF Resolved, NotMade
  <2>2. CASE TypeRegistered(e.type)
    <3>1. IsAStep(StepTypes[e.type])
      BY <2>2 DEF PipelineConfigAssumption, TypeRegistered
    <3>2. Resolved(e).step = ConfiguredStep(StepTypes[e.type], e)
      BY <2>1, <2>2 DEF Resolved, Made
    <3> QED
      BY <2>1, <3>1, <3>2, ConfiguredStepSound
  <2>3. CASE ~TypeRegistered(e.type)
    <3>1. Importable(e.handler)
      BY <1>1, <2>1, <2>3 DEF Resolved, NotMade
    <3>2. IsAStep(Handlers[e.handler])
      BY <3>1 DEF PipelineConfigAssumption, Importable
    <3>3. Resolved(e).step = ConfiguredStep(Handlers[e.handler], e)
      BY <2>1, <2>3, <3>1 DEF Resolved, Made
    <3> QED
      BY <2>1, <3>2, <3>3, ConfiguredStepSound
  <2> QED
    BY <2>2, <2>3
<1>2. ResolvedSync(entry).error = "none" => ResolvedSync(entry) = Resolved([entry EXCEPT !.handler = ""])
  BY DEF ResolvedSync, NotMade
<1> QED
  BY <1>1, <1>2

----------------------------------------------------------------------------
(* One edit of a file after the other *)

Met(st) == st.error = "none" => SoundList(st.list) /\ DependenciesMet(st.list)
Spare(st) == st.error = "none" => Unneeded(st.list)

LEMMA StandardMet ==
  ASSUME PipelineConfigAssumption
  PROVE  Met(StandardStrategy) /\ Spare(StandardStrategy)
<1>1. IsAList(Standard) /\ Constructed(Standard).error = "none"
  BY DEF PipelineConfigAssumption
<1>2. /\ \A i \in DOMAIN Standard : ~GateWeakened(Standard[i])
      /\ IsInjective(Names(Standard)) /\ DependenciesMet(Standard)
  BY <1>1 DEF Constructed, Thrown
<1>3. SoundList(Standard)
  BY <1>1, <1>2 DEF SoundList, SoundStep, IsAList
<1>4. Unneeded(Standard)
  BY DEF PipelineConfigAssumption, Unneeded
<1> QED
  BY <1>2, <1>3, <1>4 DEF Met, Spare, StandardStrategy, ListNow

LEMMA RemoveStepMet ==
  ASSUME NEW st, Met(st), Spare(st), NEW n
  PROVE  Met(RemoveStep(st, n)) /\ Spare(RemoveStep(st, n))
<1>1. CASE st.error = "none"
  BY <1>1, RemovedSound DEF Met, Spare, RemoveStep
<1>2. CASE st.error # "none"
  BY <1>2 DEF Met, Spare, RemoveStep
<1> QED
  BY <1>1, <1>2

LEMMA ConfigureStepMet ==
  ASSUME NEW st, Met(st), NEW c
  PROVE  Met(ConfigureStep(st, c))
<1> DEFINE k == StepIndex(st.list, c.step)
           step == st.list[k]
           fields == Normalized(c.fields)
           new == Written(fields, step)
<1>1. CASE ConfigureStep(st, c).error # "none"
  BY <1>1 DEF Met
<1>2. CASE ConfigureStep(st, c).error = "none"
  <2>1. CASE st.error # "none"
    BY <1>2, <2>1 DEF ConfigureStep
  <2>2. CASE st.error = "none"
    <3>1. /\ Has(st.list, c.step) /\ Unknown(c.fields) = {}
          /\ ~(step.gate # "no" /\ Weakening(fields, step.gate) # {})
          /\ ConfigureStep(st, c) = ListNow([st.list EXCEPT ![k] = Written(fields, @)])
      BY <1>2, <2>2 DEF ConfigureStep, Thrown
    <3>2. SoundList(st.list) /\ DependenciesMet(st.list)
      BY <2>2 DEF Met
    <3>3. /\ k \in DOMAIN st.list /\ step.name = c.step
          /\ \A i \in DOMAIN st.list : st.list[i].name = c.step => i = k
          /\ SoundStep(step)
      BY <3>1, <3>2, SoundParts
    <3>4. [st.list EXCEPT ![k] = Written(fields, @)] = [st.list EXCEPT ![k] = new]
      OBVIOUS
    <3>5. DOMAIN fields \subseteq FileFields
      BY <3>1, NormalizedFields
    <3> HIDE DEF k, fields
    <3>6. /\ SoundStep(new) /\ new.name = step.name
          /\ new.requires = step.requires /\ new.provides = step.provides
      <4> HIDE DEF step
      <4>1. IsAStep(step) /\ ~GateWeakened(step)
        BY <3>3 DEF SoundStep
      <4>2. PICK w : w = Written(fields, step)
        OBVIOUS
      <4>3. /\ SoundStep(w) /\ w.name = step.name
            /\ w.requires = step.requires /\ w.provides = step.provides
        BY <3>1, <3>5, <4>1, <4>2, WrittenStep
      <4> QED
        BY <4>2, <4>3
    <3>7. \A i \in DOMAIN st.list : st.list[i].name = new.name => i = k
      BY <3>3, <3>6
    <3> HIDE DEF new
    <3>8. SoundList([st.list EXCEPT ![k] = new]) /\ DependenciesMet([st.list EXCEPT ![k] = new])
      BY <3>2, <3>3, <3>6, <3>7, WriteSound
    <3> QED
      BY <3>1, <3>4, <3>8 DEF Met, ListNow
  <2> QED
    BY <2>1, <2>2
<1> QED
  BY <1>1, <1>2

LEMMA InsertStepMet ==
  ASSUME NEW st, Met(st), NEW e, e.made.error = "none" => SoundStep(e.made.step)
  PROVE  Met(InsertStep(st, e))
<1>1. CASE InsertStep(st, e).error # "none"
  BY <1>1 DEF Met
<1>2. CASE InsertStep(st, e).error = "none" /\ e.made.error = "deferred"
  BY <1>2 DEF InsertStep, Met
<1>3. CASE InsertStep(st, e).error = "none" /\ e.made.error # "deferred"
  <2>1. st.error = "none" /\ e.made.error = "none"
    BY <1>3 DEF InsertStep, Thrown
  <2>2. PICK anchor : \E o \in {0, 1} : InsertStep(st, e) = Inserted(st.list, anchor, e.made.step, o)
    <3>1. CASE e.entry.after # ""
      <4>1. InsertStep(st, e) = Inserted(st.list, e.entry.after, e.made.step, 1)
        BY <1>3, <2>1, <3>1 DEF InsertStep
      <4> QED
        BY <4>1
    <3>2. CASE e.entry.after = ""
      <4>1. CASE e.entry.before # ""
        <5>1. InsertStep(st, e) = Inserted(st.list, e.entry.before, e.made.step, 0)
          BY <1>3, <2>1, <3>2, <4>1 DEF InsertStep
        <5> QED
          BY <5>1
      <4>2. CASE e.entry.before = ""
        <5>1. InsertStep(st, e) = Thrown("unanchored", st.list)
          BY <1>3, <2>1, <3>2, <4>2 DEF InsertStep
        <5> QED
          BY <1>3, <5>1 DEF Thrown
      <4> QED
        BY <4>1, <4>2
    <3> QED
      BY <3>1, <3>2
  <2>6. PICK o \in {0, 1} : InsertStep(st, e) = Inserted(st.list, anchor, e.made.step, o)
    BY <2>2
  <2>3. IsAStep(e.made.step) /\ SoundList(st.list)
    BY <2>1 DEF SoundStep, Met
  <2>4. SoundList(Inserted(st.list, anchor, e.made.step, o).list)
    BY <2>3, InsertedSound
  <2>5. DependenciesMet(Inserted(st.list, anchor, e.made.step, o).list)
    BY <1>3, <2>3, <2>6, InsertedSound
  <2> QED
    BY <2>4, <2>5, <2>6 DEF Met
<1> QED
  BY <1>1, <1>2, <1>3

\* What the resolvers hand over: a step, or why there is none.
Resolvable(entries) == \A i \in DOMAIN entries : entries[i].made.error = "none" => SoundStep(entries[i].made.step)

LEMMA EditedMet ==
  ASSUME NEW section, IsASection(section), NEW entries, Resolvable(entries),
         Len(entries) \in Nat, DOMAIN entries = 1 .. Len(entries),
         NEW n \in 1 .. EditsOf(section, entries), NEW st, Met(st),
         n <= Len(section.remove) => Spare(st)
  PROVE  /\ Met(Edited(st, section, entries, n))
         /\ n <= Len(section.remove) => Spare(Edited(st, section, entries, n))
<1> DEFINE removals == Len(section.remove)
           settled == removals + Len(section.configure)
<1>1. /\ removals \in Nat /\ Len(section.configure) \in Nat /\ settled \in Nat /\ removals <= settled
      /\ n \in Nat /\ n <= settled + Len(entries)
  <2>1. removals \in Nat /\ Len(section.configure) \in Nat
    BY ListParts DEF IsASection
  <2>2. EditsOf(section, entries) = settled + Len(entries)
    BY DEF EditsOf
  <2> HIDE DEF removals
  <2>3. settled \in Nat /\ removals <= settled
    BY <2>1
  <2> HIDE DEF settled
  <2>4. n \in Nat /\ n <= settled + Len(entries)
    BY <2>2, <2>3
  <2> QED
    BY <2>1, <2>3, <2>4
<1> HIDE DEF removals, settled
<1>2. CASE n <= removals
  <2>1. Edited(st, section, entries, n) = RemoveStep(st, section.remove[n])
    BY <1>1, <1>2 DEF Edited, removals, settled
  <2> QED
    BY <1>2, <2>1, RemoveStepMet DEF removals
<1>3. CASE removals < n /\ n <= settled
  <2>1. Edited(st, section, entries, n) = ConfigureStep(st, section.configure[n - removals])
    BY <1>1, <1>3 DEF Edited, removals, settled
  <2>2. ~(n <= removals)
    BY <1>1, <1>3
  <2> QED
    BY <2>1, <2>2, ConfigureStepMet DEF removals
<1>4. CASE settled < n
  <2>0. ~(n <= removals) /\ ~(n <= settled)
    BY <1>1, <1>4
  <2>1. Edited(st, section, entries, n) = InsertStep(st, entries[n - settled])
    BY <2>0 DEF Edited, removals, settled
  <2>2. ~(n <= removals) /\ n - settled \in DOMAIN entries
    BY <1>1, <1>4
  <2> QED
    BY <2>1, <2>2, InsertStepMet DEF Resolvable, removals
<1> QED
  BY <1>1, <1>2, <1>3, <1>4

\* Nothing is done once an edit has thrown.
LEMMA ErrorStays ==
  ASSUME NEW section, IsASection(section), NEW entries, NEW n \in Nat, NEW st, st.error # "none"
  PROVE  Edited(st, section, entries, n) = st
<1>1. Len(section.remove) \in Nat /\ Len(section.configure) \in Nat
  BY ListParts DEF IsASection
<1> QED
  BY <1>1 DEF Edited, RemoveStep, ConfigureStep, InsertStep

----------------------------------------------------------------------------
(* What the builders build *)

LEMMA LeastPlace ==
  ASSUME NEW T \in SUBSET Nat, T # {}
  PROVE  \E n \in T : \A k \in T : n <= k
<1>1. PICK n \in T : \A k \in T : ~(<<k, n>> \in OpToRel(<, Nat))
  BY NatLessThanWellFounded, WFMin, Zenon
<1>2. \A k \in T : ~(k < n)
  BY <1>1 DEF OpToRel
<1> QED
  BY <1>2

\* g holds what each of the first n edits leaves.
Applies(g, section, entries, n) ==
  g = [i \in 0..n |-> IF i = 0 THEN StandardStrategy ELSE Edited(g[i - 1], section, entries, i)]

LEMMA AppliesExist ==
  ASSUME NEW section, NEW entries, NEW n \in Nat
  PROVE  \E g : Applies(g, section, entries, n)
<1> DEFINE T == {k \in 0..n : ~\E g : Applies(g, section, entries, k)}
<1> SUFFICES ASSUME T # {} PROVE FALSE
  OBVIOUS
<1>1. T \in SUBSET Nat
  OBVIOUS
<1>2. PICK k \in T : \A j \in T : k <= j
  BY <1>1, LeastPlace
<1>3. k # 0
  <2>1. Applies([i \in 0..0 |-> StandardStrategy], section, entries, 0)
    BY DEF Applies
  <2> QED
    BY <1>2, <2>1
<1>4. k - 1 \in 0..n /\ k - 1 \notin T
  BY <1>2, <1>3
<1>5. PICK g : Applies(g, section, entries, k - 1)
  BY <1>4
<1>6. PICK last : last = Edited(g[k - 1], section, entries, k)
  OBVIOUS
<1> DEFINE h == [i \in 0..k |-> IF i = k THEN last ELSE g[i]]
<1>7. ASSUME NEW i \in 0..k
      PROVE  h[i] = IF i = 0 THEN StandardStrategy ELSE Edited(h[i - 1], section, entries, i)
  <2>1. CASE i = k
    <3>1. h[i] = last /\ h[i - 1] = g[k - 1]
      BY <1>2, <1>3, <2>1
    <3> QED
      BY <1>3, <1>6, <2>1, <3>1
  <2>2. CASE i # k
    <3>1. i \in 0..(k - 1) /\ h[i] = g[i] /\ (i # 0 => h[i - 1] = g[i - 1])
      BY <1>2, <2>2
    <3>2. g[i] = IF i = 0 THEN StandardStrategy ELSE Edited(g[i - 1], section, entries, i)
      BY <1>5, <3>1 DEF Applies
    <3> QED
      BY <3>1, <3>2
  <2> QED
    BY <2>1, <2>2
<1>8. h = [i \in 0..k |-> h[i]]
  OBVIOUS
<1> HIDE DEF h
<1>9. Applies(h, section, entries, k)
  BY <1>7, <1>8 DEF Applies
<1> QED
  BY <1>2, <1>9

LEMMA AppliedApplies ==
  ASSUME NEW section, NEW entries, EditsOf(section, entries) \in Nat
  PROVE  Applies(AppliedSoFar(section, entries), section, entries, EditsOf(section, entries))
<1> DEFINE F(f) == [i \in 0..EditsOf(section, entries) |->
                      IF i = 0 THEN StandardStrategy ELSE Edited(f[i - 1], section, entries, i)]
<1>1. PICK g : Applies(g, section, entries, EditsOf(section, entries))
  BY AppliesExist
<1>2. g = F(g)
  BY <1>1 DEF Applies
<1>3. AppliedSoFar(section, entries) = CHOOSE f : f = F(f)
  BY DEF AppliedSoFar
<1>4. AppliedSoFar(section, entries) = F(AppliedSoFar(section, entries))
  BY <1>2, <1>3
<1> QED
  BY <1>4 DEF Applies

\* What an entry of the file amounts to, in the order they are given.
Entries(section, entries) ==
  Len(entries) \in Nat /\ DOMAIN entries = 1 .. Len(entries) /\ DOMAIN entries = DOMAIN section.steps

LEMMA ApplyMet ==
  ASSUME PipelineConfigAssumption, NEW section, IsASection(section),
         NEW entries, Entries(section, entries), Resolvable(entries)
  PROVE  Met(ApplyConfig(section, entries))
<1> DEFINE N == EditsOf(section, entries)
           r == Len(section.remove)
           g == AppliedSoFar(section, entries)
           T == {k \in 0..N : ~(Met(g[k]) /\ (k <= r => Spare(g[k])))}
<1>1. N \in Nat /\ r \in Nat
  <2>1. r \in Nat /\ Len(section.configure) \in Nat /\ Len(entries) \in Nat
    BY ListParts DEF IsASection, Entries
  <2>2. PICK a \in Nat, b \in Nat, c \in Nat :
          a = Len(section.remove) /\ b = Len(section.configure) /\ c = Len(entries)
    BY <2>1
  <2>3. N = a + b + c
    BY <2>2 DEF EditsOf
  <2> QED
    BY <2>1, <2>3
<1>2. Applies(g, section, entries, N)
  BY <1>1, AppliedApplies
<1> HIDE DEF N, r, g
<1>3. \A k \in 0..N : g[k] = IF k = 0 THEN StandardStrategy ELSE Edited(g[k - 1], section, entries, k)
  BY <1>2 DEF Applies
<1>4. T = {}
  <2> SUFFICES ASSUME T # {} PROVE FALSE
    OBVIOUS
  <2>1. T \in SUBSET Nat
    BY <1>1
  <2>2. PICK k \in T : \A j \in T : k <= j
    BY <2>1, LeastPlace
  <2>3. k # 0
    BY <1>1, <1>3, <2>2, StandardMet
  <2>4. k \in 1..N /\ k - 1 \in 0..N /\ k - 1 \notin T
    BY <1>1, <2>2, <2>3
  <2>5. Met(g[k - 1]) /\ (k <= r => Spare(g[k - 1]))
    BY <1>1, <2>4
  <2>6. g[k] = Edited(g[k - 1], section, entries, k)
    BY <1>3, <2>2, <2>3
  <2>7. Met(g[k]) /\ (k <= r => Spare(g[k]))
    BY <2>4, <2>5, <2>6, EditedMet DEF Entries, N, r
  <2> QED
    BY <2>2, <2>7
<1>5. Met(g[N])
  BY <1>1, <1>4
<1> QED
  BY <1>5 DEF ApplyConfig, Met, Thrown, g, N

SyncEntries(section) ==
  [i \in DOMAIN section.steps |-> [entry |-> section.steps[i], made |-> ResolvedSync(section.steps[i])]]
AsyncEntries(section) ==
  [i \in DOMAIN section.steps |-> [entry |-> section.steps[i], made |-> Resolved(section.steps[i])]]

LEMMA SectionEntries ==
  ASSUME PipelineConfigAssumption, NEW section, IsASection(section)
  PROVE  /\ Entries(section, SyncEntries(section)) /\ Resolvable(SyncEntries(section))
         /\ Entries(section, AsyncEntries(section)) /\ Resolvable(AsyncEntries(section))
<1>1. /\ Len(section.steps) \in Nat /\ DOMAIN section.steps = 1 .. Len(section.steps)
  BY ListParts DEF IsASection
<1>2. ASSUME NEW made \in {SyncEntries(section), AsyncEntries(section)}
      PROVE  Entries(section, made)
  <2>1. DOMAIN made = 1 .. Len(section.steps) /\ made = [i \in 1 .. Len(section.steps) |-> made[i]]
    BY <1>1 DEF SyncEntries, AsyncEntries
  <2>2. made \in [1 .. Len(section.steps) -> Range(made)]
    BY <2>1 DEF Range
  <2>3. made \in Seq(Range(made))
    BY <1>1, <2>2, SeqDef
  <2> QED
    BY <1>1, <2>1, <2>3, LenProperties DEF Entries
<1>3. Resolvable(SyncEntries(section))
  BY ResolvedSound DEF Resolvable, SyncEntries
<1>4. Resolvable(AsyncEntries(section))
  BY ResolvedSound DEF Resolvable, AsyncEntries
<1> QED
  BY <1>2, <1>3, <1>4

LEMMA BuiltMet ==
  ASSUME PipelineConfigAssumption, NEW section, IsASection(section)
  PROVE  Met(BuildSync(section)) /\ Met(BuildAsync(section))
<1>1. Met(BuildSync(section))
  <2>1. BuildSync(section) = ApplyConfig(section, SyncEntries(section))
    BY DEF BuildSync, SyncEntries
  <2> QED
    BY <2>1, SectionEntries, ApplyMet
<1>2. Met(BuildAsync(section))
  <2> DEFINE failed == {i \in DOMAIN AsyncEntries(section) : AsyncEntries(section)[i].made.error # "none"}
  <2>1. BuildAsync(section) = IF failed # {} THEN Thrown(AsyncEntries(section)[Min(failed)].made.error, <<>>)
                                             ELSE ApplyConfig(section, AsyncEntries(section))
    BY DEF BuildAsync, AsyncEntries
  <2>2. Met(ApplyConfig(section, AsyncEntries(section)))
    BY SectionEntries, ApplyMet
  <2>3. Met(Thrown(AsyncEntries(section)[Min(failed)].made.error, <<>>))
    BY EmptyList DEF Met, Thrown
  <2> HIDE DEF failed
  <2> QED
    BY <2>1, <2>2, <2>3
<1> QED
  BY <1>1, <1>2

\* The first a edits are removals, the next b are of steps that are there.
Parted(section, entries, a, b) ==
  /\ EditsOf(section, entries) = a + b + Len(entries)
  /\ \A st, n : Edited(st, section, entries, n) =
       IF n <= a THEN RemoveStep(st, section.remove[n])
       ELSE IF n <= a + b THEN ConfigureStep(st, section.configure[n - a])
       ELSE InsertStep(st, entries[n - (a + b)])

LEMMA EditCounts ==
  ASSUME NEW section, IsASection(section), NEW entries
  PROVE  \E a \in Nat, b \in Nat : Parted(section, entries, a, b)
<1>1. Len(section.remove) \in Nat /\ Len(section.configure) \in Nat
  BY ListParts DEF IsASection
<1>2. PICK a \in Nat, b \in Nat : a = Len(section.remove) /\ b = Len(section.configure)
  BY <1>1
<1> WITNESS a \in Nat, b \in Nat
<1> QED
  BY <1>2 DEF EditsOf, Edited, Parted

\* An entry that cannot be made fails the synchronous builder as well.
LEMMA FailureTells ==
  ASSUME PipelineConfigAssumption, NEW section, IsASection(section),
         NEW entries, Entries(section, entries), NEW i \in DOMAIN entries,
         entries[i].made.error \notin {"none", "deferred"}
  PROVE  ApplyConfig(section, entries).error # "none"
<1> DEFINE N == EditsOf(section, entries)
           g == AppliedSoFar(section, entries)
<1>1. PICK a \in Nat, b \in Nat : Parted(section, entries, a, b)
  BY EditCounts
<1> DEFINE T == {k \in 0..N : a + b + i <= k /\ g[k].error = "none"}
<1>2. Len(entries) \in Nat /\ i \in 1 .. Len(entries) /\ N = a + b + Len(entries)
  BY <1>1 DEF Entries, Parted
<1>3. N \in Nat /\ Applies(g, section, entries, N)
  <2>1. N \in Nat
    <3> HIDE DEF N
    <3> QED
      BY <1>2
  <2> QED
    BY <2>1, AppliedApplies
<1>4. \A st : Edited(st, section, entries, a + b + i) = InsertStep(st, entries[i])
  <2>1. ~(a + b + i <= a) /\ ~(a + b + i <= a + b) /\ (a + b + i) - (a + b) = i
    BY <1>2
  <2> QED
    BY <1>1, <2>1 DEF Parted
<1> HIDE DEF N, g
<1>5. \A k \in 0..N : g[k] = IF k = 0 THEN StandardStrategy ELSE Edited(g[k - 1], section, entries, k)
  BY <1>3 DEF Applies
<1>6. T = {}
  <2> SUFFICES ASSUME T # {} PROVE FALSE
    OBVIOUS
  <2>1. T \in SUBSET Nat
    BY <1>3
  <2>2. PICK k \in T : \A j \in T : k <= j
    BY <2>1, LeastPlace
  <2>3. k \in 1..N /\ a + b + i <= k /\ g[k].error = "none" /\ g[k] = Edited(g[k - 1], section, entries, k)
    BY <1>2, <1>3, <1>5, <2>2
  <2>4. g[k - 1].error = "none"
    BY <2>3, ErrorStays
  <2>5. k - 1 \notin T /\ k - 1 \in 0..N
    BY <1>3, <2>2, <2>3
  <2>6. k = a + b + i
    BY <1>2, <2>3, <2>4, <2>5
  <2>7. g[k] = InsertStep(g[k - 1], entries[i])
    BY <1>4, <2>3, <2>6
  <2>8. InsertStep(g[k - 1], entries[i]).error = entries[i].made.error
    BY <2>4 DEF InsertStep, Thrown
  <2> QED
    BY <2>3, <2>7, <2>8
<1>7. N \in 0..N /\ a + b + i <= N
  BY <1>2, <1>3
<1>8. g[N].error # "none"
  BY <1>6, <1>7
<1> QED
  BY <1>8 DEF ApplyConfig, Thrown, g, N

LEMMA NoneImported ==
  ASSUME NEW section, IsASection(section), NoHandler(section)
  PROVE  SyncEntries(section) = AsyncEntries(section)
         /\ \A i \in DOMAIN section.steps : Resolved(section.steps[i]).error # "deferred"
<1>1. ASSUME NEW i \in DOMAIN section.steps
      PROVE  /\ ResolvedSync(section.steps[i]) = Resolved(section.steps[i])
             /\ Resolved(section.steps[i]).error # "deferred"
  <2>1. section.steps[i].handler = ""
    BY DEF NoHandler
  <2>2. PICK e : e = section.steps[i]
    OBVIOUS
  <2>3. e = [k \in DOMAIN e |-> e[k]] /\ e.handler = ""
    BY <2>1, <2>2 DEF IsASection
  <2>4. [e EXCEPT !.handler = ""] = e
    BY <2>3
  <2>5. ResolvedSync(e) = Resolved(e)
    BY <2>3, <2>4 DEF ResolvedSync
  <2>6. Resolved(e).error # "deferred"
    BY DEF Resolved, NotMade, Made
  <2> QED
    BY <2>2, <2>5, <2>6
<1> QED
  BY <1>1 DEF SyncEntries, AsyncEntries

LEMMA BuildersDoAgree ==
  ASSUME PipelineConfigAssumption, PipelineAssumption
  PROVE  BuildersAgree
<1> SUFFICES ASSUME NEW section \in Sections, NoHandler(section)
             PROVE  Buildable(BuildSync(section), BuildAsync(section))
  BY DEF BuildersAgree
<1> DEFINE entries == AsyncEntries(section)
           failed == {i \in DOMAIN entries : entries[i].made.error # "none"}
<1>1. IsASection(section)
  BY DEF PipelineAssumption
<1>2. /\ BuildSync(section) = ApplyConfig(section, entries)
      /\ BuildAsync(section) = IF failed # {} THEN Thrown(entries[Min(failed)].made.error, <<>>)
                                              ELSE ApplyConfig(section, entries)
  <2>1. BuildSync(section) = ApplyConfig(section, SyncEntries(section))
    BY DEF BuildSync, SyncEntries
  <2> QED
    BY <1>1, <2>1, NoneImported DEF BuildAsync, AsyncEntries
<1>3. CASE failed = {}
  <2> HIDE DEF failed
  <2> QED
    BY <1>2, <1>3 DEF Buildable
<1>4. CASE failed # {}
  <2>1. Entries(section, entries)
    BY <1>1, SectionEntries
  <2>2. failed \in SUBSET Nat
    BY <2>1 DEF Entries
  <2>3. Min(failed) \in failed
    <3> HIDE DEF failed
    <3> QED
      BY <1>4, <2>2, LeastPlace DEF Min
  <2>4. entries[Min(failed)].made.error # "none"
    BY <2>3
  <2>5. PICK i \in DOMAIN entries : entries[i].made.error # "none"
    BY <1>4
  <2>6. entries[i].made.error # "deferred"
    BY <1>1, NoneImported DEF AsyncEntries
  <2> HIDE DEF entries, failed
  <2>7. ApplyConfig(section, entries).error # "none"
    BY <1>1, <2>1, <2>5, <2>6, FailureTells
  <2>8. BuildAsync(section).error # "none"
    BY <1>2, <1>4, <2>4 DEF Thrown
  <2> QED
    BY <1>2, <2>7, <2>8 DEF Buildable
<1> QED
  BY <1>3, <1>4

----------------------------------------------------------------------------
(* The strategy *)

StrategyInv ==
  /\ SoundList(steps)
  /\ ~unchecked => DependenciesMet(steps)

LEMMA StrategyStart ==
  ASSUME PipelineInit
  PROVE  StrategyInv
  BY EmptyList DEF PipelineInit, StrategyInv

LEMMA NeitherNor ==
  ASSUME NEW now, NEW before, NEW e, NEW still \in BOOLEAN, now = (before \/ e # "none" \/ still)
  PROVE  ~now => ~before /\ e = "none" /\ ~still
  OBVIOUS

LEMMA StrategyStep ==
  ASSUME PipelineConfigAssumption, PipelineAssumption, StrategyInv, [PipelineNext]_pipelineVars
  PROVE  StrategyInv'
<1>1. CASE BuildStrategy
  <2>1. PICK s \in Sections : \E b \in {BuildSync(s), BuildAsync(s)} : b.error = "none" /\ steps' = b.list
    BY <1>1 DEF BuildStrategy
  <2>2. PICK b \in {BuildSync(s), BuildAsync(s)} : b.error = "none" /\ steps' = b.list
    BY <2>1
  <2>3. Met(b)
    BY <2>2, BuiltMet DEF PipelineAssumption
  <2> QED
    BY <1>1, <2>2, <2>3 DEF Met, BuildStrategy, StrategyInv
<1>2. CASE EditStrategy
  <2>1. SoundList(steps)
    BY DEF StrategyInv
  <2>2. PICK r \in {Inserted(steps, steps[i].name, s, o) :
                      i \in DOMAIN steps, s \in NewSteps, o \in {0, 1}}
                 \cup {Removed(steps, steps[i].name) : i \in DOMAIN steps}
                 \cup {Replaced(steps, steps[i].name, s) : i \in DOMAIN steps, s \in NewSteps} :
          steps' = r.list /\ unchecked' = (unchecked \/ r.error # "none" \/ Len(r.list) <= Len(steps))
    BY <1>2 DEF EditStrategy
  <2>3. Len(steps) \in Nat
    BY <2>1, SoundParts
  <2> DEFINE still == Len(r.list) <= Len(steps)
  <2>9. unchecked' = (unchecked \/ r.error # "none" \/ still)
    BY <2>2
  <2>10. ~unchecked' => ~unchecked /\ r.error = "none" /\ ~still
    <3>1. still \in BOOLEAN
      OBVIOUS
    <3> HIDE DEF still
    <3> QED
      BY <2>9, <3>1, NeitherNor
  <2>11. SUFFICES SoundList(r.list) /\ (r.error = "none" /\ ~still => DependenciesMet(r.list))
    BY <2>2, <2>10 DEF StrategyInv
  <2>4. CASE r \in {Inserted(steps, steps[i].name, s, o) :
                      i \in DOMAIN steps, s \in NewSteps, o \in {0, 1}}
    <3>1. PICK i \in DOMAIN steps, s \in NewSteps, o \in {0, 1} : r = Inserted(steps, steps[i].name, s, o)
      BY <2>4
    <3>2. IsAStep(s)
      BY DEF PipelineAssumption
    <3>3. SoundList(r.list)
      BY <2>1, <3>1, <3>2, InsertedSound
    <3>4. r.error = "none" => DependenciesMet(r.list)
      BY <2>1, <3>1, <3>2, InsertedSound
    <3> QED
      BY <3>3, <3>4
  <2>5. CASE r \in {Removed(steps, steps[i].name) : i \in DOMAIN steps}
    <3>1. SoundList(r.list) /\ Len(r.list) <= Len(steps)
      BY <2>1, <2>5, RemovedSound
    <3> QED
      BY <3>1
  <2>6. CASE r \in {Replaced(steps, steps[i].name, s) : i \in DOMAIN steps, s \in NewSteps}
    <3>1. SoundList(r.list) /\ Len(r.list) = Len(steps)
      BY <2>1, <2>6, ReplacedSound DEF PipelineAssumption
    <3> QED
      BY <2>3, <3>1
  <2> QED
    BY <2>4, <2>5, <2>6
<1>3. CASE Keeps \/ UNCHANGED pipelineVars
  BY <1>3 DEF Keeps, pipelineVars, StrategyInv
<1>4. PipelineNext => BuildStrategy \/ EditStrategy \/ Keeps
  BY DEF PipelineNext, StartRun, RunEnds, SkipStep, EnterStep, BeforeStep, CleanupStep, BodyReturns,
         BodyThrows, StepErrorPasses, StepErrorRecovers, AfterStep
<1> QED
  BY <1>1, <1>2, <1>3, <1>4

\* Whatever a file configures and operators do to it, no gate of the strategy
\* is weakened, names stay unique, an unvalidated change apart what a step
\* requires is there, and both builders mean the same (StrategySound).
THEOREM StrategiesStaySound == PipelineSpec => []StrategySound
<1>1. StrategyInv => StrategySound
  <2>1. BuildersAgree
    BY BuildersDoAgree, PipelineConfigAssumption, PipelineAssumption
  <2> QED
    BY <2>1, SoundParts DEF StrategyInv, StrategySound, SoundList, SoundStep
<1>2. StrategyInv /\ [PipelineNext]_pipelineVars => StrategyInv'
  BY StrategyStep, PipelineConfigAssumption, PipelineAssumption
<1> QED
  BY <1>1, <1>2, StrategyStart, PTL DEF PipelineSpec
----------------------------------------------------------------------------
(* The run *)

RunFields ==
  {"phase", "idx", "cur", "dry", "hook", "entered", "result", "target", "trace", "aborts",
   "failed", "outcome", "open", "provided", "shifted"}

HasFields(r) == r = [k \in RunFields |-> r[k]]

InStep == {"before", "cleanup", "body", "error", "after"}

IsARun(r) ==
  /\ HasFields(r)
  /\ r.idx \in Nat /\ r.idx > 0 /\ r.hook \in Nat /\ r.entered \in Nat
  /\ r.dry \in BOOLEAN /\ r.shifted \in BOOLEAN /\ r.aborts \in BOOLEAN
  /\ r.trace \in Seq(Range(r.trace))

RunShape(r) ==
  /\ IsARun(r)
  /\ r.phase \in {"idle", "scan", "done"} \cup InStep
  /\ r.phase = "idle" => r = NoRun
  /\ r.phase \in InStep => SoundStep(r.cur)
  /\ r.phase = "error" => ~r.dry
  /\ r.phase = "after" /\ r.result = "recovered" => ~r.dry
  /\ r.phase = "after" => r.result \in {"continue", "skip_to", "abort", "unknown", "recovered"}

\* Where middlewares may be waiting for news, and which.
OnionKept(r) ==
  /\ r.phase = "before" =>
       r.open = 1 .. r.entered /\ r.hook = r.entered + 1 /\ r.hook <= StepMws
  /\ r.phase = "body" => r.open = 1 .. r.entered
  /\ r.phase \in {"cleanup", "error", "after"} => r.open \subseteq 1 .. r.hook
  /\ r.phase = "error" => r.hook <= r.entered
  /\ r.phase = "scan" => r.open = {} \/ (r.dry /\ r.aborts /\ r.result = "threw")
  /\ r.phase = "done" =>
       r.open = {} \/ (r.dry /\ r.outcome = "failedChecks") \/ r.outcome = "hookError"

Faced(entry) == entry.gate => entry.how \in {"continue", "recovered", "jumped"}

\* Only the last entry of a run that is over may be a gate that was not passed.
GatesKept(r) ==
  ~r.dry =>
    \A i \in DOMAIN r.trace : Faced(r.trace[i]) \/ (i = Len(r.trace) /\ r.phase = "done")

Passed(r) == r.idx - (IF r.phase = "after" /\ r.result = "recovered" THEN 0 ELSE 1)

Underway(r) == r.phase \in {"scan"} \cup InStep /\ ~r.shifted

TraceKept(r, list) ==
  Underway(r) =>
    /\ Len(list) > 0
    /\ Len(r.trace) = Passed(r) /\ Passed(r) <= Len(list)
    /\ \A i \in DOMAIN r.trace : r.trace[i].name = list[i].name
    /\ r.phase \in InStep => r.idx <= Len(list) /\ r.cur = list[r.idx]

\* What a dry run has passed either failed or provided what it should.
DryKept(r, list, changed) ==
  Underway(r) /\ r.dry =>
    /\ \A j \in 1 .. (r.idx - 1) : list[j].provides \subseteq r.failed \cup r.provided
    /\ ~changed /\ r.phase \in {"before", "body", "after"} =>
         r.cur.requires \subseteq SeedProvides \cup r.provided

RunInv(r, list, changed) ==
  RunShape(r) /\ OnionKept(r) /\ GatesKept(r) /\ TraceKept(r, list) /\ DryKept(r, list, changed)

----------------------------------------------------------------------------
(* What the engine changes of a run *)

Alters(n, r, F) == HasFields(n) /\ \A k \in RunFields \ F : n[k] = r[k]

LEMMA TracedParts ==
  ASSUME NEW r, HasFields(r), NEW how, NEW n, n = Traced(r, how)
  PROVE  /\ Alters(n, r, {"trace", "aborts"})
         /\ n.trace = Append(r.trace, TraceEntry(r.cur, how))
         /\ n.aborts = (r.aborts \/ how \in {"abort", "threw"})
  BY DEF Traced, Alters, HasFields, RunFields

LEMMA LeavesParts ==
  ASSUME NEW r, HasFields(r), NEW n, n = Leaves(r)
  PROVE  /\ Alters(n, r, {"phase", "cur", "hook", "entered", "result", "target"})
         /\ n.phase = "scan" /\ n.hook = 0 /\ n.entered = 0 /\ n.result = "continue"
  BY DEF Leaves, Alters, HasFields, RunFields

LEMMA OnwardsParts ==
  ASSUME NEW r, HasFields(r), NEW n, n = Onwards(r)
  PROVE  /\ Alters(n, r, {"phase", "cur", "hook", "entered", "result", "target", "idx"})
         /\ n.phase = "scan" /\ n.hook = 0 /\ n.entered = 0 /\ n.result = "continue"
         /\ n.idx = r.idx + 1
<1> DEFINE m == Leaves(r)
<1>1. /\ Alters(m, r, {"phase", "cur", "hook", "entered", "result", "target"})
      /\ m.phase = "scan" /\ m.hook = 0 /\ m.entered = 0 /\ m.result = "continue"
  BY LeavesParts
<1>2. n = [m EXCEPT !.idx = @ + 1]
  BY DEF Onwards
<1> HIDE DEF m
<1> QED
  BY <1>1, <1>2 DEF Alters, HasFields, RunFields

LEMMA RunStopsParts ==
  ASSUME NEW r, HasFields(r), NEW how, NEW n, n = RunStops(r, how)
  PROVE  /\ Alters(n, r, {"phase", "cur", "hook", "entered", "result", "target", "outcome"})
         /\ n.phase = "done" /\ n.hook = 0 /\ n.entered = 0 /\ n.outcome = how
<1> DEFINE m == Leaves(r)
<1>1. /\ Alters(m, r, {"phase", "cur", "hook", "entered", "result", "target"})
      /\ m.phase = "scan" /\ m.hook = 0 /\ m.entered = 0 /\ m.result = "continue"
  BY LeavesParts
<1>2. n = [m EXCEPT !.phase = "done", !.outcome = how]
  BY DEF RunStops
<1> HIDE DEF m
<1> QED
  BY <1>1, <1>2 DEF Alters, HasFields, RunFields

LEMMA ToldParts ==
  ASSUME NEW r, HasFields(r), NEW n, n = Told(r)
  PROVE  /\ Alters(n, r, {"open", "hook"})
         /\ n.open = r.open \ {r.hook}
         /\ n.hook = IF r.hook = 0 THEN 0 ELSE r.hook - 1
  BY DEF Told, Alters, HasFields, RunFields

LEMMA TraceGrows ==
  ASSUME NEW t, t \in Seq(Range(t)), NEW e
  PROVE  /\ Append(t, e) \in Seq(Range(Append(t, e)))
         /\ Len(t) \in Nat /\ DOMAIN t = 1 .. Len(t)
         /\ Len(Append(t, e)) = Len(t) + 1 /\ DOMAIN Append(t, e) = 1 .. (Len(t) + 1)
         /\ Append(t, e)[Len(t) + 1] = e /\ \A i \in DOMAIN t : Append(t, e)[i] = t[i]
<1> DEFINE S == Range(t) \cup {e}
<1>1. t \in Seq(S) /\ e \in S
  <2>1. Range(t) \subseteq S
    OBVIOUS
  <2> QED
    BY <2>1, SeqDef
<1> HIDE DEF S
<1>2. Append(t, e) \in Seq(S)
  BY <1>1
<1>3. Append(t, e) \in Seq(Range(Append(t, e)))
  BY <1>2, SeqOfItsRange
<1>4. Len(t) \in Nat /\ DOMAIN t = 1 .. Len(t)
  BY <1>1, LenProperties
<1>5. Len(Append(t, e)) = Len(t) + 1 /\ DOMAIN Append(t, e) = 1 .. (Len(t) + 1)
  BY <1>1, <1>2, LenProperties, AppendProperties
<1>6. Append(t, e)[Len(t) + 1] = e /\ \A i \in DOMAIN t : Append(t, e)[i] = t[i]
  BY <1>1, <1>4, AppendProperties
<1> QED
  BY <1>3, <1>4, <1>5, <1>6

Grown(new, old, e) == new = Append(old, e)

LEMMA GrownParts ==
  ASSUME NEW old, old \in Seq(Range(old)), NEW e, NEW new, Grown(new, old, e)
  PROVE  /\ new \in Seq(Range(new))
         /\ Len(old) \in Nat /\ DOMAIN old = 1 .. Len(old)
         /\ Len(new) = Len(old) + 1 /\ DOMAIN new = 1 .. (Len(old) + 1)
         /\ new[Len(old) + 1] = e /\ \A i \in DOMAIN old : new[i] = old[i]
<1>1. new = Append(old, e)
  BY DEF Grown
<1> QED
  BY <1>1, TraceGrows

\* The run has traced the step at its index, c, and goes on to the next.
LEMMA Moved ==
  ASSUME NEW r, NEW list, NEW changed, NEW n, NEW c, NEW how,
         list \in Seq(Range(list)), RunInv(r, list, changed),
         r.phase \in {"scan"} \cup InStep, Len(r.trace) = r.idx - 1 \/ r.shifted,
         HasFields(n), n.phase = "scan", n.idx = r.idx + 1,
         n.hook = 0, n.entered = 0, n.aborts \in BOOLEAN,
         n.dry = r.dry, n.shifted = r.shifted, Grown(n.trace, r.trace, TraceEntry(c, how)),
         r.shifted \/ (r.idx <= Len(list) /\ c = list[r.idx]),
         r.dry \/ Faced(TraceEntry(c, how)),
         n.open = {} \/ (n.dry /\ n.aborts /\ n.result = "threw"),
         r.dry => r.failed \cup r.provided \cup c.provides \subseteq n.failed \cup n.provided
  PROVE  RunInv(n, list, changed)
<1>1. IsARun(r) /\ Len(list) \in Nat
  BY ListParts DEF RunInv, RunShape
<1>2. /\ n.trace \in Seq(Range(n.trace)) /\ Len(r.trace) \in Nat /\ Len(n.trace) = Len(r.trace) + 1
      /\ DOMAIN r.trace = 1 .. Len(r.trace) /\ DOMAIN n.trace = 1 .. (Len(r.trace) + 1)
      /\ n.trace[Len(r.trace) + 1] = TraceEntry(c, how)
      /\ \A i \in DOMAIN r.trace : n.trace[i] = r.trace[i]
  BY <1>1, GrownParts DEF IsARun
<1>3. RunShape(n)
  BY <1>1, <1>2 DEF RunShape, IsARun, InStep
<1>4. OnionKept(n)
  BY DEF OnionKept
<1>5. GatesKept(n)
  <2>1. SUFFICES ASSUME ~n.dry PROVE \A i \in DOMAIN n.trace : Faced(n.trace[i])
    BY DEF GatesKept
  <2>2. \A i \in DOMAIN r.trace : Faced(r.trace[i])
    BY <2>1 DEF RunInv, GatesKept, InStep
  <2>3. ~r.dry
    BY <2>1
  <2>4. Faced(TraceEntry(c, how))
    BY <2>3
  <2>5. \A i \in DOMAIN n.trace : i \in DOMAIN r.trace \/ i = Len(r.trace) + 1
    BY <1>2
  <2> QED
    BY <1>2, <2>4, <2>5, <2>2
<1>6. r.idx \in Nat /\ r.idx > 0 /\ n.phase \notin InStep /\ Passed(n) = r.idx
  BY <1>1 DEF IsARun, InStep, Passed
<1>7. Underway(n) => Underway(r) /\ r.idx <= Len(list) /\ c = list[r.idx] /\ Len(r.trace) = r.idx - 1
  BY DEF Underway
<1>8. TraceKept(n, list)
  <2>1. SUFFICES ASSUME Underway(n) PROVE \A i \in DOMAIN n.trace : n.trace[i].name = list[i].name
    BY <1>1, <1>2, <1>6, <1>7 DEF TraceKept
  <2>2. \A i \in DOMAIN r.trace : r.trace[i].name = list[i].name
    BY <1>7, <2>1 DEF RunInv, TraceKept
  <2>5. TraceEntry(c, how).name = c.name
    BY DEF TraceEntry
  <2>6. Len(r.trace) + 1 = r.idx /\ c = list[r.idx]
    BY <1>2, <1>6, <1>7, <2>1
  <2>3. n.trace[Len(r.trace) + 1].name = list[r.idx].name /\ Len(r.trace) + 1 = r.idx
    BY <1>2, <2>5, <2>6
  <2>4. \A i \in DOMAIN n.trace : i \in DOMAIN r.trace \/ i = Len(r.trace) + 1
    BY <1>2
  <2> QED
    BY <1>2, <2>2, <2>3, <2>4
<1>9. DryKept(n, list, changed)
  <2>1. SUFFICES ASSUME Underway(n), n.dry
        PROVE  \A j \in 1 .. (n.idx - 1) : list[j].provides \subseteq n.failed \cup n.provided
    BY <1>6 DEF DryKept, InStep
  <2>2. \A j \in 1 .. (r.idx - 1) : list[j].provides \subseteq r.failed \cup r.provided
    BY <1>7, <2>1 DEF RunInv, DryKept
  <2>3. r.failed \cup r.provided \cup list[r.idx].provides \subseteq n.failed \cup n.provided
    BY <1>7, <2>1
  <2>4. \A j \in 1 .. (n.idx - 1) : j \in 1 .. (r.idx - 1) \/ j = r.idx
    BY <1>6
  <2> QED
    BY <2>2, <2>3, <2>4
<1> QED
  BY <1>3, <1>4, <1>5, <1>8, <1>9 DEF RunInv

\* The run is over, and may have traced how the step at its index ended it.
LEMMA Ended ==
  ASSUME NEW r, NEW list, NEW changed, NEW n, NEW e,
         RunInv(r, list, changed), r.phase \in {"scan"} \cup InStep,
         HasFields(n), n.phase = "done", n.idx = r.idx,
         n.hook = 0, n.entered = 0, n.aborts \in BOOLEAN,
         n.dry = r.dry, n.shifted = r.shifted,
         n.trace = r.trace \/ Grown(n.trace, r.trace, e),
         n.open = {} \/ (n.dry /\ n.outcome = "failedChecks") \/ n.outcome = "hookError"
  PROVE  RunInv(n, list, changed)
<1>1. IsARun(r)
  BY DEF RunInv, RunShape
<1>2. r.trace \in Seq(Range(r.trace))
  BY <1>1 DEF IsARun
<1>3. /\ n.trace \in Seq(Range(n.trace)) /\ Len(r.trace) \in Nat
      /\ DOMAIN r.trace = 1 .. Len(r.trace)
      /\ \A i \in DOMAIN n.trace : (i \in DOMAIN r.trace /\ n.trace[i] = r.trace[i]) \/ i = Len(n.trace)
  BY <1>2, GrownParts, ListParts
<1>4. RunShape(n)
  BY <1>1, <1>3 DEF RunShape, IsARun, InStep
<1>5. OnionKept(n)
  BY DEF OnionKept
<1>6. GatesKept(n)
  <2>1. ~r.dry => \A i \in DOMAIN r.trace : Faced(r.trace[i])
    BY DEF RunInv, GatesKept, InStep
  <2> QED
    BY <1>3, <2>1 DEF GatesKept
<1>7. TraceKept(n, list) /\ DryKept(n, list, changed)
  BY DEF TraceKept, DryKept, Underway, InStep
<1> QED
  BY <1>4, <1>5, <1>6, <1>7 DEF RunInv

\* The run stays with the step that it is in.
LEMMA Stayed ==
  ASSUME NEW r, NEW list, NEW changed, NEW n, RunInv(r, list, changed), r.phase \in InStep,
         HasFields(n), n.phase \in InStep,
         \A k \in {"idx", "cur", "dry", "shifted", "trace", "failed", "provided", "aborts"} : n[k] = r[k],
         n.hook \in Nat, n.entered \in Nat, OnionKept(n), n.phase = "error" => ~n.dry,
         n.phase = "after" => n.result \in {"continue", "skip_to", "abort", "unknown", "recovered"},
         n.phase = "after" /\ n.result = "recovered" <=> r.phase = "after" /\ r.result = "recovered",
         n.phase \in {"before", "body", "after"} => r.phase \in {"before", "body", "after"} \/ ~r.dry
  PROVE  RunInv(n, list, changed)
<1>1. /\ n.idx = r.idx /\ n.cur = r.cur /\ n.dry = r.dry /\ n.shifted = r.shifted
      /\ n.trace = r.trace /\ n.failed = r.failed /\ n.provided = r.provided /\ n.aborts = r.aborts
  OBVIOUS
<1>2. RunShape(n)
  BY <1>1 DEF RunInv, RunShape, IsARun, InStep
<1>3. GatesKept(n)
  BY <1>1 DEF RunInv, GatesKept, InStep
<1>4. Passed(n) = Passed(r) /\ (Underway(n) <=> Underway(r))
  BY <1>1 DEF Passed, Underway
<1>5. TraceKept(n, list)
  BY <1>1, <1>4 DEF RunInv, TraceKept
<1>6. DryKept(n, list, changed)
  BY <1>1, <1>4 DEF RunInv, DryKept
<1> QED
  BY <1>2, <1>3, <1>5, <1>6 DEF RunInv

LEMMA StartRunKeeps ==
  ASSUME SoundList(steps), RunInv(run, steps, unchecked), StartRun
  PROVE  RunInv(run', steps, unchecked)
<1>1. PICK dry \in BOOLEAN : run' = [run EXCEPT !.phase = "scan", !.dry = dry]
  BY DEF StartRun
<1>2. run = NoRun /\ HasFields(run)
  BY DEF StartRun, RunInv, RunShape, IsARun
<1>3. /\ run.idx = 1 /\ run.hook = 0 /\ run.entered = 0 /\ run.trace = <<>> /\ run.open = {}
      /\ run.shifted = FALSE /\ run.aborts = FALSE
  BY <1>2 DEF NoRun
<1>4. Alters(run', run, {"phase", "dry"}) /\ run'.phase = "scan" /\ run'.dry = dry
  BY <1>1, <1>2 DEF Alters, HasFields, RunFields
<1>5. /\ run'.idx = 1 /\ run'.hook = 0 /\ run'.entered = 0 /\ run'.trace = <<>> /\ run'.open = {}
      /\ run'.shifted = FALSE /\ run'.aborts = FALSE
  BY <1>3, <1>4 DEF Alters, RunFields
<1>6. <<>> \in Seq(Range(<<>>)) /\ DOMAIN <<>> = {} /\ Len(<<>>) = 0
  BY EmptyList DEF SoundList
<1>7. Len(steps) \in Nat /\ Len(steps) > 0
  BY ListParts, EmptySeq DEF StartRun, SoundList
<1>11. run'.trace \in Seq(Range(run'.trace))
  BY <1>5, <1>6
<1>13. HasFields(run')
  BY <1>4 DEF Alters
<1>12. IsARun(run')
  <2>1. run'.idx \in Nat /\ run'.idx > 0 /\ run'.hook \in Nat /\ run'.entered \in Nat
    BY <1>5
  <2>2. run'.dry \in BOOLEAN /\ run'.shifted \in BOOLEAN /\ run'.aborts \in BOOLEAN
    BY <1>4, <1>5
  <2> QED
    BY <2>1, <2>2, <1>11, <1>13 DEF IsARun
<1>8. RunShape(run')
  BY <1>4, <1>12 DEF RunShape, InStep
<1>9. OnionKept(run') /\ GatesKept(run')
  BY <1>4, <1>5, <1>6 DEF OnionKept, GatesKept
<1>10. TraceKept(run', steps) /\ DryKept(run', steps, unchecked)
  BY <1>4, <1>5, <1>6, <1>7 DEF TraceKept, DryKept, Passed, InStep
<1> QED
  BY <1>8, <1>9, <1>10 DEF RunInv

LEMMA RunEndsKeeps ==
  ASSUME SoundList(steps), RunInv(run, steps, unchecked), RunEnds
  PROVE  RunInv(run', steps, unchecked)
<1> DEFINE how == IF run.aborts THEN "failedChecks" ELSE "success"
<1>1. IsARun(run) /\ run.phase = "scan" /\ run' = RunStops(run, how)
  BY DEF RunEnds, RunInv, RunShape
<1>2. HasFields(run) /\ run.aborts \in BOOLEAN
  BY <1>1 DEF IsARun
<1>3. run.open = {} \/ (run.dry /\ run.aborts)
  BY <1>1 DEF RunInv, OnionKept
<1>4. run.aborts => how = "failedChecks"
  OBVIOUS
<1> HIDE DEF how
<1>5. /\ Alters(run', run, {"phase", "cur", "hook", "entered", "result", "target", "outcome"})
      /\ run'.phase = "done" /\ run'.hook = 0 /\ run'.entered = 0 /\ run'.outcome = how
  BY <1>1, <1>2, RunStopsParts
<1>6. /\ run'.idx = run.idx /\ run'.dry = run.dry /\ run'.shifted = run.shifted
      /\ run'.trace = run.trace /\ run'.aborts = run.aborts /\ run'.open = run.open
  BY <1>5 DEF Alters, RunFields
<1> QED
  BY <1>1, <1>2, <1>3, <1>4, <1>5, <1>6, Ended DEF Alters

LEMMA SkipStepKeeps ==
  ASSUME SoundList(steps), RunInv(run, steps, unchecked), SkipStep
  PROVE  RunInv(run', steps, unchecked)
<1> DEFINE s == steps[run.idx]
           how == SkipReason(s)
           m == [run EXCEPT !.cur = s, !.open = {}, !.result = "continue",
                            !.failed = IF run.dry THEN @ \cup s.provides ELSE @]
           t == Traced(m, how)
<1>1. IsARun(run) /\ run.phase = "scan" /\ run.idx <= Len(steps) /\ how # "" /\ run' = Onwards(t)
  BY DEF SkipStep, RunInv, RunShape
<1>2. HasFields(run) /\ run.aborts \in BOOLEAN /\ run.idx \in Nat /\ run.idx > 0
  BY <1>1 DEF IsARun
<1>3. /\ Alters(m, run, {"cur", "open", "result", "failed"}) /\ m.cur = s /\ m.open = {}
      /\ run.dry => m.failed = run.failed \cup s.provides
  BY <1>2 DEF Alters, HasFields, RunFields
<1>13. steps \in Seq(Range(steps))
  BY DEF SoundList
<1>14. run.idx \in DOMAIN steps
  <2>1. Len(steps) \in Nat /\ DOMAIN steps = 1 .. Len(steps)
    BY <1>13, ListParts
  <2>2. run.idx <= Len(steps)
    BY <1>1
  <2>3. run.idx \in Nat /\ run.idx > 0
    BY <1>2
  <2>4. run.idx \in 1 .. Len(steps)
    BY <2>1, <2>2, <2>3
  <2> QED
    BY <2>1, <2>4
<1>15. SoundStep(s)
  BY <1>14 DEF SoundList
<1>4. run.dry \/ Faced(TraceEntry(s, how))
  <2>1. ~run.dry => s.matchModules = "miss"
    BY <1>1 DEF SkipReason
  <2>2. "matchModules" \in DOMAIN s
    BY <1>15 DEF SoundStep, IsAStep, StepFields
  <2>3. s.matchModules = "miss" => s.gate = "no"
    BY <1>15, <2>2 DEF SoundStep, GateWeakened, Weakening
  <2>4. s.gate = "no" => ~TraceEntry(s, how).gate
    BY DEF TraceEntry
  <2> QED
    BY <2>1, <2>3, <2>4 DEF Faced
<1> HIDE DEF m, how
<1>5. /\ Alters(t, m, {"trace", "aborts"}) /\ t.trace = Append(m.trace, TraceEntry(m.cur, how))
      /\ t.aborts = (m.aborts \/ how \in {"abort", "threw"})
  BY <1>3, TracedParts DEF Alters
<1>16. HasFields(t)
  BY <1>5 DEF Alters
<1> HIDE DEF t
<1>6. /\ Alters(run', t, {"phase", "cur", "hook", "entered", "result", "target", "idx"})
      /\ run'.phase = "scan" /\ run'.hook = 0 /\ run'.entered = 0 /\ run'.result = "continue"
      /\ run'.idx = t.idx + 1
  BY <1>1, <1>16, OnwardsParts
<1>7. /\ run'.idx = run.idx + 1 /\ run'.dry = run.dry /\ run'.shifted = run.shifted
      /\ run'.trace = Append(run.trace, TraceEntry(s, how)) /\ run'.aborts \in BOOLEAN
      /\ run'.open = {} /\ run'.provided = run.provided /\ run'.failed = m.failed
  BY <1>2, <1>3, <1>5, <1>6 DEF Alters, RunFields
<1>8. Grown(run'.trace, run.trace, TraceEntry(s, how))
  BY <1>7 DEF Grown
<1>9. run.shifted \/ Len(run.trace) = run.idx - 1
  BY <1>1 DEF RunInv, TraceKept, Underway, Passed
<1>10. run.dry => run.failed \cup run.provided \cup s.provides \subseteq run'.failed \cup run'.provided
  BY <1>3, <1>7
<1>12. HasFields(run')
  BY <1>6 DEF Alters
<1> HIDE DEF s
<1> QED
  BY <1>1, <1>2, <1>4, <1>6, <1>7, <1>8, <1>9, <1>10, <1>12, <1>13, Moved DEF s

LEMMA EnterStepKeeps ==
  ASSUME SoundList(steps), ~unchecked => DependenciesMet(steps),
         RunInv(run, steps, unchecked), EnterStep
  PROVE  RunInv(run', steps, unchecked)
<1> DEFINE s == steps[run.idx]
<1>1. IsARun(run) /\ run.phase = "scan" /\ run.idx <= Len(steps) /\ SkipReason(s) = ""
  BY DEF EnterStep, RunInv, RunShape
<1>2. HasFields(run) /\ run.idx \in Nat /\ run.idx > 0 /\ StepMws \in Nat
  BY <1>1, PipelineAssumption DEF IsARun
<1>3. /\ Alters(run', run, {"cur", "entered", "open", "hook", "result", "phase"})
      /\ run'.cur = s /\ run'.entered = 0 /\ run'.open = {} /\ run'.hook = 1
      /\ run'.result = "continue" /\ run'.phase = IF StepMws = 0 THEN "body" ELSE "before"
  BY <1>2 DEF EnterStep, Alters, HasFields, RunFields
<1>4. /\ run'.idx = run.idx /\ run'.dry = run.dry /\ run'.shifted = run.shifted
      /\ run'.trace = run.trace /\ run'.aborts = run.aborts /\ run'.provided = run.provided
      /\ run'.failed = run.failed
  BY <1>3 DEF Alters, RunFields
<1>12. steps \in Seq(Range(steps))
  BY DEF SoundList
<1>13. run.idx \in DOMAIN steps
  <2>1. Len(steps) \in Nat /\ DOMAIN steps = 1 .. Len(steps)
    BY <1>12, ListParts
  <2>2. run.idx <= Len(steps)
    BY <1>1
  <2>3. run.idx \in Nat /\ run.idx > 0
    BY <1>2
  <2>4. run.idx \in 1 .. Len(steps)
    BY <2>1, <2>2, <2>3
  <2> QED
    BY <2>1, <2>4
<1>5. SoundStep(s)
  BY <1>13 DEF SoundList
<1> HIDE DEF s
<1>14. HasFields(run')
  BY <1>3 DEF Alters
<1>15. IsARun(run')
  <2>1. run'.idx \in Nat /\ run'.idx > 0 /\ run'.hook \in Nat /\ run'.entered \in Nat
    BY <1>2, <1>3, <1>4
  <2>2. run'.dry \in BOOLEAN /\ run'.shifted \in BOOLEAN /\ run'.aborts \in BOOLEAN
    BY <1>1, <1>4 DEF IsARun
  <2>3. run'.trace \in Seq(Range(run'.trace))
    BY <1>1, <1>4 DEF IsARun
  <2> QED
    BY <2>1, <2>2, <2>3, <1>14 DEF IsARun
<1>6. RunShape(run')
  BY <1>3, <1>5, <1>15 DEF RunShape, InStep
<1>7. OnionKept(run')
  <2>1. 1 .. 0 = {}
    OBVIOUS
  <2> QED
    BY <1>2, <1>3, <2>1 DEF OnionKept
<1>8. GatesKept(run')
  BY <1>1, <1>3, <1>4 DEF RunInv, GatesKept
<1>9. Passed(run') = Passed(run) /\ (Underway(run') <=> Underway(run))
  BY <1>1, <1>3, <1>4 DEF Passed, Underway, InStep
<1>10. TraceKept(run', steps)
  BY <1>1, <1>3, <1>4, <1>9 DEF RunInv, TraceKept, s
<1>11. DryKept(run', steps, unchecked)
  <2>1. SUFFICES ASSUME Underway(run), run.dry, ~unchecked
        PROVE  s.requires \subseteq SeedProvides \cup run.provided
    BY <1>3, <1>4, <1>9 DEF RunInv, DryKept
  <2>2. s.requires \subseteq SeedProvides \cup UNION {steps[j].provides : j \in 1 .. (run.idx - 1)}
    BY <1>13, <2>1 DEF DependenciesMet, s
  <2>3. \A j \in 1 .. (run.idx - 1) : steps[j].provides \subseteq run.failed \cup run.provided
    BY <2>1 DEF RunInv, DryKept
  <2>4. s.requires \cap run.failed = {}
    BY <1>1, <2>1 DEF SkipReason
  <2> QED
    BY <2>2, <2>3, <2>4
<1> QED
  BY <1>6, <1>7, <1>8, <1>10, <1>11 DEF RunInv

LEMMA BeforeStepKeeps ==
  ASSUME RunInv(run, steps, unchecked), BeforeStep
  PROVE  RunInv(run', steps, unchecked)
<1>1. IsARun(run) /\ run.phase = "before"
  BY DEF BeforeStep, RunInv, RunShape
<1>2. HasFields(run) /\ run.hook \in Nat /\ run.entered \in Nat /\ StepMws \in Nat
  BY <1>1, PipelineAssumption DEF IsARun
<1>3. run.open = 1 .. run.entered /\ run.hook = run.entered + 1 /\ run.hook <= StepMws
  BY <1>1 DEF RunInv, OnionKept
<1>4. PICK throws \in BOOLEAN :
        run' = [run EXCEPT !.entered = run.hook, !.open = @ \cup {run.hook},
                  !.hook  = IF throws THEN @ ELSE @ + 1,
                  !.phase = CASE throws -> "cleanup"
                              [] ~throws /\ run.hook = StepMws -> "body"
                              [] OTHER -> "before"]
  BY DEF BeforeStep
<1>5. /\ Alters(run', run, {"entered", "open", "hook", "phase"})
      /\ run'.entered = run.hook /\ run'.open = run.open \cup {run.hook}
      /\ run'.hook = IF throws THEN run.hook ELSE run.hook + 1
      /\ run'.phase = CASE throws -> "cleanup"
                        [] ~throws /\ run.hook = StepMws -> "body"
                        [] OTHER -> "before"
  BY <1>2, <1>4 DEF Alters, HasFields, RunFields
<1>6. run'.open = 1 .. run'.entered
  <2>1. 1 .. (run.entered + 1) = (1 .. run.entered) \cup {run.entered + 1}
    BY <1>2
  <2> QED
    BY <1>3, <1>5, <2>1
<1>7. \/ throws /\ run'.phase = "cleanup" /\ run'.hook = run'.entered
      \/ ~throws /\ run'.phase = "body"
      \/ ~throws /\ run'.phase = "before" /\ run'.hook = run'.entered + 1 /\ run.hook # StepMws
  BY <1>5
<1>8. OnionKept(run')
  BY <1>2, <1>3, <1>5, <1>6, <1>7 DEF OnionKept
<1>9. run'.hook \in Nat /\ run'.entered \in Nat
  BY <1>2, <1>5
<1>10. \A k \in {"idx", "cur", "dry", "shifted", "trace", "failed", "provided", "aborts"} : run'[k] = run[k]
  BY <1>5 DEF Alters, RunFields
<1>11. HasFields(run') /\ run'.phase \in InStep /\ run'.phase # "error" /\ run'.phase # "after"
  BY <1>5, <1>7 DEF Alters, InStep
<1> QED
  BY <1>1, <1>8, <1>9, <1>10, <1>11, Stayed DEF InStep

\* One middleware less waits for news.
LEMMA ToldKeeps ==
  ASSUME RunInv(run, steps, unchecked), run.phase \in {"cleanup", "error", "after"}
  PROVE  /\ HasFields(Told(run))
         /\ run.hook > 1 => RunInv(Told(run), steps, unchecked)
         /\ run.hook <= 1 => Told(run).open = {}
         /\ \A k \in RunFields \ {"open", "hook"} : Told(run)[k] = run[k]
<1>1. IsARun(run) /\ run.open \subseteq 1 .. run.hook
  BY DEF RunInv, RunShape, OnionKept
<1>2. HasFields(run) /\ run.hook \in Nat /\ run.entered \in Nat
  BY <1>1 DEF IsARun
<1>3. PICK n : n = Told(run)
  OBVIOUS
<1>4. /\ Alters(n, run, {"open", "hook"}) /\ n.open = run.open \ {run.hook}
      /\ n.hook = IF run.hook = 0 THEN 0 ELSE run.hook - 1
  BY <1>2, <1>3, ToldParts
<1>5. HasFields(n) /\ n.phase = run.phase /\ n.entered = run.entered /\ n.dry = run.dry
      /\ n.result = run.result
  BY <1>4 DEF Alters, RunFields
<1>6. run.hook <= 1 => n.open = {}
  BY <1>1, <1>2, <1>4
<1>7. ASSUME run.hook > 1 PROVE RunInv(n, steps, unchecked)
  <2>1. n.hook = run.hook - 1 /\ n.hook \in Nat
    BY <1>2, <1>4, <1>7
  <2>2. n.open \subseteq 1 .. n.hook
    BY <1>1, <1>2, <1>4, <2>1
  <2>3. n.phase = "error" => n.hook <= n.entered
    BY <1>2, <1>5, <2>1 DEF RunInv, OnionKept
  <2>4. OnionKept(n)
    BY <1>5, <2>2, <2>3 DEF OnionKept
  <2>5. /\ n.phase = "error" => ~n.dry
        /\ n.phase = "after" => n.result \in {"continue", "skip_to", "abort", "unknown", "recovered"}
    BY <1>5 DEF RunInv, RunShape
  <2>6. \A k \in {"idx", "cur", "dry", "shifted", "trace", "failed", "provided", "aborts"} : n[k] = run[k]
    BY <1>4 DEF Alters, RunFields
  <2> QED
    BY <1>2, <1>5, <2>1, <2>4, <2>5, <2>6, Stayed DEF InStep
<1> QED
  BY <1>3, <1>4, <1>5, <1>6, <1>7 DEF Alters

LEMMA TracedOnwards ==
  ASSUME NEW m, HasFields(m), NEW how, NEW n, n = Onwards(Traced(m, how))
  PROVE  /\ HasFields(n) /\ n.phase = "scan" /\ n.hook = 0 /\ n.entered = 0 /\ n.result = "continue"
         /\ n.idx = m.idx + 1 /\ n.dry = m.dry /\ n.shifted = m.shifted /\ n.failed = m.failed
         /\ n.open = m.open /\ n.provided = m.provided
         /\ Grown(n.trace, m.trace, TraceEntry(m.cur, how))
         /\ n.aborts = (m.aborts \/ how \in {"abort", "threw"})
<1>1. PICK t : t = Traced(m, how)
  OBVIOUS
<1>2. /\ Alters(t, m, {"trace", "aborts"}) /\ t.trace = Append(m.trace, TraceEntry(m.cur, how))
      /\ t.aborts = (m.aborts \/ how \in {"abort", "threw"})
  BY <1>1, TracedParts
<1>3. HasFields(t)
  BY <1>2 DEF Alters
<1>4. n = Onwards(t)
  BY <1>1
<1>5. /\ Alters(n, t, {"phase", "cur", "hook", "entered", "result", "target", "idx"})
      /\ n.phase = "scan" /\ n.hook = 0 /\ n.entered = 0 /\ n.result = "continue"
      /\ n.idx = t.idx + 1
  BY <1>3, <1>4, OnwardsParts
<1>6. /\ n.dry = t.dry /\ n.shifted = t.shifted /\ n.failed = t.failed
      /\ n.open = t.open /\ n.provided = t.provided /\ n.trace = t.trace /\ n.aborts = t.aborts
  BY <1>5 DEF Alters, RunFields
<1>7. /\ t.idx = m.idx /\ t.dry = m.dry /\ t.shifted = m.shifted /\ t.failed = m.failed
      /\ t.open = m.open /\ t.provided = m.provided
  BY <1>2 DEF Alters, RunFields
<1>8. Grown(n.trace, m.trace, TraceEntry(m.cur, how))
  BY <1>2, <1>6 DEF Grown
<1> QED
  BY <1>2, <1>5, <1>6, <1>7, <1>8 DEF Alters

LEMMA TracedStops ==
  ASSUME NEW m, HasFields(m), NEW how, NEW outcome, NEW n, n = RunStops(Traced(m, how), outcome)
  PROVE  /\ HasFields(n) /\ n.phase = "done" /\ n.hook = 0 /\ n.entered = 0 /\ n.outcome = outcome
         /\ n.idx = m.idx /\ n.dry = m.dry /\ n.shifted = m.shifted /\ n.open = m.open
         /\ Grown(n.trace, m.trace, TraceEntry(m.cur, how))
         /\ n.aborts = (m.aborts \/ how \in {"abort", "threw"})
<1>1. PICK t : t = Traced(m, how)
  OBVIOUS
<1>2. /\ Alters(t, m, {"trace", "aborts"}) /\ t.trace = Append(m.trace, TraceEntry(m.cur, how))
      /\ t.aborts = (m.aborts \/ how \in {"abort", "threw"})
  BY <1>1, TracedParts
<1>3. HasFields(t)
  BY <1>2 DEF Alters
<1>4. n = RunStops(t, outcome)
  BY <1>1
<1>5. /\ Alters(n, t, {"phase", "cur", "hook", "entered", "result", "target", "outcome"})
      /\ n.phase = "done" /\ n.hook = 0 /\ n.entered = 0 /\ n.outcome = outcome
  BY <1>3, <1>4, RunStopsParts
<1>6. /\ n.idx = t.idx /\ n.dry = t.dry /\ n.shifted = t.shifted
      /\ n.open = t.open /\ n.trace = t.trace /\ n.aborts = t.aborts
  BY <1>5 DEF Alters, RunFields
<1>7. t.idx = m.idx /\ t.dry = m.dry /\ t.shifted = m.shifted /\ t.open = m.open
  BY <1>2 DEF Alters, RunFields
<1>8. Grown(n.trace, m.trace, TraceEntry(m.cur, how))
  BY <1>2, <1>6 DEF Grown
<1> QED
  BY <1>2, <1>5, <1>6, <1>7, <1>8 DEF Alters

\* What a run in one of its steps knows.
LEMMA InStepParts ==
  ASSUME SoundList(steps), RunInv(run, steps, unchecked), run.phase \in InStep
  PROVE  /\ HasFields(run) /\ run.idx \in Nat /\ run.idx > 0 /\ run.hook \in Nat /\ run.entered \in Nat
         /\ run.dry \in BOOLEAN /\ run.shifted \in BOOLEAN /\ run.aborts \in BOOLEAN
         /\ SoundStep(run.cur) /\ steps \in Seq(Range(steps))
         /\ run.shifted \/ (run.idx <= Len(steps) /\ run.cur = steps[run.idx])
         /\ Len(run.trace) = run.idx - 1 \/ run.shifted
              \/ (run.phase = "after" /\ run.result = "recovered")
<1>1. IsARun(run) /\ SoundStep(run.cur)
  BY DEF RunInv, RunShape
<1>2. (run.phase = "after" /\ run.result = "recovered") \/ Passed(run) = run.idx - 1
  BY DEF Passed
<1>3. run.shifted \/ Underway(run)
  BY DEF Underway
<1> QED
  BY <1>1, <1>2, <1>3 DEF RunInv, TraceKept, IsARun, SoundList

LEMMA CleanupStepKeeps ==
  ASSUME SoundList(steps), RunInv(run, steps, unchecked), CleanupStep
  PROVE  RunInv(run', steps, unchecked)
<1>1. run.phase = "cleanup" /\ run.phase \in InStep
  BY DEF CleanupStep, InStep
<1>2. /\ HasFields(run) /\ run.hook \in Nat /\ run.aborts \in BOOLEAN
  BY <1>1, InStepParts
<1>3. CASE run.hook > 1
  BY <1>1, <1>3, ToldKeeps DEF CleanupStep, MoreToTell
<1>4. CASE run.hook <= 1
  <2>1. run' = RunStops(Traced(Told(run), "chain"), "chainError")
    BY <1>2, <1>4 DEF CleanupStep, MoreToTell
  <2>2. PICK m : m = Told(run)
    OBVIOUS
  <2>3. HasFields(m) /\ m.open = {} /\ \A k \in RunFields \ {"open", "hook"} : m[k] = run[k]
    BY <1>1, <1>4, <2>2, ToldKeeps
  <2>4. /\ m.idx = run.idx /\ m.dry = run.dry /\ m.shifted = run.shifted /\ m.trace = run.trace
        /\ m.aborts = run.aborts
    BY <2>3 DEF RunFields
  <2>5. /\ HasFields(run') /\ run'.phase = "done" /\ run'.hook = 0 /\ run'.entered = 0
        /\ run'.idx = m.idx /\ run'.dry = m.dry /\ run'.shifted = m.shifted /\ run'.open = m.open
        /\ Grown(run'.trace, m.trace, TraceEntry(m.cur, "chain"))
        /\ run'.aborts = (m.aborts \/ "chain" \in {"abort", "threw"})
    BY <2>1, <2>2, <2>3, TracedStops
  <2>6. run'.aborts \in BOOLEAN
    BY <2>5
  <2> QED
    BY <1>1, <2>3, <2>4, <2>5, <2>6, Ended
<1> QED
  BY <1>2, <1>3, <1>4

LEMMA BodyReturnsKeeps ==
  ASSUME SoundList(steps), RunInv(run, steps, unchecked), BodyReturns
  PROVE  RunInv(run', steps, unchecked)
<1>1. run.phase = "body" /\ run.phase \in InStep
  BY DEF BodyReturns, InStep
<1>2. HasFields(run) /\ run.entered \in Nat
  BY <1>1, InStepParts
<1>3. PICK how \in {"continue", "skip_to", "abort", "unknown"} : \E target :
        run' = [run EXCEPT !.phase = "after", !.hook = run.entered, !.result = how, !.target = target]
  BY DEF BodyReturns
<1>4. PICK target :
        run' = [run EXCEPT !.phase = "after", !.hook = run.entered, !.result = how, !.target = target]
  BY <1>3
<1>5. /\ Alters(run', run, {"phase", "hook", "result", "target"})
      /\ run'.phase = "after" /\ run'.hook = run.entered /\ run'.result = how
  BY <1>2, <1>4 DEF Alters, HasFields, RunFields
<1>6. run'.entered = run.entered /\ run'.open = run.open
  BY <1>5 DEF Alters, RunFields
<1>7. OnionKept(run')
  BY <1>1, <1>5, <1>6 DEF RunInv, OnionKept
<1>8. \A k \in {"idx", "cur", "dry", "shifted", "trace", "failed", "provided", "aborts"} : run'[k] = run[k]
  BY <1>5 DEF Alters, RunFields
<1>9. HasFields(run') /\ run'.phase \in InStep /\ how # "recovered"
  BY <1>5 DEF Alters, InStep
<1> QED
  BY <1>1, <1>2, <1>5, <1>6, <1>7, <1>8, <1>9, Stayed

LEMMA BodyThrowsKeeps ==
  ASSUME SoundList(steps), RunInv(run, steps, unchecked), BodyThrows
  PROVE  RunInv(run', steps, unchecked)
<1>1. run.phase = "body" /\ run.phase \in InStep
  BY DEF BodyThrows, InStep
<1>2. /\ HasFields(run) /\ run.entered \in Nat /\ run.aborts \in BOOLEAN /\ run.dry \in BOOLEAN
      /\ run.idx \in Nat /\ run.open = 1 .. run.entered
  BY <1>1, InStepParts DEF RunInv, OnionKept
<1>3. CASE run.dry
  <2>1. PICK m : m = [run EXCEPT !.failed = @ \cup run.cur.provides]
    OBVIOUS
  <2>2. Alters(m, run, {"failed"}) /\ m.failed = run.failed \cup run.cur.provides
    BY <1>2, <2>1 DEF Alters, HasFields, RunFields
  <2>3. /\ HasFields(m) /\ m.idx = run.idx /\ m.dry = run.dry /\ m.shifted = run.shifted
        /\ m.trace = run.trace /\ m.aborts = run.aborts /\ m.provided = run.provided /\ m.cur = run.cur
    BY <2>2 DEF Alters, RunFields
  <2>4. PICK o : o = Onwards(Traced(m, "threw"))
    OBVIOUS
  <2>5. /\ HasFields(o) /\ o.phase = "scan" /\ o.hook = 0 /\ o.entered = 0
        /\ o.idx = m.idx + 1 /\ o.dry = m.dry /\ o.shifted = m.shifted /\ o.failed = m.failed
        /\ o.open = m.open /\ o.provided = m.provided
        /\ Grown(o.trace, m.trace, TraceEntry(m.cur, "threw"))
        /\ o.aborts = (m.aborts \/ "threw" \in {"abort", "threw"})
    BY <2>3, <2>4, TracedOnwards
  <2>6. run' = [o EXCEPT !.result = "threw"]
    BY <1>3, <2>1, <2>4 DEF BodyThrows
  <2>7. Alters(run', o, {"result"}) /\ run'.result = "threw"
    BY <2>5, <2>6 DEF Alters, HasFields, RunFields
  <2>8. /\ HasFields(run') /\ run'.phase = o.phase /\ run'.hook = o.hook /\ run'.entered = o.entered
        /\ run'.idx = o.idx /\ run'.dry = o.dry /\ run'.shifted = o.shifted /\ run'.failed = o.failed
        /\ run'.open = o.open /\ run'.provided = o.provided /\ run'.trace = o.trace
        /\ run'.aborts = o.aborts
    BY <2>7 DEF Alters, RunFields
  <2>9. run'.aborts = TRUE /\ run'.dry
    BY <1>3, <2>3, <2>5, <2>8
  <2>10. run.failed \cup run.provided \cup run.cur.provides \subseteq run'.failed \cup run'.provided
    BY <2>2, <2>3, <2>5, <2>8
  <2>11. Grown(run'.trace, run.trace, TraceEntry(run.cur, "threw"))
    BY <2>3, <2>5, <2>8
  <2>12. /\ run.shifted \/ (run.idx <= Len(steps) /\ run.cur = steps[run.idx])
         /\ Len(run.trace) = run.idx - 1 \/ run.shifted
         /\ steps \in Seq(Range(steps))
    BY <1>1, InStepParts
  <2>13. /\ run'.phase = "scan" /\ run'.hook = 0 /\ run'.entered = 0 /\ run'.idx = run.idx + 1
         /\ run'.dry = run.dry /\ run'.shifted = run.shifted
    BY <2>3, <2>5, <2>8
  <2> QED
    BY <1>1, <1>3, <2>7, <2>8, <2>9, <2>10, <2>11, <2>12, <2>13, Moved
<1>4. CASE ~run.dry
  <2>1. run' = [run EXCEPT !.phase = "error", !.hook = run.entered]
    BY <1>4 DEF BodyThrows
  <2>2. Alters(run', run, {"phase", "hook"}) /\ run'.phase = "error" /\ run'.hook = run.entered
    BY <1>2, <2>1 DEF Alters, HasFields, RunFields
  <2>3. run'.entered = run.entered /\ run'.open = run.open /\ run'.dry = run.dry
    BY <2>2 DEF Alters, RunFields
  <2>4. OnionKept(run')
    BY <1>2, <2>2, <2>3 DEF OnionKept
  <2>5. \A k \in {"idx", "cur", "dry", "shifted", "trace", "failed", "provided", "aborts"} : run'[k] = run[k]
    BY <2>2 DEF Alters, RunFields
  <2>6. HasFields(run') /\ run'.phase \in InStep
    BY <2>2 DEF Alters, InStep
  <2> QED
    BY <1>1, <1>2, <1>4, <2>2, <2>3, <2>4, <2>5, <2>6, Stayed
<1> QED
  BY <1>2, <1>3, <1>4

LEMMA GateFailsLoudly ==
  ASSUME NEW s, SoundStep(s), s.ignoreErrors
  PROVE  Faced(TraceEntry(s, "ignored"))
<1>1. "ignoreErrors" \in DOMAIN s
  BY DEF SoundStep, IsAStep, StepFields
<1>2. s.gate = "no"
  BY <1>1 DEF SoundStep, GateWeakened, Weakening
<1> QED
  BY <1>2 DEF Faced, TraceEntry

LEMMA StepErrorPassesKeeps ==
  ASSUME SoundList(steps), RunInv(run, steps, unchecked), StepErrorPasses
  PROVE  RunInv(run', steps, unchecked)
<1>1. run.phase = "error" /\ run.phase \in InStep
  BY DEF StepErrorPasses, InStep
<1>2. /\ HasFields(run) /\ run.hook \in Nat /\ run.aborts \in BOOLEAN /\ run.dry \in BOOLEAN
      /\ run.idx \in Nat /\ SoundStep(run.cur)
  BY <1>1, InStepParts
<1>3. ~run.dry
  BY <1>1 DEF RunInv, RunShape
<1>4. CASE run.hook > 1
  BY <1>1, <1>4, ToldKeeps DEF StepErrorPasses
<1>5. CASE run.hook <= 1
  <2>1. PICK m : m = Told(run)
    OBVIOUS
  <2>2. HasFields(m) /\ m.open = {} /\ \A k \in RunFields \ {"open", "hook"} : m[k] = run[k]
    BY <1>1, <1>5, <2>1, ToldKeeps
  <2>3. /\ m.idx = run.idx /\ m.dry = run.dry /\ m.shifted = run.shifted /\ m.trace = run.trace
        /\ m.aborts = run.aborts /\ m.cur = run.cur
    BY <2>2 DEF RunFields
  <2>4. run' = Unrecovered(m)
    BY <1>2, <1>5, <2>1 DEF StepErrorPasses
  <2>5. CASE run.cur.ignoreErrors
    <3>1. run' = Onwards(Traced(m, "ignored"))
      BY <2>3, <2>4, <2>5 DEF Unrecovered
    <3>2. /\ HasFields(run') /\ run'.phase = "scan" /\ run'.hook = 0 /\ run'.entered = 0
          /\ run'.idx = m.idx + 1 /\ run'.dry = m.dry /\ run'.shifted = m.shifted
          /\ run'.open = m.open
          /\ Grown(run'.trace, m.trace, TraceEntry(m.cur, "ignored"))
          /\ run'.aborts = (m.aborts \/ "ignored" \in {"abort", "threw"})
      BY <2>2, <3>1, TracedOnwards
    <3>3. Faced(TraceEntry(run.cur, "ignored"))
      BY <1>2, <2>5, GateFailsLoudly
    <3>4. /\ run.shifted \/ (run.idx <= Len(steps) /\ run.cur = steps[run.idx])
          /\ Len(run.trace) = run.idx - 1 \/ run.shifted
          /\ steps \in Seq(Range(steps))
      BY <1>1, InStepParts
    <3>5. run'.aborts \in BOOLEAN
      BY <3>2
    <3> QED
      BY <1>1, <1>3, <2>2, <2>3, <3>2, <3>3, <3>4, <3>5, Moved
  <2>6. CASE ~run.cur.ignoreErrors
    <3>1. run' = RunStops(Traced(m, "error"), "stepError")
      BY <2>3, <2>4, <2>6 DEF Unrecovered
    <3>2. /\ HasFields(run') /\ run'.phase = "done" /\ run'.hook = 0 /\ run'.entered = 0
          /\ run'.idx = m.idx /\ run'.dry = m.dry /\ run'.shifted = m.shifted /\ run'.open = m.open
          /\ Grown(run'.trace, m.trace, TraceEntry(m.cur, "error"))
          /\ run'.aborts = (m.aborts \/ "error" \in {"abort", "threw"})
      BY <2>2, <3>1, TracedStops
    <3>3. run'.aborts \in BOOLEAN
      BY <3>2
    <3> QED
      BY <1>1, <2>2, <2>3, <3>2, <3>3, Ended
  <2> QED
    BY <2>5, <2>6
<1> QED
  BY <1>2, <1>4, <1>5

LEMMA StepErrorRecoversKeeps ==
  ASSUME SoundList(steps), RunInv(run, steps, unchecked), StepErrorRecovers
  PROVE  RunInv(run', steps, unchecked)
<1>1. run.phase = "error" /\ run.phase \in InStep
  BY DEF StepErrorRecovers, InStep
<1>2. /\ HasFields(run) /\ run.hook \in Nat /\ run.entered \in Nat /\ run.aborts \in BOOLEAN
      /\ run.dry \in BOOLEAN /\ run.shifted \in BOOLEAN /\ run.idx \in Nat /\ run.idx > 0
      /\ SoundStep(run.cur)
      /\ run.shifted \/ (run.idx <= Len(steps) /\ run.cur = steps[run.idx])
      /\ Len(run.trace) = run.idx - 1 \/ run.shifted
      /\ steps \in Seq(Range(steps))
  BY <1>1, InStepParts
<1>3. ~run.dry /\ run.open \subseteq 1 .. run.hook /\ run.hook <= run.entered
      /\ run.trace \in Seq(Range(run.trace))
  BY <1>1 DEF RunInv, RunShape, OnionKept, IsARun
<1>4. PICK m : m = [run EXCEPT !.phase = "after", !.hook = run.entered, !.result = "recovered"]
  OBVIOUS
<1>5. /\ Alters(m, run, {"phase", "hook", "result"})
      /\ m.phase = "after" /\ m.hook = run.entered /\ m.result = "recovered"
  BY <1>2, <1>4 DEF Alters, HasFields, RunFields
<1>6. run' = Traced(m, "recovered")
  BY <1>4 DEF StepErrorRecovers
<1>7. HasFields(m)
  BY <1>5 DEF Alters
<1>8. /\ Alters(run', m, {"trace", "aborts"})
      /\ run'.trace = Append(m.trace, TraceEntry(m.cur, "recovered"))
      /\ run'.aborts = (m.aborts \/ "recovered" \in {"abort", "threw"})
  BY <1>6, <1>7, TracedParts
<1>9. /\ HasFields(run') /\ run'.phase = "after" /\ run'.hook = run.entered
      /\ run'.result = "recovered"
  BY <1>5, <1>8 DEF Alters, RunFields
<1>10. /\ m.idx = run.idx /\ m.dry = run.dry /\ m.shifted = run.shifted /\ m.cur = run.cur
       /\ m.trace = run.trace /\ m.aborts = run.aborts /\ m.open = run.open /\ m.entered = run.entered
  BY <1>5 DEF Alters, RunFields
<1>11. /\ run'.idx = run.idx /\ run'.dry = run.dry /\ run'.shifted = run.shifted /\ run'.cur = run.cur
       /\ run'.open = run.open /\ run'.entered = run.entered
  BY <1>8, <1>10 DEF Alters, RunFields
<1>12. Grown(run'.trace, run.trace, TraceEntry(run.cur, "recovered"))
  BY <1>8, <1>10 DEF Grown
<1>13. /\ run'.trace \in Seq(Range(run'.trace))
       /\ Len(run.trace) \in Nat /\ DOMAIN run.trace = 1 .. Len(run.trace)
       /\ Len(run'.trace) = Len(run.trace) + 1 /\ DOMAIN run'.trace = 1 .. (Len(run.trace) + 1)
       /\ run'.trace[Len(run.trace) + 1] = TraceEntry(run.cur, "recovered")
       /\ \A i \in DOMAIN run.trace : run'.trace[i] = run.trace[i]
  BY <1>3, <1>12, GrownParts
<1>14. \A i \in DOMAIN run'.trace : i \in DOMAIN run.trace \/ i = Len(run.trace) + 1
  BY <1>13
<1>15. RunShape(run')
  <2>1. run'.idx \in Nat /\ run'.idx > 0 /\ run'.hook \in Nat /\ run'.entered \in Nat
    BY <1>2, <1>9, <1>11
  <2>2. run'.dry \in BOOLEAN /\ run'.shifted \in BOOLEAN /\ run'.aborts \in BOOLEAN
    BY <1>2, <1>8, <1>11
  <2>3. IsARun(run')
    BY <1>9, <1>13, <2>1, <2>2 DEF IsARun
  <2> QED
    BY <1>2, <1>3, <1>9, <1>11, <2>3 DEF RunShape, InStep
<1>16. OnionKept(run')
  BY <1>2, <1>3, <1>9, <1>11 DEF OnionKept
<1>17. GatesKept(run')
  <2>1. \A i \in DOMAIN run.trace : Faced(run.trace[i])
    BY <1>1, <1>3 DEF RunInv, GatesKept
  <2>2. Faced(TraceEntry(run.cur, "recovered"))
    BY DEF Faced, TraceEntry
  <2> QED
    BY <1>13, <1>14, <2>1, <2>2 DEF GatesKept
<1>18. TraceKept(run', steps)
  <2>1. SUFFICES ASSUME Underway(run')
        PROVE  /\ Len(steps) > 0 /\ Len(run'.trace) = Passed(run') /\ Passed(run') <= Len(steps)
               /\ \A i \in DOMAIN run'.trace : run'.trace[i].name = steps[i].name
               /\ run'.idx <= Len(steps) /\ run'.cur = steps[run'.idx]
    BY DEF TraceKept
  <2>2. Underway(run) /\ ~run.shifted /\ Passed(run') = run.idx
    BY <1>1, <1>2, <1>9, <1>11, <2>1 DEF Underway, Passed
  <2>3. \A i \in DOMAIN run.trace : run.trace[i].name = steps[i].name
    BY <2>2 DEF RunInv, TraceKept
  <2>4. TraceEntry(run.cur, "recovered").name = run.cur.name
    BY DEF TraceEntry
  <2>5. Len(run.trace) + 1 = run.idx /\ run.cur = steps[run.idx] /\ run.idx <= Len(steps)
    BY <1>2, <2>2
  <2>6. run'.trace[Len(run.trace) + 1].name = steps[Len(run.trace) + 1].name
    BY <1>13, <2>4, <2>5
  <2>7. \A i \in DOMAIN run'.trace : run'.trace[i].name = steps[i].name
    BY <1>13, <1>14, <2>3, <2>6
  <2>8. Len(steps) > 0
    BY <2>2 DEF RunInv, TraceKept
  <2> QED
    BY <1>11, <1>13, <2>2, <2>5, <2>7, <2>8
<1>19. DryKept(run', steps, unchecked)
  BY <1>3, <1>11 DEF DryKept
<1> QED
  BY <1>15, <1>16, <1>17, <1>18, <1>19 DEF RunInv

LEMMA CompletedParts ==
  ASSUME NEW r, HasFields(r), NEW n, n = Completed(r)
  PROVE  /\ Alters(n, r, {"provided"})
         /\ r.dry => n.provided = r.provided \cup r.cur.provides
         /\ ~r.dry => n.provided = r.provided
  BY DEF Completed, Alters, HasFields, RunFields

LEMMA TraceJoins ==
  ASSUME NEW a, a \in Seq(Range(a)), NEW b, b \in Seq(Range(b))
  PROVE  /\ a \o b \in Seq(Range(a \o b)) /\ Len(a) \in Nat /\ Len(b) \in Nat
         /\ Len(a \o b) = Len(a) + Len(b)
         /\ \A i \in DOMAIN a : (a \o b)[i] = a[i]
         /\ \A j \in DOMAIN b : (a \o b)[Len(a) + j] = b[j]
         /\ \A i \in DOMAIN (a \o b) : i \in DOMAIN a \/ \E j \in DOMAIN b : i = Len(a) + j
<1> DEFINE S == Range(a) \cup Range(b)
<1>1. a \in Seq(S) /\ b \in Seq(S)
  <2>1. Range(a) \subseteq S /\ Range(b) \subseteq S
    OBVIOUS
  <2> QED
    BY <2>1, SeqDef
<1> HIDE DEF S
<1>2. /\ a \o b \in Seq(S) /\ Len(a \o b) = Len(a) + Len(b)
      /\ \A i \in 1 .. Len(a) + Len(b) : (a \o b)[i] = IF i <= Len(a) THEN a[i] ELSE b[i - Len(a)]
  BY <1>1, ConcatProperties
<1>3. /\ Len(a) \in Nat /\ Len(b) \in Nat /\ DOMAIN a = 1 .. Len(a) /\ DOMAIN b = 1 .. Len(b)
      /\ DOMAIN (a \o b) = 1 .. (Len(a) + Len(b))
  BY <1>1, <1>2, LenProperties
<1>4. a \o b \in Seq(Range(a \o b))
  BY <1>2, SeqOfItsRange
<1>5. PICK c : c = a \o b
  OBVIOUS
<1>6. \A i \in DOMAIN a : c[i] = a[i]
  <2>1. SUFFICES ASSUME NEW i \in DOMAIN a PROVE c[i] = a[i]
    OBVIOUS
  <2>2. i \in 1 .. Len(a) + Len(b) /\ i <= Len(a)
    BY <1>3
  <2> QED
    BY <1>2, <1>5, <2>2
<1>7. \A j \in DOMAIN b : c[Len(a) + j] = b[j]
  <2>1. SUFFICES ASSUME NEW j \in DOMAIN b PROVE c[Len(a) + j] = b[j]
    OBVIOUS
  <2>2. Len(a) + j \in 1 .. Len(a) + Len(b) /\ ~(Len(a) + j <= Len(a)) /\ Len(a) + j - Len(a) = j
    BY <1>3
  <2> QED
    BY <1>2, <1>5, <2>2
<1>8. \A i \in DOMAIN c : i \in DOMAIN a \/ \E j \in DOMAIN b : i = Len(a) + j
  <2>1. SUFFICES ASSUME NEW i \in DOMAIN c, i \notin DOMAIN a PROVE \E j \in DOMAIN b : i = Len(a) + j
    OBVIOUS
  <2>2. i \in 1 .. (Len(a) + Len(b)) /\ ~(i <= Len(a))
    BY <1>3, <1>5, <2>1
  <2>3. i - Len(a) \in DOMAIN b /\ i = Len(a) + (i - Len(a))
    BY <1>3, <2>2
  <2> QED
    BY <2>3
<1> QED
  BY <1>2, <1>3, <1>4, <1>5, <1>6, <1>7, <1>8

Marks(r) ==
  [k \in 1 .. (StepIndex(steps, r.target) - r.idx - 1) |-> TraceEntry(steps[r.idx + k], "jumped")]

LEMMA JumpParts ==
  ASSUME NEW r, HasFields(r), NEW n, n = JumpTo(r)
  PROVE  /\ HasFields(n) /\ n.phase = "scan" /\ n.hook = 0 /\ n.entered = 0 /\ n.result = "continue"
         /\ n.idx = StepIndex(steps, r.target) /\ n.trace = r.trace \o Marks(r)
         /\ n.dry = r.dry /\ n.shifted = r.shifted /\ n.aborts = r.aborts /\ n.open = r.open
<1>1. PICK m : m = Leaves(r)
  OBVIOUS
<1>2. /\ Alters(m, r, {"phase", "cur", "hook", "entered", "result", "target"})
      /\ m.phase = "scan" /\ m.hook = 0 /\ m.entered = 0 /\ m.result = "continue"
  BY <1>1, LeavesParts
<1>3. HasFields(m)
  BY <1>2 DEF Alters
<1>4. n = [m EXCEPT !.idx = StepIndex(steps, r.target), !.trace = @ \o Marks(r)]
  BY <1>1 DEF JumpTo, Marks
<1>5. /\ Alters(n, m, {"idx", "trace"}) /\ n.idx = StepIndex(steps, r.target)
      /\ n.trace = m.trace \o Marks(r)
  BY <1>3, <1>4 DEF Alters, HasFields, RunFields
<1>6. /\ n.phase = m.phase /\ n.hook = m.hook /\ n.entered = m.entered /\ n.result = m.result
      /\ n.dry = m.dry /\ n.shifted = m.shifted /\ n.aborts = m.aborts /\ n.open = m.open
  BY <1>5 DEF Alters, RunFields
<1>7. /\ m.dry = r.dry /\ m.shifted = r.shifted /\ m.aborts = r.aborts /\ m.open = r.open
      /\ m.trace = r.trace
  BY <1>2 DEF Alters, RunFields
<1> QED
  BY <1>2, <1>5, <1>6, <1>7 DEF Alters

\* A step of a real run has been told to all, with nobody left to tell.
Settled(m) ==
  /\ HasFields(m) /\ m.open = {} /\ \A k \in RunFields \ {"open", "hook"} : m[k] = run[k]

LEMMA SettledParts ==
  ASSUME NEW m, Settled(m)
  PROVE  /\ HasFields(m) /\ m.open = {} /\ m.idx = run.idx /\ m.dry = run.dry
         /\ m.shifted = run.shifted /\ m.trace = run.trace /\ m.aborts = run.aborts /\ m.cur = run.cur
         /\ m.provided = run.provided /\ m.failed = run.failed /\ m.result = run.result
         /\ m.target = run.target
  BY DEF Settled, RunFields

LEMMA RealDone ==
  ASSUME NEW m, Settled(m), ~run.dry, NEW d, d = Completed(Traced(m, "continue"))
  PROVE  /\ HasFields(d) /\ d.open = {} /\ d.idx = run.idx /\ d.dry = run.dry
         /\ d.shifted = run.shifted /\ d.target = run.target
         /\ d.trace = Append(run.trace, TraceEntry(run.cur, "continue"))
         /\ d.aborts = (run.aborts \/ "continue" \in {"abort", "threw"})
<1>1. PICK t : t = Traced(m, "continue")
  OBVIOUS
<1>2. /\ HasFields(m) /\ m.open = {} /\ m.idx = run.idx /\ m.dry = run.dry
      /\ m.shifted = run.shifted /\ m.trace = run.trace /\ m.aborts = run.aborts /\ m.cur = run.cur
      /\ m.target = run.target
  BY SettledParts
<1>3. /\ Alters(t, m, {"trace", "aborts"}) /\ t.trace = Append(m.trace, TraceEntry(m.cur, "continue"))
      /\ t.aborts = (m.aborts \/ "continue" \in {"abort", "threw"})
  BY <1>1, <1>2, TracedParts
<1>4. HasFields(t)
  BY <1>3 DEF Alters
<1>5. d = Completed(t)
  BY <1>1
<1>6. Alters(d, t, {"provided"})
  BY <1>4, <1>5, CompletedParts
<1>7. /\ t.open = m.open /\ t.idx = m.idx /\ t.dry = m.dry /\ t.shifted = m.shifted /\ t.target = m.target
  BY <1>3 DEF Alters, RunFields
<1>8. /\ d.open = t.open /\ d.idx = t.idx /\ d.dry = t.dry /\ d.shifted = t.shifted
      /\ d.target = t.target /\ d.trace = t.trace /\ d.aborts = t.aborts
  BY <1>6 DEF Alters, RunFields
<1> QED
  BY <1>2, <1>3, <1>6, <1>7, <1>8 DEF Alters

LEMMA RecoveredSettles ==
  ASSUME SoundList(steps), RunInv(run, steps, unchecked), run.phase = "after",
         run.result = "recovered", NEW m, Settled(m), NEW n, n = Onwards(m)
  PROVE  RunInv(n, steps, unchecked)
<1>1. /\ HasFields(m) /\ m.open = {} /\ m.idx = run.idx /\ m.dry = run.dry
      /\ m.shifted = run.shifted /\ m.trace = run.trace /\ m.aborts = run.aborts
  BY SettledParts
<1>2. /\ Alters(n, m, {"phase", "cur", "hook", "entered", "result", "target", "idx"})
      /\ n.phase = "scan" /\ n.hook = 0 /\ n.entered = 0 /\ n.idx = m.idx + 1
  BY <1>1, OnwardsParts
<1>3. /\ n.dry = m.dry /\ n.shifted = m.shifted /\ n.trace = m.trace /\ n.aborts = m.aborts
      /\ n.open = m.open
  BY <1>2 DEF Alters, RunFields
<1>4. IsARun(run) /\ ~run.dry
  BY DEF RunInv, RunShape
<1>5. /\ n.idx \in Nat /\ n.idx > 0 /\ Passed(n) = run.idx /\ Passed(run) = run.idx
  BY <1>1, <1>2, <1>4 DEF IsARun, Passed
<1>6. IsARun(n)
  <2>1. n.hook \in Nat /\ n.entered \in Nat
    BY <1>2
  <2>2. n.dry \in BOOLEAN /\ n.shifted \in BOOLEAN /\ n.aborts \in BOOLEAN
    BY <1>1, <1>3, <1>4 DEF IsARun
  <2>3. n.trace \in Seq(Range(n.trace))
    BY <1>1, <1>3, <1>4 DEF IsARun
  <2>4. HasFields(n)
    BY <1>2 DEF Alters
  <2> QED
    BY <1>5, <2>1, <2>2, <2>3, <2>4 DEF IsARun
<1>7. RunShape(n)
  BY <1>2, <1>6 DEF RunShape, InStep
<1>8. OnionKept(n)
  BY <1>1, <1>2, <1>3 DEF OnionKept
<1>9. GatesKept(n)
  BY <1>1, <1>3 DEF RunInv, GatesKept
<1>10. TraceKept(n, steps)
  <2>1. Underway(n) => Underway(run)
    BY <1>1, <1>3 DEF Underway, InStep
  <2> QED
    BY <1>1, <1>2, <1>3, <1>5, <2>1 DEF RunInv, TraceKept, InStep
<1>11. DryKept(n, steps, unchecked)
  BY <1>1, <1>3, <1>4 DEF DryKept
<1> QED
  BY <1>7, <1>8, <1>9, <1>10, <1>11 DEF RunInv

LEMMA DryAborts ==
  ASSUME SoundList(steps), RunInv(run, steps, unchecked), run.phase = "after", run.dry,
         run.result # "recovered", NEW m, Settled(m), NEW n,
         n = Onwards(Traced([m EXCEPT !.failed = @ \cup m.cur.provides], "abort"))
  PROVE  RunInv(n, steps, unchecked)
<1>0. PICK x : x = n
  OBVIOUS
<1>1. /\ HasFields(m) /\ m.open = {} /\ m.idx = run.idx /\ m.dry = run.dry
      /\ m.shifted = run.shifted /\ m.trace = run.trace /\ m.aborts = run.aborts /\ m.cur = run.cur
      /\ m.provided = run.provided /\ m.failed = run.failed
  BY SettledParts
<1>2. PICK w : w = [m EXCEPT !.failed = @ \cup m.cur.provides]
  OBVIOUS
<1>3. Alters(w, m, {"failed"}) /\ w.failed = m.failed \cup m.cur.provides
  BY <1>1, <1>2 DEF Alters, HasFields, RunFields
<1>4. /\ HasFields(w) /\ w.open = m.open /\ w.idx = m.idx /\ w.dry = m.dry /\ w.shifted = m.shifted
      /\ w.trace = m.trace /\ w.aborts = m.aborts /\ w.cur = m.cur /\ w.provided = m.provided
  BY <1>3 DEF Alters, RunFields
<1>5. x = Onwards(Traced(w, "abort"))
  BY <1>0, <1>2
<1>6. /\ HasFields(x) /\ x.phase = "scan" /\ x.hook = 0 /\ x.entered = 0
      /\ x.idx = w.idx + 1 /\ x.dry = w.dry /\ x.shifted = w.shifted /\ x.failed = w.failed
      /\ x.open = w.open /\ x.provided = w.provided
      /\ Grown(x.trace, w.trace, TraceEntry(w.cur, "abort"))
      /\ x.aborts = (w.aborts \/ "abort" \in {"abort", "threw"})
  BY <1>4, <1>5, TracedOnwards
<1>7. run.failed \cup run.provided \cup run.cur.provides \subseteq x.failed \cup x.provided
  BY <1>1, <1>3, <1>4, <1>6
<1>8. x.aborts \in BOOLEAN
  BY <1>6
<1>9. /\ run.phase \in InStep
      /\ run.shifted \/ (run.idx <= Len(steps) /\ run.cur = steps[run.idx])
      /\ Len(run.trace) = run.idx - 1 \/ run.shifted
      /\ steps \in Seq(Range(steps))
  BY InStepParts DEF InStep
<1>10. /\ x.idx = run.idx + 1 /\ x.dry = run.dry /\ x.shifted = run.shifted /\ x.open = {}
       /\ Grown(x.trace, run.trace, TraceEntry(run.cur, "abort"))
  BY <1>1, <1>4, <1>6
<1>11. HasFields(x) /\ x.phase = "scan" /\ x.hook = 0 /\ x.entered = 0
  BY <1>6
<1>12. RunInv(x, steps, unchecked)
  BY <1>7, <1>8, <1>9, <1>10, <1>11, Moved
<1> QED
  BY <1>0, <1>12

LEMMA DryCompletes ==
  ASSUME SoundList(steps), RunInv(run, steps, unchecked), run.phase = "after", run.dry,
         run.result # "recovered", NEW m, Settled(m), NEW n,
         n = Onwards(Traced(Completed([m EXCEPT !.failed = @ \ m.cur.provides]), "continue"))
  PROVE  RunInv(n, steps, unchecked)
<1>0. PICK x : x = n
  OBVIOUS
<1>1. /\ HasFields(m) /\ m.open = {} /\ m.idx = run.idx /\ m.dry = run.dry
      /\ m.shifted = run.shifted /\ m.trace = run.trace /\ m.aborts = run.aborts /\ m.cur = run.cur
      /\ m.provided = run.provided /\ m.failed = run.failed
  BY SettledParts
<1>2. PICK f : f = [m EXCEPT !.failed = @ \ m.cur.provides]
  OBVIOUS
<1>3. Alters(f, m, {"failed"}) /\ f.failed = m.failed \ m.cur.provides
  BY <1>1, <1>2 DEF Alters, HasFields, RunFields
<1>4. /\ HasFields(f) /\ f.open = m.open /\ f.idx = m.idx /\ f.dry = m.dry /\ f.shifted = m.shifted
      /\ f.trace = m.trace /\ f.aborts = m.aborts /\ f.cur = m.cur /\ f.provided = m.provided
  BY <1>3 DEF Alters, RunFields
<1>5. PICK w : w = Completed(f)
  OBVIOUS
<1>6. Alters(w, f, {"provided"}) /\ (f.dry => w.provided = f.provided \cup f.cur.provides)
  BY <1>4, <1>5, CompletedParts
<1>7. /\ HasFields(w) /\ w.open = f.open /\ w.idx = f.idx /\ w.dry = f.dry /\ w.shifted = f.shifted
      /\ w.trace = f.trace /\ w.aborts = f.aborts /\ w.cur = f.cur /\ w.failed = f.failed
  BY <1>6 DEF Alters, RunFields
<1>8. x = Onwards(Traced(w, "continue"))
  BY <1>0, <1>2, <1>5
<1>9. /\ HasFields(x) /\ x.phase = "scan" /\ x.hook = 0 /\ x.entered = 0
      /\ x.idx = w.idx + 1 /\ x.dry = w.dry /\ x.shifted = w.shifted /\ x.failed = w.failed
      /\ x.open = w.open /\ x.provided = w.provided
      /\ Grown(x.trace, w.trace, TraceEntry(w.cur, "continue"))
      /\ x.aborts = (w.aborts \/ "continue" \in {"abort", "threw"})
  BY <1>7, <1>8, TracedOnwards
<1>15. f.cur = run.cur /\ f.provided = run.provided /\ f.dry
  BY <1>1, <1>4
<1>16. w.provided = run.provided \cup run.cur.provides
  BY <1>6, <1>15
<1>17. w.failed = run.failed \ run.cur.provides
  BY <1>1, <1>3, <1>7
<1>10. x.failed = run.failed \ run.cur.provides /\ x.provided = run.provided \cup run.cur.provides
  BY <1>9, <1>16, <1>17
<1>18. w.idx = run.idx /\ w.dry = run.dry /\ w.shifted = run.shifted /\ w.open = {}
  BY <1>1, <1>4, <1>7
<1>19. w.trace = run.trace /\ w.cur = run.cur
  BY <1>1, <1>4, <1>7
<1>11. run.failed \cup run.provided \cup run.cur.provides \subseteq x.failed \cup x.provided
  BY <1>10
<1>12. x.aborts \in BOOLEAN
  BY <1>9
<1>13. /\ run.phase \in InStep
       /\ run.shifted \/ (run.idx <= Len(steps) /\ run.cur = steps[run.idx])
       /\ Len(run.trace) = run.idx - 1 \/ run.shifted
       /\ steps \in Seq(Range(steps))
  BY InStepParts DEF InStep
<1>14. /\ x.idx = run.idx + 1 /\ x.dry = run.dry /\ x.shifted = run.shifted /\ x.open = {}
       /\ Grown(x.trace, run.trace, TraceEntry(run.cur, "continue"))
  BY <1>9, <1>18, <1>19
<1>20. HasFields(x) /\ x.phase = "scan" /\ x.hook = 0 /\ x.entered = 0
  BY <1>9
<1>21. RunInv(x, steps, unchecked)
  BY <1>11, <1>12, <1>13, <1>14, <1>20, Moved
<1> QED
  BY <1>0, <1>21

LEMMA RealContinues ==
  ASSUME SoundList(steps), RunInv(run, steps, unchecked), run.phase = "after", ~run.dry,
         run.result # "recovered", NEW m, Settled(m), NEW n,
         n = Onwards(Completed(Traced(m, "continue")))
  PROVE  RunInv(n, steps, unchecked)
<1>1. PICK d : d = Completed(Traced(m, "continue"))
  OBVIOUS
<1>2. /\ HasFields(d) /\ d.open = {} /\ d.idx = run.idx /\ d.dry = run.dry
      /\ d.shifted = run.shifted
      /\ d.trace = Append(run.trace, TraceEntry(run.cur, "continue"))
      /\ d.aborts = (run.aborts \/ "continue" \in {"abort", "threw"})
  BY <1>1, RealDone
<1>3. n = Onwards(d)
  BY <1>1
<1>4. /\ Alters(n, d, {"phase", "cur", "hook", "entered", "result", "target", "idx"})
      /\ n.phase = "scan" /\ n.hook = 0 /\ n.entered = 0 /\ n.idx = d.idx + 1
  BY <1>2, <1>3, OnwardsParts
<1>5. /\ HasFields(n) /\ n.dry = d.dry /\ n.shifted = d.shifted /\ n.trace = d.trace
      /\ n.aborts = d.aborts /\ n.open = d.open
  BY <1>4 DEF Alters, RunFields
<1>6. Grown(n.trace, run.trace, TraceEntry(run.cur, "continue"))
  BY <1>2, <1>5 DEF Grown
<1>7. Faced(TraceEntry(run.cur, "continue"))
  BY DEF Faced, TraceEntry
<1>8. n.aborts \in BOOLEAN
  BY <1>2, <1>5
<1>9. /\ run.phase \in InStep
      /\ run.shifted \/ (run.idx <= Len(steps) /\ run.cur = steps[run.idx])
      /\ Len(run.trace) = run.idx - 1 \/ run.shifted
      /\ steps \in Seq(Range(steps))
  BY InStepParts DEF InStep
<1>10. n.idx = run.idx + 1 /\ n.dry = run.dry /\ n.shifted = run.shifted /\ n.open = {}
  BY <1>2, <1>4, <1>5
<1> QED
  BY <1>4, <1>5, <1>6, <1>7, <1>8, <1>9, <1>10, Moved

LEMMA RealStops ==
  ASSUME SoundList(steps), RunInv(run, steps, unchecked), run.phase = "after", ~run.dry,
         NEW m, Settled(m), NEW outcome, NEW n,
         \/ n = RunStops(Completed(Traced(m, "continue")), outcome)
         \/ n = RunStops(Traced(m, "abort"), outcome)
  PROVE  RunInv(n, steps, unchecked)
<1>1. run.phase \in InStep /\ run.aborts \in BOOLEAN
  BY InStepParts DEF InStep
<1>2. CASE n = RunStops(Completed(Traced(m, "continue")), outcome)
  <2>1. PICK d : d = Completed(Traced(m, "continue"))
    OBVIOUS
  <2>2. /\ HasFields(d) /\ d.open = {} /\ d.idx = run.idx /\ d.dry = run.dry
        /\ d.shifted = run.shifted
        /\ d.trace = Append(run.trace, TraceEntry(run.cur, "continue"))
        /\ d.aborts = (run.aborts \/ "continue" \in {"abort", "threw"})
    BY <2>1, RealDone
  <2>3. n = RunStops(d, outcome)
    BY <1>2, <2>1
  <2>4. /\ Alters(n, d, {"phase", "cur", "hook", "entered", "result", "target", "outcome"})
        /\ n.phase = "done" /\ n.hook = 0 /\ n.entered = 0
    BY <2>2, <2>3, RunStopsParts
  <2>5. /\ HasFields(n) /\ n.dry = d.dry /\ n.shifted = d.shifted /\ n.trace = d.trace
        /\ n.aborts = d.aborts /\ n.open = d.open /\ n.idx = d.idx
    BY <2>4 DEF Alters, RunFields
  <2>6. Grown(n.trace, run.trace, TraceEntry(run.cur, "continue"))
    BY <2>2, <2>5 DEF Grown
  <2>7. n.aborts \in BOOLEAN
    BY <2>2, <2>5
  <2>8. n.idx = run.idx /\ n.dry = run.dry /\ n.shifted = run.shifted /\ n.open = {}
    BY <2>2, <2>5
  <2> QED
    BY <1>1, <2>4, <2>5, <2>6, <2>7, <2>8, Ended
<1>3. CASE n = RunStops(Traced(m, "abort"), outcome)
  <2>1. /\ HasFields(m) /\ m.open = {} /\ m.idx = run.idx /\ m.dry = run.dry
        /\ m.shifted = run.shifted /\ m.trace = run.trace
    BY SettledParts
  <2>2. /\ HasFields(n) /\ n.phase = "done" /\ n.hook = 0 /\ n.entered = 0
        /\ n.idx = m.idx /\ n.dry = m.dry /\ n.shifted = m.shifted /\ n.open = m.open
        /\ Grown(n.trace, m.trace, TraceEntry(m.cur, "abort"))
        /\ n.aborts = (m.aborts \/ "abort" \in {"abort", "threw"})
    BY <1>3, <2>1, TracedStops
  <2>3. n.aborts \in BOOLEAN
    BY <2>2
  <2>4. /\ n.idx = run.idx /\ n.dry = run.dry /\ n.shifted = run.shifted /\ n.open = {}
        /\ Grown(n.trace, run.trace, TraceEntry(m.cur, "abort"))
    BY <2>1, <2>2
  <2> QED
    BY <1>1, <2>2, <2>3, <2>4, Ended
<1> QED
  BY <1>2, <1>3

LEMMA MarksParts ==
  ASSUME NEW r, NEW K \in Nat, StepIndex(steps, r.target) - r.idx - 1 = K, NEW b, b = Marks(r)
  PROVE  /\ b \in Seq(Range(b)) /\ Len(b) = K /\ DOMAIN b = 1 .. K
         /\ \A j \in 1 .. K : b[j] = TraceEntry(steps[r.idx + j], "jumped")
<1>1. b = [k \in 1 .. K |-> TraceEntry(steps[r.idx + k], "jumped")]
  BY DEF Marks
<1>2. b \in [1 .. K -> Range(b)]
  BY <1>1 DEF Range
<1>3. b \in Seq(Range(b))
  BY <1>2, SeqDef
<1>4. Len(b) = K
  BY <1>1, <1>3, LenProperties
<1> QED
  BY <1>1, <1>3, <1>4

LEMMA RealJumps ==
  ASSUME SoundList(steps), RunInv(run, steps, unchecked), run.phase = "after", ~run.dry,
         run.result # "recovered", Has(steps, run.target), StepIndex(steps, run.target) > run.idx,
         NEW m, Settled(m), NEW n, n = JumpTo(Completed(Traced(m, "continue")))
  PROVE  RunInv(n, steps, unchecked)
<1>0. PICK x : x = n
  OBVIOUS
<1> DEFINE to == StepIndex(steps, run.target)
           K  == to - run.idx - 1
           e  == TraceEntry(run.cur, "continue")
<1>1. PICK d : d = Completed(Traced(m, "continue"))
  OBVIOUS
<1>2. /\ HasFields(d) /\ d.open = {} /\ d.idx = run.idx /\ d.dry = run.dry
      /\ d.shifted = run.shifted /\ d.target = run.target
      /\ d.trace = Append(run.trace, TraceEntry(run.cur, "continue"))
      /\ d.aborts = (run.aborts \/ "continue" \in {"abort", "threw"})
  BY <1>1, RealDone
<1>3. /\ run.phase \in InStep /\ run.idx \in Nat /\ run.idx > 0
      /\ run.shifted \in BOOLEAN
      /\ run.shifted \/ (run.idx <= Len(steps) /\ run.cur = steps[run.idx])
      /\ Len(run.trace) = run.idx - 1 \/ run.shifted
      /\ steps \in Seq(Range(steps))
  BY InStepParts DEF InStep
<1>4. to \in DOMAIN steps /\ DOMAIN steps = 1 .. Len(steps) /\ Len(steps) \in Nat
  BY <1>3, IndexOfName, ListParts DEF SoundList
<1>5. to \in Nat /\ to > run.idx /\ to <= Len(steps)
  BY <1>4
<1>6. K \in Nat
  BY <1>3, <1>5
<1>7. x = JumpTo(d)
  BY <1>0, <1>1
<1>8. /\ HasFields(x) /\ x.phase = "scan" /\ x.hook = 0 /\ x.entered = 0 /\ x.result = "continue"
      /\ x.idx = StepIndex(steps, d.target) /\ x.trace = d.trace \o Marks(d)
      /\ x.dry = d.dry /\ x.shifted = d.shifted /\ x.aborts = d.aborts /\ x.open = d.open
  <2>1. HasFields(d)
    BY <1>2
  <2> QED
    BY <2>1, <1>7, JumpParts
<1>9. PICK b : b = Marks(d)
  OBVIOUS
<1>10. StepIndex(steps, d.target) - d.idx - 1 = K
  BY <1>2
<1>11. x.idx = to
  BY <1>2, <1>8
<1> HIDE DEF to, K, e
<1>12. /\ b \in Seq(Range(b)) /\ Len(b) = K /\ DOMAIN b = 1 .. K
       /\ \A j \in 1 .. K : b[j] = TraceEntry(steps[d.idx + j], "jumped")
  BY <1>6, <1>9, <1>10, MarksParts
<1>13. Grown(d.trace, run.trace, e)
  BY <1>2 DEF Grown, e
<1>14. run.trace \in Seq(Range(run.trace))
  BY DEF RunInv, RunShape, IsARun
<1>15. /\ d.trace \in Seq(Range(d.trace))
       /\ Len(run.trace) \in Nat /\ DOMAIN run.trace = 1 .. Len(run.trace)
       /\ Len(d.trace) = Len(run.trace) + 1 /\ DOMAIN d.trace = 1 .. (Len(run.trace) + 1)
       /\ d.trace[Len(run.trace) + 1] = e /\ \A i \in DOMAIN run.trace : d.trace[i] = run.trace[i]
  BY <1>13, <1>14, GrownParts
<1>16. /\ x.trace \in Seq(Range(x.trace))
       /\ Len(x.trace) = Len(d.trace) + Len(b)
       /\ \A i \in DOMAIN d.trace : x.trace[i] = d.trace[i]
       /\ \A j \in DOMAIN b : x.trace[Len(d.trace) + j] = b[j]
       /\ \A i \in DOMAIN x.trace : i \in DOMAIN d.trace \/ \E j \in DOMAIN b : i = Len(d.trace) + j
  <2>1. PICK a : a = d.trace
    OBVIOUS
  <2>2. PICK y : y = x.trace
    OBVIOUS
  <2>3. y = a \o b
    BY <1>8, <1>9, <2>1, <2>2
  <2>4. a \in Seq(Range(a)) /\ b \in Seq(Range(b))
    BY <1>12, <1>15, <2>1
  <2>5. /\ y \in Seq(Range(y)) /\ Len(y) = Len(a) + Len(b)
        /\ \A i \in DOMAIN a : y[i] = a[i]
        /\ \A j \in DOMAIN b : y[Len(a) + j] = b[j]
        /\ \A i \in DOMAIN y : i \in DOMAIN a \/ \E j \in DOMAIN b : i = Len(a) + j
    BY <2>3, <2>4, TraceJoins
  <2> QED
    BY <2>1, <2>2, <2>5
<1>17. x.dry = run.dry /\ x.shifted = run.shifted /\ x.open = {} /\ x.aborts \in BOOLEAN
  BY <1>2, <1>8
<1>18. \A i \in DOMAIN d.trace : i \in DOMAIN run.trace \/ i = Len(run.trace) + 1
  BY <1>15
<1>19. RunShape(x)
  <2>1. x.idx \in Nat /\ x.idx > 0 /\ x.hook \in Nat /\ x.entered \in Nat
    BY <1>3, <1>5, <1>8, <1>11
  <2>2. x.dry \in BOOLEAN /\ x.shifted \in BOOLEAN
    BY <1>17 DEF RunInv, RunShape, IsARun
  <2>3. IsARun(x)
    BY <1>8, <1>16, <1>17, <2>1, <2>2 DEF IsARun
  <2> QED
    BY <1>8, <2>3 DEF RunShape, InStep
<1>20. OnionKept(x)
  BY <1>8, <1>17 DEF OnionKept
<1>21. GatesKept(x)
  <2>1. \A i \in DOMAIN run.trace : Faced(run.trace[i])
    BY DEF RunInv, GatesKept
  <2>2. Faced(e)
    BY DEF Faced, TraceEntry, e
  <2>3. \A i \in DOMAIN d.trace : Faced(d.trace[i])
    BY <1>15, <1>18, <2>1, <2>2
  <2>4. \A s : Faced(TraceEntry(s, "jumped"))
    BY DEF Faced, TraceEntry
  <2>5. \A j \in DOMAIN b : Faced(b[j])
    BY <1>12, <2>4
  <2>6. \A i \in DOMAIN x.trace : Faced(x.trace[i])
    BY <1>16, <2>3, <2>5
  <2> QED
    BY <2>6 DEF GatesKept
<1>22. TraceKept(x, steps)
  <2>1. Passed(x) = to - 1 /\ x.phase \notin InStep
    BY <1>8, <1>11 DEF Passed, InStep
  <2>2. SUFFICES ASSUME Underway(x)
        PROVE  /\ Len(steps) > 0 /\ Len(x.trace) = to - 1 /\ to - 1 <= Len(steps)
               /\ \A i \in DOMAIN x.trace : x.trace[i].name = steps[i].name
    BY <2>1 DEF TraceKept
  <2>3. Underway(run)
    BY <1>3, <1>17, <2>2 DEF Underway
  <2>4. \A i \in DOMAIN run.trace : run.trace[i].name = steps[i].name
    BY <2>3 DEF RunInv, TraceKept
  <2>5. Len(run.trace) + 1 = run.idx /\ run.cur = steps[run.idx]
    BY <1>3, <2>3 DEF Underway
  <2>6. e.name = run.cur.name /\ \A s : TraceEntry(s, "jumped").name = s.name
    BY DEF TraceEntry, e
  <2>7. \A i \in DOMAIN d.trace : d.trace[i].name = steps[i].name
    BY <1>15, <1>18, <2>4, <2>5, <2>6
  <2>8. Len(d.trace) = run.idx
    BY <1>15, <2>5
  <2>9. \A j \in DOMAIN b : b[j].name = steps[run.idx + j].name
    BY <1>2, <1>12, <2>6
  <2>10. \A i \in DOMAIN x.trace : x.trace[i].name = steps[i].name
    BY <1>16, <2>7, <2>8, <2>9
  <2>11. Len(x.trace) = to - 1
    BY <1>3, <1>5, <1>12, <1>16, <2>8 DEF K
  <2> QED
    BY <1>4, <1>5, <2>10, <2>11
<1>23. DryKept(x, steps, unchecked)
  BY <1>17 DEF DryKept
<1>24. RunInv(x, steps, unchecked)
  BY <1>19, <1>20, <1>21, <1>22, <1>23 DEF RunInv
<1> QED
  BY <1>0, <1>24

LEMMA AfterStepKeeps ==
  ASSUME SoundList(steps), RunInv(run, steps, unchecked), AfterStep
  PROVE  RunInv(run', steps, unchecked)
<1>1. run.phase = "after" /\ run.phase \in InStep
  BY DEF AfterStep, InStep
<1>2. HasFields(run) /\ run.hook \in Nat /\ run.aborts \in BOOLEAN /\ run.dry \in BOOLEAN
  BY <1>1, InStepParts
<1>3. run.result \in {"continue", "skip_to", "abort", "unknown", "recovered"}
  BY <1>1 DEF RunInv, RunShape
<1>4. CASE run.hook > 1 /\ run' = Told(run)
  BY <1>1, <1>4, ToldKeeps
<1>5. CASE run.hook > 0 /\ run' = RunStops(run, "hookError")
  <2>1. /\ Alters(run', run, {"phase", "cur", "hook", "entered", "result", "target", "outcome"})
        /\ run'.phase = "done" /\ run'.hook = 0 /\ run'.entered = 0 /\ run'.outcome = "hookError"
    BY <1>2, <1>5, RunStopsParts
  <2>2. /\ HasFields(run') /\ run'.idx = run.idx /\ run'.dry = run.dry
        /\ run'.shifted = run.shifted /\ run'.trace = run.trace /\ run'.aborts = run.aborts
    BY <2>1 DEF Alters, RunFields
  <2> QED
    BY <1>1, <1>2, <2>1, <2>2, Ended
<1>6. CASE run.hook <= 1 /\ run' \in SettlesStep(Told(run))
  <2>1. PICK m : m = Told(run)
    OBVIOUS
  <2>2. Settled(m)
    BY <1>1, <1>6, <2>1, ToldKeeps DEF Settled
  <2>3. /\ m.dry = run.dry /\ m.result = run.result /\ m.target = run.target /\ m.idx = run.idx
        /\ m.cur = run.cur
    BY <2>2, SettledParts
  <2>4. run' \in SettlesStep(m)
    BY <1>6, <2>1
  <2>5. CASE run.result = "recovered"
    <3>1. run' = Onwards(m)
      BY <2>3, <2>4, <2>5 DEF SettlesStep
    <3> QED
      BY <1>1, <2>2, <2>5, <3>1, RecoveredSettles
  <2>6. CASE run.result # "recovered" /\ run.dry
    <3>1. CASE run.result = "abort"
      <4>1. run' = Onwards(Traced([m EXCEPT !.failed = @ \cup m.cur.provides], "abort"))
        BY <2>3, <2>4, <2>6, <3>1 DEF SettlesStep
      <4> QED
        BY <1>1, <2>2, <2>6, <4>1, DryAborts
    <3>2. CASE run.result # "abort"
      <4>1. run' = Onwards(Traced(Completed([m EXCEPT !.failed = @ \ m.cur.provides]), "continue"))
        BY <2>3, <2>4, <2>6, <3>2 DEF SettlesStep
      <4> QED
        BY <1>1, <2>2, <2>6, <4>1, DryCompletes
    <3> QED
      BY <3>1, <3>2
  <2>7. CASE run.result # "recovered" /\ ~run.dry
    <3>1. CASE run.result = "continue"
      <4>1. \/ run' = Onwards(Completed(Traced(m, "continue")))
            \/ run' = RunStops(Completed(Traced(m, "continue")), "success")
        BY <2>3, <2>4, <2>7, <3>1 DEF SettlesStep
      <4> QED
        BY <1>1, <2>2, <2>7, <4>1, RealContinues, RealStops
    <3>2. CASE run.result = "abort"
      <4>1. run' = RunStops(Traced(m, "abort"), "aborted")
        BY <2>3, <2>4, <2>7, <3>2 DEF SettlesStep
      <4> QED
        BY <1>1, <2>2, <2>7, <4>1, RealStops
    <3>3. CASE run.result = "skip_to"
      <4>1. CASE Has(steps, run.target) /\ StepIndex(steps, run.target) > run.idx
        <5>1. run' = JumpTo(Completed(Traced(m, "continue")))
          BY <2>3, <2>4, <2>7, <3>3, <4>1 DEF SettlesStep
        <5> QED
          BY <1>1, <2>2, <2>7, <4>1, <5>1, RealJumps
      <4>2. CASE ~(Has(steps, run.target) /\ StepIndex(steps, run.target) > run.idx)
        <5>1. run' = RunStops(Completed(Traced(m, "continue")), "noTarget")
          BY <2>3, <2>4, <2>7, <3>3, <4>2 DEF SettlesStep
        <5> QED
          BY <1>1, <2>2, <2>7, <5>1, RealStops
      <4> QED
        BY <4>1, <4>2
    <3>4. CASE run.result = "unknown"
      <4>1. run' = RunStops(Completed(Traced(m, "continue")), "unknownAction")
        BY <2>3, <2>4, <2>7, <3>4 DEF SettlesStep
      <4> QED
        BY <1>1, <2>2, <2>7, <4>1, RealStops
    <3> QED
      BY <1>3, <2>7, <3>1, <3>2, <3>3, <3>4
  <2> QED
    BY <1>2, <2>5, <2>6, <2>7
<1> QED
  BY <1>4, <1>5, <1>6 DEF AfterStep

----------------------------------------------------------------------------
(* The strategy under a run *)

LEMMA SameSteps ==
  ASSUME NEW list, list \in Seq(Range(list)), NEW new, new \in Seq(Range(new)),
         NEW n \in Nat, n > 0, n <= Len(list), Upto(new, n) = Upto(list, n)
  PROVE  n <= Len(new) /\ \A i \in 1 .. n : new[i] = list[i]
<1>1. Len(list) \in Nat /\ Len(new) \in Nat
  BY ListParts
<1>2. Upto(list, n) = SubSeq(list, 1, n)
  BY <1>1 DEF Upto
<1>3. \A i \in 1 .. n : Upto(list, n)[i] = list[i]
  BY <1>1, <1>2
<1>4. Len(Upto(list, n)) = n
  BY <1>1, <1>2
<1>5. n <= Len(new)
  <2>1. SUFFICES ASSUME Len(new) < n PROVE FALSE
    BY <1>1
  <2>2. Upto(new, n) = SubSeq(new, 1, Len(new))
    BY <1>1, <2>1 DEF Upto
  <2>3. Len(Upto(new, n)) = Len(new)
    BY <1>1, <2>2
  <2> QED
    BY <1>1, <1>4, <2>1, <2>3
<1>6. Upto(new, n) = SubSeq(new, 1, n)
  BY <1>1, <1>5 DEF Upto
<1>7. \A i \in 1 .. n : Upto(new, n)[i] = new[i]
  BY <1>1, <1>5, <1>6
<1> QED
  BY <1>3, <1>5, <1>7

\* An edit that leaves the run what it has passed and what it is in.
LEMMA Rewritten ==
  ASSUME NEW r, NEW list, NEW changed, NEW new, NEW n, NEW then,
         list \in Seq(Range(list)), new \in Seq(Range(new)), RunInv(r, list, changed),
         r.phase \in {"idle"} \cup InStep,
         Alters(n, r, {"shifted"}), n.shifted \in BOOLEAN,
         r.phase = "idle" => n.shifted = r.shifted,
         r.phase \in InStep /\ ~n.shifted => ~r.shifted /\ Upto(new, r.idx) = Upto(list, r.idx),
         ~then => ~changed
  PROVE  RunInv(n, new, then)
<1>1. /\ n.phase = r.phase /\ n.idx = r.idx /\ n.cur = r.cur /\ n.dry = r.dry /\ n.hook = r.hook
      /\ n.entered = r.entered /\ n.result = r.result /\ n.trace = r.trace /\ n.aborts = r.aborts
      /\ n.failed = r.failed /\ n.outcome = r.outcome /\ n.open = r.open /\ n.provided = r.provided
  BY DEF Alters, RunFields
<1>2. HasFields(n) /\ IsARun(r)
  BY DEF Alters, RunInv, RunShape
<1>3. IsARun(n)
  BY <1>1, <1>2 DEF IsARun
<1>4. n.phase = "idle" => n = NoRun
  <2>1. SUFFICES ASSUME n.phase = "idle" PROVE n = r
    BY <1>1 DEF RunInv, RunShape
  <2>2. \A k \in RunFields : n[k] = r[k]
    BY <1>1, <2>1 DEF Alters
  <2> QED
    BY <1>2, <2>2 DEF HasFields, IsARun
<1>5. RunShape(n)
  BY <1>1, <1>3, <1>4 DEF RunInv, RunShape
<1>6. OnionKept(n)
  BY <1>1 DEF RunInv, OnionKept
<1>7. GatesKept(n)
  BY <1>1 DEF RunInv, GatesKept
<1>8. Passed(n) = Passed(r)
  BY <1>1 DEF Passed
<1>9. ASSUME Underway(n)
      PROVE  /\ Underway(r) /\ r.idx <= Len(list) /\ r.cur = list[r.idx]
             /\ r.idx <= Len(new) /\ \A i \in 1 .. r.idx : new[i] = list[i]
  <2>1. r.phase \in InStep /\ ~n.shifted
    BY <1>1, <1>9 DEF Underway, InStep
  <2>2. Underway(r) /\ Upto(new, r.idx) = Upto(list, r.idx)
    BY <2>1 DEF Underway
  <2>3. r.idx <= Len(list) /\ r.cur = list[r.idx]
    BY <2>1, <2>2 DEF RunInv, TraceKept
  <2>4. r.idx \in Nat /\ r.idx > 0
    BY <1>2 DEF IsARun
  <2> QED
    BY <2>2, <2>3, <2>4, SameSteps
<1>10. r.idx \in Nat /\ r.idx > 0 /\ Len(list) \in Nat /\ Len(new) \in Nat
       /\ DOMAIN r.trace = 1 .. Len(r.trace) /\ Len(r.trace) \in Nat
  BY <1>2, ListParts DEF IsARun
<1>11. TraceKept(n, new)
  <2>1. SUFFICES ASSUME Underway(n)
        PROVE  /\ Len(new) > 0 /\ Len(r.trace) = Passed(r) /\ Passed(r) <= Len(new)
               /\ \A i \in DOMAIN r.trace : r.trace[i].name = new[i].name
               /\ r.idx <= Len(new) /\ r.cur = new[r.idx]
    BY <1>1, <1>8 DEF TraceKept
  <2>2. /\ Len(r.trace) = Passed(r) /\ \A i \in DOMAIN r.trace : r.trace[i].name = list[i].name
    BY <1>9, <2>1 DEF RunInv, TraceKept
  <2>3. Passed(r) <= r.idx
    BY <1>10 DEF Passed
  <2>4. \A i \in DOMAIN r.trace : i \in 1 .. r.idx
    BY <1>10, <2>2, <2>3
  <2>5. \A i \in DOMAIN r.trace : r.trace[i].name = new[i].name
    BY <1>9, <2>1, <2>2, <2>4
  <2>6. r.idx \in 1 .. r.idx
    BY <1>10
  <2>7. r.cur = new[r.idx] /\ r.idx <= Len(new)
    BY <1>9, <2>1, <2>6
  <2> QED
    BY <1>10, <2>2, <2>3, <2>5, <2>7
<1>12. DryKept(n, new, then)
  <2>1. SUFFICES ASSUME Underway(n), r.dry
        PROVE  /\ \A j \in 1 .. (r.idx - 1) : new[j].provides \subseteq r.failed \cup r.provided
               /\ ~then /\ r.phase \in {"before", "body", "after"} =>
                    r.cur.requires \subseteq SeedProvides \cup r.provided
    BY <1>1 DEF DryKept
  <2>2. /\ \A j \in 1 .. (r.idx - 1) : list[j].provides \subseteq r.failed \cup r.provided
        /\ ~changed /\ r.phase \in {"before", "body", "after"} =>
             r.cur.requires \subseteq SeedProvides \cup r.provided
    BY <1>9, <2>1 DEF RunInv, DryKept
  <2>3. \A j \in 1 .. (r.idx - 1) : j \in 1 .. r.idx
    BY <1>10
  <2> QED
    BY <1>9, <2>1, <2>2, <2>3
<1> QED
  BY <1>5, <1>6, <1>7, <1>11, <1>12 DEF RunInv

LEMMA BuildKeeps ==
  ASSUME RunInv(run, steps, unchecked), BuildStrategy
  PROVE  RunInv(run', steps', unchecked')
<1>1. run' = run /\ unchecked' = unchecked /\ steps = <<>>
  BY DEF BuildStrategy
<1>2. ~Underway(run)
  BY <1>1 DEF RunInv, TraceKept
<1> QED
  BY <1>1, <1>2 DEF RunInv, TraceKept, DryKept

LEMMA EditKeeps ==
  ASSUME SoundList(steps), SoundList(steps'), RunInv(run, steps, unchecked), EditStrategy
  PROVE  RunInv(run', steps', unchecked')
<1>1. PICK r : /\ steps' = r.list
               /\ unchecked' = (unchecked \/ r.error # "none" \/ Len(r.list) <= Len(steps))
               /\ run' = [run EXCEPT !.shifted =
                            @ \/ (Running /\ Upto(r.list, run.idx) # Upto(steps, run.idx))]
  BY DEF EditStrategy
<1>2. IsARun(run) /\ run.phase \in {"idle"} \cup InStep
  BY DEF EditStrategy, RunInv, RunShape
<1>3. HasFields(run) /\ run.shifted \in BOOLEAN
  BY <1>2 DEF IsARun
<1> DEFINE moves == Running /\ Upto(steps', run.idx) # Upto(steps, run.idx)
<1>4. run' = [run EXCEPT !.shifted = @ \/ moves]
  BY <1>1
<1>5. moves \in BOOLEAN
  OBVIOUS
<1>6. ~moves => (Running => Upto(steps', run.idx) = Upto(steps, run.idx))
  OBVIOUS
<1>7. moves => Running
  OBVIOUS
<1> HIDE DEF moves
<1>8. Alters(run', run, {"shifted"}) /\ run'.shifted = (run.shifted \/ moves)
  BY <1>3, <1>4 DEF Alters, HasFields, RunFields
<1>9. run'.shifted \in BOOLEAN
  BY <1>8
<1>10. run.phase \in InStep => Running
  BY DEF Running, InStep
<1>11. run.phase = "idle" => ~moves
  BY <1>7 DEF Running
<1>12. run.phase = "idle" => run'.shifted = run.shifted
  BY <1>3, <1>8, <1>11
<1>13. run.phase \in InStep /\ ~run'.shifted =>
         ~run.shifted /\ Upto(steps', run.idx) = Upto(steps, run.idx)
  BY <1>6, <1>8, <1>10
<1> DEFINE still == Len(steps') <= Len(steps)
<1>14. still \in BOOLEAN
  OBVIOUS
<1>15. unchecked' = (unchecked \/ r.error # "none" \/ still)
  BY <1>1
<1> HIDE DEF still
<1>16. ~unchecked' => ~unchecked
  BY <1>14, <1>15, NeitherNor
<1>17. steps \in Seq(Range(steps)) /\ steps' \in Seq(Range(steps'))
  BY DEF SoundList
<1> QED
  BY <1>2, <1>8, <1>9, <1>12, <1>13, <1>16, <1>17, Rewritten

LEMMA RunStep ==
  ASSUME SoundList(steps), SoundList(steps'), ~unchecked => DependenciesMet(steps),
         RunInv(run, steps, unchecked), [PipelineNext]_pipelineVars
  PROVE  RunInv(run', steps', unchecked')
<1>1. CASE BuildStrategy
  BY <1>1, BuildKeeps
<1>2. CASE EditStrategy
  BY <1>2, EditKeeps
<1>3. CASE UNCHANGED pipelineVars
  BY <1>3 DEF pipelineVars
<1>4. CASE \/ StartRun \/ RunEnds \/ SkipStep \/ EnterStep \/ BeforeStep \/ CleanupStep \/ BodyReturns
           \/ BodyThrows \/ StepErrorPasses \/ StepErrorRecovers \/ AfterStep
  <2>1. steps' = steps /\ unchecked' = unchecked
    BY <1>4 DEF Keeps, StartRun, RunEnds, SkipStep, EnterStep, BeforeStep, CleanupStep, BodyReturns,
                BodyThrows, StepErrorPasses, StepErrorRecovers, AfterStep
  <2>2. RunInv(run', steps, unchecked)
    BY <1>4, StartRunKeeps, RunEndsKeeps, SkipStepKeeps, EnterStepKeeps, BeforeStepKeeps,
       CleanupStepKeeps, BodyReturnsKeeps, BodyThrowsKeeps, StepErrorPassesKeeps,
       StepErrorRecoversKeeps, AfterStepKeeps
  <2> QED
    BY <2>1, <2>2
<1> QED
  BY <1>1, <1>2, <1>3, <1>4 DEF PipelineNext

LEMMA RunStart ==
  ASSUME PipelineInit
  PROVE  RunInv(run, steps, unchecked)
<1>1. run = NoRun
  BY DEF PipelineInit
<1>2. /\ run.phase = "idle" /\ run.idx = 1 /\ run.hook = 0 /\ run.entered = 0 /\ run.trace = <<>>
      /\ run.dry = FALSE /\ run.shifted = FALSE /\ run.aborts = FALSE
  BY <1>1 DEF NoRun
<1>3. HasFields(run)
  BY <1>1 DEF NoRun, HasFields, RunFields
<1>4. <<>> \in Seq(Range(<<>>)) /\ DOMAIN <<>> = {}
  BY EmptyList DEF SoundList
<1>5. IsARun(run)
  <2>1. run.idx \in Nat /\ run.idx > 0 /\ run.hook \in Nat /\ run.entered \in Nat
    BY <1>2
  <2>2. run.dry \in BOOLEAN /\ run.shifted \in BOOLEAN /\ run.aborts \in BOOLEAN
    BY <1>2
  <2>3. run.trace \in Seq(Range(run.trace))
    BY <1>2, <1>4
  <2> QED
    BY <1>3, <2>1, <2>2, <2>3 DEF IsARun
<1>6. RunShape(run)
  BY <1>1, <1>2, <1>5 DEF RunShape, InStep
<1>7. OnionKept(run) /\ GatesKept(run) /\ ~Underway(run)
  BY <1>2, <1>4 DEF OnionKept, GatesKept, Underway, InStep
<1> QED
  BY <1>6, <1>7 DEF RunInv, TraceKept, DryKept

LEMMA RunInvSound ==
  ASSUME SoundList(steps), RunInv(run, steps, unchecked)
  PROVE  RunSound
<1>1. IsARun(run) /\ run.phase \in {"idle", "scan", "done"} \cup InStep
  BY DEF RunInv, RunShape
<1>2. TraceExact
  <2>1. SUFFICES ASSUME Underway(run)
        PROVE  [i \in DOMAIN run.trace |-> run.trace[i].name] = Names(SubSeq(steps, 1, Passed(run)))
    BY <1>1 DEF TraceExact, Underway, Running, Passed
  <2>2. /\ Len(run.trace) = Passed(run) /\ Passed(run) <= Len(steps)
        /\ \A i \in DOMAIN run.trace : run.trace[i].name = steps[i].name
    BY <2>1 DEF RunInv, TraceKept
  <2>3. /\ Len(run.trace) \in Nat /\ DOMAIN run.trace = 1 .. Len(run.trace)
        /\ steps \in Seq(Range(steps)) /\ Len(steps) \in Nat
    BY <1>1, ListParts DEF IsARun, SoundList
  <2>4. PICK p : p = Passed(run)
    OBVIOUS
  <2>5. PICK front : front = SubSeq(steps, 1, p)
    OBVIOUS
  <2>6. p \in Nat /\ p <= Len(steps) /\ DOMAIN run.trace = 1 .. p
    BY <2>2, <2>3, <2>4
  <2>7. DOMAIN front = 1 .. p /\ \A i \in 1 .. p : front[i] = steps[i]
    BY <2>3, <2>5, <2>6
  <2>8. \A i \in 1 .. p : run.trace[i].name = front[i].name
    BY <2>2, <2>6, <2>7
  <2>9. [i \in 1 .. p |-> run.trace[i].name] = [i \in 1 .. p |-> front[i].name]
    BY <2>8
  <2> QED
    BY <2>4, <2>5, <2>6, <2>7, <2>9 DEF Names
<1>3. GatesFaced
  BY <1>1 DEF RunInv, GatesKept, Faced, GatesFaced
<1>4. OnionCloses
  BY DEF RunInv, OnionKept, OnionCloses
<1>5. DryRunSound
  BY <1>1 DEF RunInv, DryKept, Underway, DryRunSound, InStep
<1> QED
  BY <1>2, <1>3, <1>4, <1>5 DEF RunSound, StepsAccounted

\* However operators edit the strategy under a run and whatever its hooks and
\* bodies do, the run accounts for every step it passed, faces every gate,
\* leaves no middleware open but on the two ways out that do, and dry-runs a
\* step only on what earlier ones provided (RunSound).
THEOREM RunsAreSound == PipelineSpec => []RunSound
<1> DEFINE Inv == StrategyInv /\ RunInv(run, steps, unchecked)
<1>1. PipelineInit => Inv
  BY StrategyStart, RunStart
<1>2. Inv /\ [PipelineNext]_pipelineVars => Inv'
  <2>1. SUFFICES ASSUME Inv, [PipelineNext]_pipelineVars PROVE Inv'
    OBVIOUS
  <2>2. StrategyInv'
    BY <2>1, StrategyStep, PipelineConfigAssumption, PipelineAssumption
  <2>3. SoundList(steps) /\ SoundList(steps') /\ (~unchecked => DependenciesMet(steps))
    BY <2>1, <2>2 DEF StrategyInv
  <2>4. RunInv(run', steps', unchecked')
    BY <2>1, <2>3, RunStep
  <2>5. RunInv(run, steps, unchecked)'
    BY <2>4
  <2> QED
    BY <2>2, <2>5
<1>3. Inv => RunSound
  BY RunInvSound DEF StrategyInv
<1> QED
  BY <1>1, <1>2, <1>3, PTL DEF PipelineSpec
===============================================================================
