--------------------------- MODULE GovernanceProofs ---------------------------
(***************************************************************************)
(* What the gates of every executor hold and let past, for any number of    *)
(* executors and strategies, any policies, any setters between the steps of *)
(* a call; and what the preflight and the report say about it.              *)
(*                                                                          *)
(* First the loop that picks a rule of a policy, whose result is shown to   *)
(* be a rule that no other beats.  Then the invariant: Hosts says who       *)
(* writes to which gates, Requests what a call has met on its way.  The     *)
(* last part is about ACL, whose decision the first gate asks for: what an  *)
(* evaluation knows at each of its awaits.                                  *)
(***************************************************************************)
EXTENDS Governance, ACL, WellFoundedInduction, TLAPS

----------------------------------------------------------------------------
(* Rules *)

LEMMA LeastNumber ==
  ASSUME NEW T \in SUBSET Nat, T # {}
  PROVE  \E n \in T : \A k \in T : n <= k
<1>1. PICK n \in T : \A k \in T : ~(<<k, n>> \in OpToRel(<, Nat))
  BY NatLessThanWellFounded, WFMin
<1>2. \A k \in T : ~(k < n)
  BY <1>1 DEF OpToRel
<1> QED
  BY <1>2

\* A rule that came through its constructor.
SoundRules == {rule \in PolicyRules : ~Malformed(rule)}

LEMMA SoundRule ==
  ASSUME NEW rule \in SoundRules
  PROVE  /\ rule.pattern \in DOMAIN Specificity /\ rule # NoRule
         /\ Specificity[rule.pattern] \in Nat
         /\ rule.requires \in {"true", "false", "unset"}
         /\ rule.destructive \in {"true", "false", "unset"}
         /\ Restrictiveness(rule) \in 0..3
<1>1. rule.pattern \in DOMAIN Specificity /\ rule.pattern # Nothing
  BY DEF SoundRules, PolicyRules, Malformed
<1>2. rule # NoRule
  BY <1>1 DEF NoRule
<1>3. Specificity[rule.pattern] \in Nat
  BY <1>1, GovernanceAssumption
<1>4. /\ rule.requires \in {"true", "false", "unset"}
      /\ rule.destructive \in {"true", "false", "unset"}
  BY DEF SoundRules, PolicyRules, Malformed, Switches
<1>5. Restrictiveness(rule) \in 0..3
  BY DEF Restrictiveness
<1> QED
  BY <1>1, <1>2, <1>3, <1>4, <1>5

LEMMA SoundPolicy ==
  ASSUME NEW policy \in Policies
  PROVE  /\ policy \in Documents /\ policy.rules \in Seq(SoundRules)
         /\ Len(policy.rules) \in Nat
         /\ \A i \in 1..Len(policy.rules) : policy.rules[i] \in SoundRules
         /\ Range(policy.rules) = {policy.rules[i] : i \in 1..Len(policy.rules)}
<1>1. policy \in Documents /\ ~Refuses(policy)
  BY GovernanceAssumption DEF Policies
<1>2. policy.rules \in Seq(PolicyRules)
  BY <1>1 DEF Documents
<1>3. Len(policy.rules) \in Nat /\ DOMAIN policy.rules = 1..Len(policy.rules)
  BY <1>2
<1>4. \A i \in 1..Len(policy.rules) : policy.rules[i] \in SoundRules
  BY <1>1, <1>2, <1>3 DEF Refuses, SoundRules
<1>5. policy.rules \in Seq(SoundRules)
  BY <1>2, <1>3, <1>4
<1>6. Range(policy.rules) = {policy.rules[i] : i \in 1..Len(policy.rules)}
  BY <1>3 DEF Range
<1> QED
  BY <1>1, <1>3, <1>4, <1>5, <1>6

----------------------------------------------------------------------------
(* The loop *)

\* g holds the best rule of each prefix.
Scan(g, listed, m, n) ==
  /\ g \in [0..n -> SoundRules \cup {NoRule}]
  /\ g[0] = NoRule
  /\ \A i \in 1..n : g[i] = Better(listed[i], g[i - 1], m)

LEMMA ScanExists ==
  ASSUME NEW listed \in Seq(SoundRules), NEW m
  PROVE  Scan(BestSoFar(listed, m), listed, m, Len(listed))
<1> DEFINE T == {n \in 0..Len(listed) : ~\E g : Scan(g, listed, m, n)}
<1>1. /\ Len(listed) \in Nat
      /\ \A i \in 1..Len(listed) : listed[i] \in SoundRules
  OBVIOUS
<1>2. T = {}
  <2> SUFFICES ASSUME T # {} PROVE FALSE
    OBVIOUS
  <2>1. T \in SUBSET Nat
    BY <1>1
  <2>2. PICK n \in T : \A k \in T : n <= k
    BY <2>1, LeastNumber
  <2>3. n # 0
    <3>1. Scan([i \in 0..0 |-> NoRule], listed, m, 0)
      BY DEF Scan
    <3> QED
      BY <3>1
  <2>4. n \in 1..Len(listed) /\ n - 1 \in 0..Len(listed) /\ n - 1 \notin T
    BY <1>1, <2>2, <2>3
  <2>5. PICK g : Scan(g, listed, m, n - 1)
    BY <2>4
  <2> DEFINE last == Better(listed[n], g[n - 1], m)
             h == [i \in 0..n |-> IF i = n THEN last ELSE g[i]]
  <2>6. g[n - 1] \in SoundRules \cup {NoRule}
    BY <2>4, <2>5 DEF Scan
  <2>7. last \in SoundRules \cup {NoRule}
    BY <1>1, <2>4, <2>6 DEF Better
  <2> HIDE DEF last
  <2>8. h \in [0..n -> SoundRules \cup {NoRule}]
    BY <2>4, <2>5, <2>7 DEF Scan
  <2>9. h[0] = NoRule
    BY <2>4, <2>5 DEF Scan
  <2>10. ASSUME NEW i \in 1..n
         PROVE  h[i] = Better(listed[i], h[i - 1], m)
    <3>1. CASE i = n
      <4>1. h[i] = last /\ h[i - 1] = g[n - 1]
        BY <2>4, <3>1
      <4> QED
        BY <3>1, <4>1 DEF last
    <3>2. CASE i # n
      <4>1. i \in 1..n - 1 /\ h[i] = g[i] /\ h[i - 1] = g[i - 1]
        BY <2>4, <3>2
      <4>2. g[i] = Better(listed[i], g[i - 1], m)
        BY <2>5, <4>1 DEF Scan
      <4> QED
        BY <4>1, <4>2
    <3> QED
      BY <3>1, <3>2
  <2> HIDE DEF h
  <2>11. Scan(h, listed, m, n)
    BY <2>8, <2>9, <2>10 DEF Scan
  <2> QED
    BY <2>2, <2>11
<1>3. PICK g : Scan(g, listed, m, Len(listed))
  BY <1>1, <1>2
<1> DEFINE F(f) == [i \in 0..Len(listed) |->
                      IF i = 0 THEN NoRule ELSE Better(listed[i], f[i - 1], m)]
<1>4. g = F(g)
  <2>1. g = [i \in 0..Len(listed) |-> g[i]]
    BY <1>3 DEF Scan
  <2>2. \A i \in 0..Len(listed) : g[i] = F(g)[i]
    BY <1>1, <1>3 DEF Scan
  <2> QED
    BY <2>1, <2>2
<1>5. BestSoFar(listed, m) = CHOOSE f : f = F(f)
  BY DEF BestSoFar
<1>6. BestSoFar(listed, m) = F(BestSoFar(listed, m))
  BY <1>4, <1>5
<1> DEFINE f == BestSoFar(listed, m)
<1>7. \A i \in 0..Len(listed) : f[i] = IF i = 0 THEN NoRule ELSE Better(listed[i], f[i - 1], m)
  BY <1>6
<1> HIDE DEF f
<1>8. \A i \in 0..Len(listed) : f[i] = g[i]
  <2> DEFINE U == {i \in 0..Len(listed) : f[i] # g[i]}
  <2> SUFFICES ASSUME U # {} PROVE FALSE
    OBVIOUS
  <2>1. U \in SUBSET Nat
    BY <1>1
  <2>2. PICK k \in U : \A j \in U : k <= j
    BY <2>1, LeastNumber
  <2>3. k # 0
    BY <1>1, <1>3, <1>7 DEF Scan
  <2>4. k \in 1..Len(listed) /\ k - 1 \in 0..Len(listed) /\ k - 1 \notin U
    BY <1>1, <2>2, <2>3
  <2>5. f[k] = Better(listed[k], f[k - 1], m) /\ g[k] = Better(listed[k], g[k - 1], m)
    BY <1>3, <1>7, <2>3, <2>4 DEF Scan
  <2> QED
    BY <2>2, <2>4, <2>5
<1>9. f = [i \in 0..Len(listed) |-> f[i]] /\ g = [i \in 0..Len(listed) |-> g[i]]
  <2>1. f = F(f)
    BY <1>6 DEF f
  <2> HIDE DEF f
  <2>2. f = [i \in 0..Len(listed) |-> f[i]]
    BY <2>1
  <2> QED
    BY <1>3, <2>2 DEF Scan
<1>10. f = g
  BY <1>8, <1>9
<1> QED
  BY <1>3, <1>10 DEF f

Covers(rule, m) == m \in PatternCovers[rule.pattern]

\* No rule that is as specific is stricter than best.
AtLeast(best, rule) ==
  \/ Specificity[best.pattern] > Specificity[rule.pattern]
  \/ /\ Specificity[best.pattern] = Specificity[rule.pattern]
     /\ Restrictiveness(best) >= Restrictiveness(rule)

\* best is what the loop should have after i rules.
Picked(listed, m, i, best) ==
  \/ best = NoRule /\ \A k \in 1..i : ~Covers(listed[k], m)
  \/ /\ \E k \in 1..i : best = listed[k] /\ Covers(listed[k], m)
     /\ \A k \in 1..i : Covers(listed[k], m) => AtLeast(best, listed[k])

LEMMA PickedNext ==
  ASSUME NEW listed \in Seq(SoundRules), NEW m, NEW i \in 1..Len(listed), NEW best,
         Picked(listed, m, i - 1, best)
  PROVE  Picked(listed, m, i, Better(listed[i], best, m))
<1>1. /\ Len(listed) \in Nat /\ i \in Nat /\ i >= 1
      /\ \A k \in 1..i : k \in 1..Len(listed) /\ listed[k] \in SoundRules /\ (k = i \/ k \in 1..i - 1)
      /\ \A k \in 1..i - 1 : k \in 1..i
  OBVIOUS
<1>2. \A k \in 1..i : /\ Specificity[listed[k].pattern] \in Nat /\ Restrictiveness(listed[k]) \in 0..3
                      /\ listed[k] # NoRule
  BY <1>1, SoundRule
<1> DEFINE rule == listed[i]
<1>3. CASE ~Covers(rule, m)
  <2>1. Better(rule, best, m) = best
    BY <1>3 DEF Better, Covers
  <2> QED
    BY <1>1, <1>3, <2>1 DEF Picked
<1>4. CASE Covers(rule, m) /\ best = NoRule
  <2>1. Better(rule, best, m) = rule
    BY <1>4 DEF Better, Beats, Covers
  <2>2. \A k \in 1..i - 1 : ~Covers(listed[k], m)
    BY <1>1, <1>2, <1>4 DEF Picked
  <2>3. AtLeast(rule, rule)
    BY <1>1, <1>2 DEF AtLeast
  <2> QED
    BY <1>1, <1>4, <2>1, <2>2, <2>3 DEF Picked
<1>5. CASE Covers(rule, m) /\ best # NoRule
  <2>1. PICK j \in 1..i - 1 : best = listed[j] /\ Covers(listed[j], m)
    BY <1>5 DEF Picked
  <2>2. \A k \in 1..i - 1 : Covers(listed[k], m) => AtLeast(best, listed[k])
    BY <1>5 DEF Picked
  <2>3. CASE Beats(rule, best)
    <3>1. Better(rule, best, m) = rule
      BY <1>5, <2>3 DEF Better, Covers
    <3>2. /\ Specificity[best.pattern] \in Nat /\ Restrictiveness(best) \in 0..3
      BY <1>1, <1>2, <2>1
    <3>3. \A k \in 1..i : Covers(listed[k], m) => AtLeast(rule, listed[k])
      BY <1>1, <1>2, <1>5, <2>2, <2>3, <3>2 DEF AtLeast, Beats
    <3> QED
      BY <1>1, <1>5, <3>1, <3>3 DEF Picked
  <2>4. CASE ~Beats(rule, best)
    <3>1. Better(rule, best, m) = best
      BY <2>4 DEF Better
    <3>2. AtLeast(best, rule)
      BY <1>1, <1>2, <1>5, <2>1, <2>4 DEF AtLeast, Beats
    <3>3. \A k \in 1..i : Covers(listed[k], m) => AtLeast(best, listed[k])
      BY <1>1, <2>2, <3>2
    <3> QED
      BY <1>1, <2>1, <3>1, <3>3 DEF Picked
  <2> QED
    BY <2>3, <2>4
<1> QED
  BY <1>3, <1>4, <1>5

\* The rule of a policy for a module is one that no other rule for it beats.
LEMMA BestIsPicked ==
  ASSUME NEW policy \in Policies, NEW m
  PROVE  Picked(policy.rules, m, Len(policy.rules), MatchPolicy(policy, m))
<1> DEFINE listed == policy.rules
           n == Len(listed)
           best == BestSoFar(listed, m)
<1>1. listed \in Seq(SoundRules) /\ n \in Nat
  BY SoundPolicy
<1>2. Scan(best, listed, m, n)
  BY <1>1, ScanExists
<1> HIDE DEF best
<1>3. \A i \in 0..n : Picked(listed, m, i, best[i])
  <2> DEFINE T == {i \in 0..n : ~Picked(listed, m, i, best[i])}
  <2> SUFFICES ASSUME T # {} PROVE FALSE
    OBVIOUS
  <2>1. T \in SUBSET Nat
    BY <1>1
  <2>2. PICK i \in T : \A k \in T : i <= k
    BY <2>1, LeastNumber
  <2>3. Picked(listed, m, 0, best[0])
    BY <1>2 DEF Scan, Picked
  <2>4. i \in 1..n /\ i - 1 \in 0..n /\ i - 1 \notin T
    BY <1>1, <2>2, <2>3
  <2>5. best[i] = Better(listed[i], best[i - 1], m)
    BY <1>2, <2>4 DEF Scan
  <2> QED
    BY <1>1, <2>2, <2>4, <2>5, PickedNext
<1> QED
  BY <1>1, <1>3 DEF MatchPolicy, best

LEMMA UnionTypes ==
  ASSUME NEW m \in Modules
  PROVE  Union(m).requires \in BOOLEAN /\ Union(m).destructive \in BOOLEAN
  BY GovernanceAssumption DEF Union, Annotations

\* What some foremost rule, the annotations or the ACL demand is demanded by the gate.
LEMMA WantedIsNeeded ==
  ASSUME NEW policy \in PolicySlots, NEW m \in Modules, NEW asked \in BOOLEAN,
         Wanted(policy, m) \/ asked
  PROVE  Needs(policy, m, asked)
<1>1. Union(m).requires \in BOOLEAN /\ Union(m).destructive \in BOOLEAN
  BY UnionTypes
<1>2. CASE asked
  BY <1>2 DEF Needs
<1>3. CASE policy = Nothing /\ Wanted(policy, m)
  BY <1>3 DEF Wanted, Needs, Resolve
<1>4. CASE policy # Nothing /\ Wanted(policy, m)
  <2> DEFINE listed == policy.rules
             n == Len(listed)
             best == MatchPolicy(policy, m)
  <2>1. policy \in Policies
    BY <1>4 DEF PolicySlots
  <2>2. /\ n \in Nat /\ \A i \in 1..n : listed[i] \in SoundRules
        /\ Range(listed) = {listed[i] : i \in 1..n}
    BY <2>1, SoundPolicy
  <2>3. Picked(listed, m, n, best)
    BY <2>1, BestIsPicked
  <2> HIDE DEF best
  <2> DEFINE rule == best
             gated == policy.gate = "true"
  <2>4. Resolve(policy, m, Union(m)).needs =
          (\/ Override(rule.requires, Union(m).requires)
           \/ gated /\ Override(rule.destructive, Union(m).destructive))
    BY <1>4 DEF Resolve, best
  <2>5. CASE rule = NoRule
    <3>1. Foremost(policy, m) = {}
      BY <2>2, <2>3, <2>5, SoundRule DEF Foremost, Picked, Covers
    <3> QED
      BY <1>1, <1>4, <2>4, <2>5, <3>1 DEF Wanted, Needs, Override, NoRule
  <2>6. CASE rule # NoRule
    <3>1. PICK k \in 1..n : rule = listed[k] /\ Covers(listed[k], m)
      BY <2>3, <2>6 DEF Picked
    <3>2. \A i \in 1..n : Covers(listed[i], m) => AtLeast(rule, listed[i])
      BY <2>3, <2>6 DEF Picked
    <3>3. rule \in SoundRules
      BY <2>2, <3>1
    <3>4. \A i \in 1..n : /\ Specificity[listed[i].pattern] \in Nat
                          /\ listed[i].requires \in {"true", "false", "unset"}
                          /\ listed[i].destructive \in {"true", "false", "unset"}
      BY <2>2, SoundRule
    <3>5. rule \in Foremost(policy, m)
      <4>1. rule \in Range(listed) /\ m \in PatternCovers[rule.pattern]
        BY <2>2, <3>1 DEF Covers
      <4>2. ASSUME NEW other \in Range(listed), m \in PatternCovers[other.pattern]
            PROVE  Specificity[rule.pattern] >= Specificity[other.pattern]
        <5>1. PICK i \in 1..n : other = listed[i]
          BY <2>2
        <5>2. AtLeast(rule, listed[i])
          BY <3>2, <4>2, <5>1 DEF Covers
        <5>3. Specificity[listed[i].pattern] \in Nat /\ Specificity[rule.pattern] \in Nat
          BY <3>1, <3>4
        <5> QED
          BY <5>1, <5>2, <5>3 DEF AtLeast
      <4> QED
        BY <4>1, <4>2 DEF Foremost
    <3>6. ASSUME NEW other \in Foremost(policy, m)
          PROVE  Restrictiveness(rule) >= Restrictiveness(other) /\ other \in SoundRules
      <4>1. PICK i \in 1..n : other = listed[i]
        BY <2>2 DEF Foremost
      <4>2. Covers(listed[i], m) /\ Specificity[other.pattern] >= Specificity[rule.pattern]
        BY <2>2, <3>1, <4>1 DEF Foremost, Covers
      <4> QED
        BY <2>2, <3>1, <3>2, <3>4, <4>1, <4>2 DEF AtLeast
    <3>7. /\ rule.requires \in {"true", "false", "unset"}
          /\ rule.destructive \in {"true", "false", "unset"}
      BY <3>3, SoundRule
    <3>8. \A other \in Foremost(policy, m) :
            /\ other.requires = "true" => rule.requires = "true"
            /\ other.destructive = "true" => rule.requires = "true" \/ rule.destructive = "true"
      BY <3>6, <3>7, SoundRule DEF Restrictiveness
    <3> QED
      BY <1>1, <1>4, <2>4, <3>5, <3>7, <3>8 DEF Wanted, Needs, Override
  <2> QED
    BY <2>5, <2>6
<1> QED
  BY <1>2, <1>3, <1>4

----------------------------------------------------------------------------
(* The gates *)

Providers(held) ==
  held.acl \in AclSlots /\ held.handler \in HandlerSlots /\ held.policy \in PolicySlots

\* The gate holds every provider that held has for it.
Obeys(step, held) ==
  /\ IsAclGate(step) /\ held.acl # Nothing => step.acl = held.acl
  /\ IsApprovalGate(step) =>
       /\ held.handler # Nothing => step.handler = held.handler
       /\ held.policy # Nothing => step.policy = held.policy

SameKinds(new, sequence) ==
  Len(new) = Len(sequence) /\ \A i \in 1..Len(sequence) : new[i].type = sequence[i].type

\* Who may call is decided before who must approve.
Sorted(sequence) ==
  \A i, j \in 1..Len(sequence) : IsApprovalGate(sequence[i]) /\ IsAclGate(sequence[j]) => j < i

\* ... in every strategy that is built elsewhere, and then in all.
GatesInOrder == \A sequence \in Prebuilt : Sorted(sequence)
InOrder(sequence) == GatesInOrder => Sorted(sequence)

LEMMA GateKinds ==
  ASSUME NEW step \in GateRecords
  PROVE  /\ IsAclGate(step) => step \in AclSteps /\ step.acl \in AclSlots
         /\ IsApprovalGate(step) => /\ step \in ApprovalSteps
                                    /\ step.handler \in HandlerSlots /\ step.policy \in PolicySlots
         /\ ~(IsAclGate(step) /\ IsApprovalGate(step))
  BY DEF GateRecords, AclSteps, ApprovalSteps, CustomSteps, IsAclGate, IsApprovalGate

LEMMA GateSeq ==
  ASSUME NEW sequence \in Seq(GateRecords)
  PROVE  /\ Len(sequence) \in Nat /\ DOMAIN sequence = 1..Len(sequence)
         /\ \A i \in 1..Len(sequence) : sequence[i] \in GateRecords
         /\ Range(sequence) = {sequence[i] : i \in 1..Len(sequence)}
  BY DEF Range

\* Gates are rewritten in place.
LEMMA Rewritten ==
  ASSUME NEW sequence \in Seq(GateRecords), NEW new,
         new = [i \in DOMAIN sequence |-> new[i]],
         \A i \in 1..Len(sequence) : new[i] \in GateRecords /\ new[i].type = sequence[i].type
  PROVE  new \in Seq(GateRecords) /\ SameKinds(new, sequence)
<1>1. Len(sequence) \in Nat /\ DOMAIN sequence = 1..Len(sequence)
  BY GateSeq
<1>2. new \in [1..Len(sequence) -> GateRecords]
  BY <1>1
<1>3. new \in Seq(GateRecords) /\ Len(new) = Len(sequence)
  BY <1>1, <1>2
<1> QED
  BY <1>3 DEF SameKinds

LEMMA OrderStays ==
  ASSUME NEW new, NEW sequence, SameKinds(new, sequence), InOrder(sequence)
  PROVE  InOrder(new)
  BY DEF SameKinds, InOrder, Sorted, IsAclGate, IsApprovalGate

LEMMA BoundGate ==
  ASSUME NEW step \in GateRecords, NEW held, Providers(held)
  PROVE  /\ Bound(step, held) \in GateRecords /\ Bound(step, held).type = step.type
         /\ Obeys(Bound(step, held), held)
<1>1. CASE IsAclGate(step)
  <2>1. step \in AclSteps /\ ~IsApprovalGate(step)
    BY <1>1, GateKinds
  <2> DEFINE new == [step EXCEPT !.acl = held.acl]
  <2>2. new \in AclSteps /\ new.acl = held.acl /\ new.type = step.type
    BY <2>1 DEF AclSteps, Providers
  <2>3. Bound(step, held) = IF held.acl # Nothing THEN new ELSE step
    BY <1>1, <2>1 DEF Bound
  <2> HIDE DEF new
  <2> QED
    BY <1>1, <2>1, <2>2, <2>3 DEF Obeys, IsAclGate, IsApprovalGate, GateRecords
<1>2. CASE IsApprovalGate(step)
  <2>1. step \in ApprovalSteps /\ ~IsAclGate(step)
    BY <1>2, GateKinds
  <2> DEFINE new == [step EXCEPT !.handler = IF held.handler = Nothing THEN @ ELSE held.handler,
                                 !.policy  = IF held.policy = Nothing THEN @ ELSE held.policy]
  <2>2. /\ new \in ApprovalSteps /\ new.type = step.type
        /\ held.handler # Nothing => new.handler = held.handler
        /\ held.policy # Nothing => new.policy = held.policy
    BY <2>1 DEF ApprovalSteps, Providers
  <2>3. Bound(step, held) = new
    BY <1>2, <2>1 DEF Bound
  <2> HIDE DEF new
  <2> QED
    BY <1>2, <2>1, <2>2, <2>3 DEF Obeys, IsAclGate, IsApprovalGate, GateRecords
<1>3. CASE ~IsAclGate(step) /\ ~IsApprovalGate(step)
  <2>1. Bound(step, held) = step
    BY <1>3 DEF Bound
  <2> QED
    BY <1>3, <2>1 DEF Obeys
<1> QED
  BY <1>1, <1>2, <1>3

LEMMA BindGates ==
  ASSUME NEW sequence \in Seq(GateRecords), NEW held, Providers(held)
  PROVE  /\ Bind(sequence, held) \in Seq(GateRecords)
         /\ SameKinds(Bind(sequence, held), sequence)
         /\ \A i \in 1..Len(sequence) : Obeys(Bind(sequence, held)[i], held)
<1>1. DOMAIN sequence = 1..Len(sequence) /\ \A i \in 1..Len(sequence) : sequence[i] \in GateRecords
  BY GateSeq
<1> DEFINE new == Bind(sequence, held)
<1>2. \A i \in 1..Len(sequence) : new[i] = Bound(sequence[i], held)
  BY <1>1 DEF Bind
<1>3. new = [i \in DOMAIN sequence |-> new[i]]
  BY DEF Bind
<1> HIDE DEF new
<1>4. \A i \in 1..Len(sequence) : /\ new[i] \in GateRecords /\ new[i].type = sequence[i].type
                                  /\ Obeys(new[i], held)
  BY <1>1, <1>2, BoundGate
<1>5. new \in Seq(GateRecords) /\ SameKinds(new, sequence)
  BY <1>3, <1>4, Rewritten
<1> QED
  BY <1>4, <1>5 DEF new

\* What the presets and the standard strategy are made of.
LEMMA BuildGates ==
  ASSUME NEW types \in StandardLess, NEW held, Providers(held)
  PROVE  Build(types, held) \in Seq(GateRecords) /\ InOrder(Build(types, held))
<1> DEFINE acl == StepOf("acl", held)
           approval == StepOf("approval", held)
           new == Build(types, held)
<1>1. /\ acl \in GateRecords /\ approval \in GateRecords
      /\ ~IsApprovalGate(acl) /\ ~IsAclGate(approval)
  BY DEF StepOf, GateRecords, AclSteps, ApprovalSteps, Providers, IsAclGate, IsApprovalGate
<1>2. new = [i \in DOMAIN types |-> StepOf(types[i], held)]
  BY DEF Build
<1>3. CASE types = <<"acl", "approval">>
  <2>1. new = [i \in 1..2 |-> IF i = 1 THEN acl ELSE approval]
    BY <1>2, <1>3
  <2> HIDE DEF acl, approval, new
  <2>2. new \in Seq(GateRecords) /\ Len(new) = 2 /\ new[1] = acl /\ new[2] = approval
    BY <1>1, <2>1
  <2> QED
    BY <1>1, <2>2 DEF InOrder, Sorted, new
<1>4. CASE types \in {<<"acl">>, <<"approval">>}
  <2>1. PICK only \in {acl, approval} : new = [i \in 1..1 |-> only]
    BY <1>2, <1>4
  <2> HIDE DEF acl, approval, new
  <2>2. new \in Seq(GateRecords) /\ Len(new) = 1 /\ new[1] = only
    BY <1>1, <2>1
  <2> QED
    BY <1>1, <2>2 DEF InOrder, Sorted, new
<1>5. CASE types = <<>>
  <2>1. new = <<>>
    BY <1>2, <1>5
  <2> QED
    BY <2>1 DEF InOrder, Sorted
<1> QED
  BY <1>3, <1>4, <1>5 DEF StandardLess

----------------------------------------------------------------------------
(* The hosts *)

Installed == [strategy : Strategies, acl : AclSlots, handler : HandlerSlots, policy : PolicySlots]

HostTypes ==
  /\ steps \in [Strategies -> Seq(GateRecords)]
  /\ named \in [StrategyNames -> Shared \cup {Nothing}]
  /\ executor \in [Executors -> {Absent} \cup Installed]
  /\ users \in [Strategies -> SUBSET Executors]

\* An executor runs a shared strategy or one it has built, and is among those
\* that wrote to its gates.
Owned ==
  \A e \in Executors : executor[e] # Absent =>
    /\ executor[e].strategy \in Shared \cup {e}
    /\ e \in users[executor[e].strategy]

Ordered == \A s \in Strategies : InOrder(steps[s])

Hosts == HostTypes /\ Owned /\ Ordered /\ HeldIsEnforced

\* The strategies in use keep the kinds of their steps, and executors stay.
KindsStay ==
  /\ \A s \in Shared : SameKinds(steps'[s], steps[s])
  /\ \A e \in Executors : executor[e] # Absent =>
       executor'[e] # Absent /\ SameKinds(steps'[e], steps[e])

LEMMA Kept ==
  ASSUME NEW sequence
  PROVE  SameKinds(sequence, sequence)
  BY DEF SameKinds

LEMMA InstalledIsThere ==
  ASSUME NEW held \in Installed
  PROVE  held # Absent /\ Providers(held)
<1>1. held.strategy \in Strategies
  BY DEF Installed
<1>2. Absent.strategy = Nothing
  BY DEF Absent
<1>3. held # Absent
  BY <1>1, <1>2, GovernanceAssumption
<1>4. Providers(held)
  BY DEF Installed, Providers
<1> QED
  BY <1>3, <1>4

\* e writes a sequence of steps to s, and is or stays what held says.
LEMMA HostStep ==
  ASSUME Hosts, NEW e \in Executors, NEW s \in Shared \cup {e},
         NEW sequence \in Seq(GateRecords), NEW held \in Installed,
         steps' = [steps EXCEPT ![s] = sequence],
         users' = [users EXCEPT ![s] = @ \cup {e}],
         executor' = [executor EXCEPT ![e] = held],
         named' \in [StrategyNames -> Shared \cup {Nothing}],
         held.strategy \in Shared \cup {e},
         held.strategy = s \/ executor[e] = held,
         executor[e] # Absent => held.strategy = executor[e].strategy,
         InOrder(sequence),
         SameKinds(sequence, steps[s]) \/ (s = e /\ executor[e] = Absent),
         held.strategy = s /\ users[s] \subseteq {e} =>
           \A i \in 1..Len(sequence) : Obeys(sequence[i], held)
  PROVE  Hosts' /\ KindsStay
<1>1. HostTypes /\ s \in Strategies /\ held # Absent
  BY InstalledIsThere DEF Hosts, Strategies
<1>2. /\ \A t \in Strategies : steps'[t] = IF t = s THEN sequence ELSE steps[t]
      /\ \A t \in Strategies : users'[t] = IF t = s THEN users[t] \cup {e} ELSE users[t]
      /\ \A x \in Executors : executor'[x] = IF x = e THEN held ELSE executor[x]
  BY <1>1 DEF HostTypes
<1>3. HostTypes' /\ e \in users'[s]
  <2>1. e \in users'[s]
    <3>1. users'[s] = users[s] \cup {e}
      BY <1>1, <1>2
    <3> QED
      BY <3>1
  <2> QED
    BY <1>1, <2>1 DEF HostTypes
<1>4. Owned'
  <2> SUFFICES ASSUME NEW x \in Executors, executor'[x] # Absent
               PROVE  /\ executor'[x].strategy \in Shared \cup {x}
                      /\ x \in users'[executor'[x].strategy]
    BY DEF Owned
  <2>1. CASE x # e
    <3>1. /\ executor'[x] = executor[x] /\ executor[x].strategy \in Shared \cup {x}
          /\ x \in users[executor[x].strategy] /\ executor[x].strategy \in Strategies
      BY <1>2, <2>1 DEF Hosts, Owned, Strategies
    <3> QED
      BY <1>2, <3>1
  <2>2. CASE x = e
    <3>1. executor'[x] = held /\ held.strategy \in Strategies
      BY <1>2, <2>2 DEF Strategies
    <3>2. CASE held.strategy = s
      BY <1>3, <2>2, <3>1, <3>2
    <3>3. CASE held.strategy # s
      <4>1. executor[e] = held /\ e \in users[held.strategy]
        BY <1>1, <3>3 DEF Hosts, Owned
      <4> QED
        BY <1>2, <2>2, <3>1, <4>1
    <3> QED
      BY <3>2, <3>3
  <2> QED
    BY <2>1, <2>2
<1>5. Ordered'
  BY <1>2 DEF Hosts, Ordered
<1>6. HeldIsEnforced'
  <2> SUFFICES ASSUME NEW x \in Executors, executor'[x] # Absent,
                      users'[executor'[x].strategy] = {x},
                      NEW step \in Range(steps'[executor'[x].strategy])
               PROVE  Obeys(step, executor'[x])
    BY DEF HeldIsEnforced, Obeys
  <2>1. ASSUME executor'[x] = executor[x], executor[x].strategy # s, executor[x] # Absent
        PROVE  Obeys(step, executor'[x])
    <3>1. executor[x].strategy \in Strategies
      BY <2>1 DEF Hosts, Owned, Strategies
    <3>2. /\ users[executor[x].strategy] = {x}
          /\ step \in Range(steps[executor[x].strategy])
      BY <1>2, <2>1, <3>1
    <3> QED
      BY <2>1, <3>2 DEF Hosts, HeldIsEnforced, Obeys
  <2>2. CASE x # e
    <3>1. executor'[x] = executor[x] /\ executor[x] # Absent
      BY <1>2, <2>2
    <3>2. executor[x].strategy # s
      BY <1>3, <2>2, <3>1
    <3> QED
      BY <2>1, <3>1, <3>2
  <2>3. CASE x = e /\ held.strategy = s
    <3>1. users[s] \subseteq {e} /\ step \in Range(sequence) /\ executor'[x] = held
      BY <1>1, <1>2, <2>3
    <3>2. PICK i \in 1..Len(sequence) : step = sequence[i]
      BY <3>1, GateSeq
    <3> QED
      BY <2>3, <3>1, <3>2
  <2>4. CASE x = e /\ held.strategy # s
    BY <1>1, <1>2, <2>1, <2>4
  <2> QED
    BY <2>2, <2>3, <2>4
<1>7. KindsStay
  <2>1. ASSUME NEW t \in Strategies, t \in Shared \/ (t \in Executors /\ executor[t] # Absent)
        PROVE  SameKinds(steps'[t], steps[t])
    BY <1>2, <2>1, Kept, GovernanceAssumption
  <2>2. \A x \in Executors : executor[x] # Absent => executor'[x] # Absent
    BY <1>1, <1>2
  <2> QED
    BY <2>1, <2>2 DEF KindsStay, Strategies
<1> QED
  BY <1>3, <1>4, <1>5, <1>6, <1>7 DEF Hosts

LEMMA HostsRest ==
  ASSUME Hosts, UNCHANGED <<steps, executor, users>>,
         named' \in [StrategyNames -> Shared \cup {Nothing}]
  PROVE  Hosts' /\ KindsStay
<1>1. Hosts'
  BY DEF Hosts, HostTypes, Owned, Ordered, HeldIsEnforced
<1>2. KindsStay
  BY Kept DEF KindsStay
<1> QED
  BY <1>1, <1>2

----------------------------------------------------------------------------
(* The requests *)

Tokens == {Nothing, "string", "junk"}
Mets == {"nothing", "unasked", "skipped", "approved"}
Statuses == {"running", "denied", "refused", "rejected", "timeout", "pending", "approved",
             "ran", "reporting", "reported"}

RequestShape ==
  [executor : Executors, strategy : Strategies, module : Modules, token : Tokens, dry : BOOLEAN,
   at : Nat, approval : BOOLEAN, met : Mets, under : PolicySlots, status : Statuses,
   denied : BOOLEAN, requires : BOOLEAN, shown : BOOLEAN]

\* A request runs a strategy in use.  Behind the approval gate there is no ACL
\* to demand more, and what went past it unasked was not wanted.
Fair(q) ==
  /\ q.at >= 1 /\ executor[q.executor] # Absent /\ q.strategy \in Shared \cup {q.executor}
  /\ GatesInOrder /\ q.met # "nothing" =>
       \A i \in 1..Len(steps[q.strategy]) : i >= q.at => ~IsAclGate(steps[q.strategy][i])
  /\ GatesInOrder /\ q.met = "unasked" => ~q.approval /\ ~Wanted(q.under, q.module)

AllFair ==
  /\ request \in [Requests -> {Absent} \cup RequestShape]
  /\ \A r \in Requests : request[r] # Absent => Fair(request[r])

GovInv == Hosts /\ AllFair

LEMMA RequestShapeFields ==
  ASSUME NEW q \in RequestShape
  PROVE  /\ q.executor \in Executors /\ q.strategy \in Strategies /\ q.module \in Modules
         /\ q.token \in Tokens /\ q.dry \in BOOLEAN /\ q.at \in Nat /\ q.approval \in BOOLEAN
         /\ q.met \in Mets /\ q.under \in PolicySlots /\ q.status \in Statuses
         /\ q.denied \in BOOLEAN /\ q.requires \in BOOLEAN /\ q.shown \in BOOLEAN
  BY DEF RequestShape

LEMMA RequestShapeIsThere ==
  ASSUME NEW q \in RequestShape
  PROVE  q # Absent
<1>1. q.strategy \in Strategies /\ Absent.strategy = Nothing
  BY RequestShapeFields DEF Absent
<1> QED
  BY <1>1, GovernanceAssumption

\* A strategy in use keeps the kinds of its steps.
LEMMA FairStays ==
  ASSUME Hosts, KindsStay, NEW q \in RequestShape, Fair(q)
  PROVE  Fair(q)'
<1>1. executor[q.executor] # Absent /\ q.strategy \in Shared \cup {q.executor} /\ q.executor \in Executors
  BY RequestShapeFields DEF Fair
<1>2. executor'[q.executor] # Absent /\ SameKinds(steps'[q.strategy], steps[q.strategy])
  BY <1>1 DEF KindsStay
<1>3. \A i \in 1..Len(steps'[q.strategy]) :
        /\ i \in 1..Len(steps[q.strategy])
        /\ IsAclGate(steps'[q.strategy][i]) <=> IsAclGate(steps[q.strategy][i])
  BY <1>2 DEF SameKinds, IsAclGate
<1> QED
  BY <1>1, <1>2, <1>3 DEF Fair

LEMMA FairHere ==
  ASSUME NEW r \in Requests, NEW q, q = request'[r], Fair(q)'
  PROVE  Fair(request[r])'
  BY DEF Fair

LEMMA RequestsStay ==
  ASSUME GovInv, KindsStay, UNCHANGED request
  PROVE  AllFair'
<1>1. \A r \in Requests : request[r] # Absent => request[r] \in RequestShape /\ Fair(request[r])
  BY DEF GovInv, AllFair
<1>2. ASSUME NEW r \in Requests, request'[r] # Absent
      PROVE  Fair(request[r])'
  <2>1. PICK q \in RequestShape : q = request[r]
    BY <1>1, <1>2
  <2>2. Fair(q)
    BY <1>1, <1>2, <2>1
  <2>3. Fair(q)'
    BY <2>2, FairStays DEF GovInv
  <2> QED
    BY <2>1, <2>3, FairHere
<1>3. request' \in [Requests -> {Absent} \cup RequestShape]
  BY DEF GovInv, AllFair
<1> QED
  BY <1>2, <1>3 DEF AllFair

\* One request goes on, the others do not.
LEMMA RequestGoes ==
  ASSUME GovInv, KindsStay, NEW r \in Requests, NEW q \in RequestShape, Fair(q)',
         request' = [request EXCEPT ![r] = q]
  PROVE  AllFair'
<1>1. \A x \in Requests : request[x] # Absent => request[x] \in RequestShape /\ Fair(request[x])
  BY DEF GovInv, AllFair
<1>2. \A x \in Requests : request'[x] = IF x = r THEN q ELSE request[x]
  BY DEF GovInv, AllFair
<1>3. ASSUME NEW x \in Requests, request'[x] # Absent
      PROVE  Fair(request[x])'
  <2>1. CASE x = r
    BY <1>2, <2>1, FairHere
  <2>2. CASE x # r
    <3>1. PICK p \in RequestShape : p = request[x]
      BY <1>1, <1>2, <1>3, <2>2
    <3>2. Fair(p)
      BY <1>1, <1>2, <1>3, <2>2, <3>1
    <3>3. Fair(p)'
      BY <3>2, FairStays DEF GovInv
    <3> QED
      BY <1>2, <2>2, <3>1, <3>3, FairHere
  <2> QED
    BY <2>1, <2>2
<1>4. request' \in [Requests -> {Absent} \cup RequestShape]
  BY DEF GovInv, AllFair
<1> QED
  BY <1>3, <1>4 DEF AllFair

\* A request that goes on by itself.
LEMMA BecomesStep ==
  ASSUME GovInv, NEW r \in Requests, NEW q \in RequestShape, Fair(q), Becomes(r, q)
  PROVE  GovInv'
<1>1. Hosts' /\ KindsStay
  BY HostsRest DEF Becomes, GovInv, Hosts, HostTypes
<1>2. Fair(q)'
  BY <1>1, FairStays DEF GovInv
<1>3. AllFair'
  BY <1>1, <1>2, RequestGoes DEF Becomes
<1> QED
  BY <1>1, <1>3 DEF GovInv

\* What a running request finds.
LEMMA AtStep ==
  ASSUME GovInv, NEW r \in Requests, Running(r)
  PROVE  /\ request[r] \in RequestShape /\ Fair(request[r]) /\ request[r].strategy \in Strategies
         /\ steps[request[r].strategy] \in Seq(GateRecords)
         /\ InOrder(steps[request[r].strategy])
         /\ ~AtEnd(r) => /\ request[r].at \in 1..Len(steps[request[r].strategy])
                         /\ StepAt(r) \in GateRecords
<1>1. request[r] \in RequestShape /\ Fair(request[r])
  BY DEF GovInv, AllFair, Running
<1>2. request[r].strategy \in Strategies /\ request[r].at \in Nat /\ request[r].at >= 1
  BY <1>1, RequestShapeFields DEF Fair
<1>3. /\ steps[request[r].strategy] \in Seq(GateRecords) /\ InOrder(steps[request[r].strategy])
  BY <1>2 DEF GovInv, Hosts, HostTypes, Ordered
<1>4. ~AtEnd(r) => request[r].at \in 1..Len(steps[request[r].strategy])
  BY <1>2, <1>3, GateSeq DEF AtEnd
<1> QED
  BY <1>1, <1>2, <1>3, <1>4, GateSeq DEF StepAt

\* p is q, as far as Fair looks at what never changes.
SameRun(p, q) == p.executor = q.executor /\ p.strategy = q.strategy /\ p.module = q.module
SameMeeting(p, q) == p.approval = q.approval /\ p.met = q.met /\ p.under = q.under

LEMMA PastFields ==
  ASSUME NEW q \in RequestShape
  PROVE  /\ Past(q) \in RequestShape /\ Past(q).at = q.at + 1
         /\ SameRun(Past(q), q) /\ SameMeeting(Past(q), q)
<1>1. q.at + 1 \in Nat
  BY RequestShapeFields
<1> QED
  BY <1>1 DEF Past, RequestShape, SameRun, SameMeeting

LEMMA EndedFields ==
  ASSUME NEW q \in RequestShape, NEW s \in Statuses
  PROVE  /\ Ended(q, s) \in RequestShape /\ Ended(q, s).at = q.at
         /\ SameRun(Ended(q, s), q) /\ SameMeeting(Ended(q, s), q)
  BY DEF Ended, RequestShape, SameRun, SameMeeting

LEMMA HeardFields ==
  ASSUME NEW q \in RequestShape, NEW b \in BOOLEAN
  PROVE  /\ [q EXCEPT !.approval = b] \in RequestShape /\ [q EXCEPT !.approval = b].at = q.at
         /\ [q EXCEPT !.approval = b].met = q.met
         /\ SameRun([q EXCEPT !.approval = b], q)
  BY DEF RequestShape, SameRun

LEMMA DeniedFields ==
  ASSUME NEW q \in RequestShape
  PROVE  /\ [q EXCEPT !.denied = TRUE] \in RequestShape /\ [q EXCEPT !.denied = TRUE].at = q.at
         /\ SameRun([q EXCEPT !.denied = TRUE], q) /\ SameMeeting([q EXCEPT !.denied = TRUE], q)
  BY DEF RequestShape, SameRun, SameMeeting

LEMMA FairAgain ==
  ASSUME NEW q \in RequestShape, Fair(q), NEW p \in RequestShape,
         SameRun(p, q), SameMeeting(p, q), p.at >= q.at
  PROVE  Fair(p)
<1>1. p.at \in Nat /\ q.at \in Nat
  BY RequestShapeFields
<1>2. steps[p.strategy] = steps[q.strategy]
  BY DEF SameRun
<1>3. \A i \in 1..Len(steps[p.strategy]) : i >= p.at => i >= q.at
  BY <1>1
<1> QED
  BY <1>1, <1>2, <1>3 DEF Fair, SameRun, SameMeeting

----------------------------------------------------------------------------
(* The steps of a request *)

LEMMA PlainStepFair ==
  ASSUME GovInv, NEW r \in Requests, PlainStep(r)
  PROVE  GovInv'
<1>1. request[r] \in RequestShape /\ Fair(request[r]) /\ request[r].at \in Nat
  BY AtStep, RequestShapeFields DEF PlainStep
<1>2. PICK q : q = request[r]
  OBVIOUS
<1>3. Fair(Past(q)) /\ Past(q) \in RequestShape
  BY <1>1, <1>2, PastFields, FairAgain
<1>4. Becomes(r, Past(q))
  BY <1>2 DEF PlainStep
<1> QED
  BY <1>3, <1>4, BecomesStep

LEMMA FinishFair ==
  ASSUME GovInv, NEW r \in Requests, Finish(r)
  PROVE  GovInv'
<1>1. request[r] \in RequestShape /\ Fair(request[r]) /\ request[r].at \in Nat
  BY AtStep, RequestShapeFields DEF Finish, AtEnd
<1>2. PICK s \in Statuses : s = IF request[r].dry THEN "reporting" ELSE "ran"
  BY DEF Statuses
<1>3. PICK q : q = request[r]
  OBVIOUS
<1>4. Fair(Ended(q, s)) /\ Ended(q, s) \in RequestShape
  BY <1>1, <1>3, EndedFields, FairAgain
<1>5. Becomes(r, Ended(q, s))
  BY <1>2, <1>3 DEF Finish
<1> QED
  BY <1>4, <1>5, BecomesStep

LEMMA ReportFair ==
  ASSUME GovInv, NEW r \in Requests, Report(r)
  PROVE  GovInv'
<1>1. request[r] \in RequestShape /\ Fair(request[r])
  BY DEF Report, GovInv, AllFair
<1>2. PICK q : q = request[r]
  OBVIOUS
<1>3. PICK b \in BOOLEAN : b = Foretold(q.executor, q.module, q.approval)
  BY DEF Foretold, Needs
<1>4. PICK d \in BOOLEAN : d = ~q.denied
  OBVIOUS
<1>9. PICK s \in Statuses : s = "reported"
  BY DEF Statuses
<1>10. PICK told : told = [q EXCEPT !.status = s, !.requires = b, !.shown = d]
  OBVIOUS
<1>5. /\ told \in RequestShape /\ told.at = q.at /\ SameRun(told, q) /\ SameMeeting(told, q)
  BY <1>1, <1>2, <1>10 DEF RequestShape, SameRun, SameMeeting
<1>6. Becomes(r, told)
  BY <1>2, <1>3, <1>4, <1>9, <1>10 DEF Report
<1>7. Fair(told)
  BY <1>1, <1>2, <1>5, RequestShapeFields, FairAgain
<1> QED
  BY <1>5, <1>6, <1>7, BecomesStep

\* The ACL is asked before the approval gate, so that it may still demand.
LEMMA AclCheckFair ==
  ASSUME GovInv, NEW r \in Requests, AclCheck(r)
  PROVE  GovInv'
<1>1. /\ request[r] \in RequestShape /\ Fair(request[r]) /\ request[r].at \in Nat
      /\ request[r].at \in 1..Len(steps[request[r].strategy]) /\ StepAt(r) \in GateRecords
  BY AtStep, RequestShapeFields DEF AclCheck
<1>2. PICK q : q = request[r]
  OBVIOUS
<1>3. GatesInOrder => q.met = "nothing"
  <2>1. IsAclGate(steps[q.strategy][q.at])
    BY <1>2 DEF AclCheck, StepAt
  <2> QED
    BY <1>1, <1>2, <2>1 DEF Fair
<1>4. ASSUME NEW p \in RequestShape, SameRun(p, q), p.met = q.met, p.at >= q.at
      PROVE  Fair(p)
  BY <1>1, <1>2, <1>3, <1>4, RequestShapeFields DEF Fair, SameRun
<1>5. CASE StepAt(r).acl = Nothing /\ Becomes(r, Past(request[r]))
  <2>1. Fair(Past(q)) /\ Past(q) \in RequestShape
    BY <1>1, <1>2, PastFields, FairAgain
  <2> QED
    BY <1>2, <1>5, <2>1, BecomesStep
<1>6. CASE StepAt(r).acl # Nothing
  <2> DEFINE answer == Says[StepAt(r).acl]
  <2>1. answer \in AclAnswers
    <3>1. StepAt(r).acl \in AclSlots
      BY <1>1, GateKinds DEF AclCheck
    <3>2. StepAt(r).acl \in DOMAIN Says
      BY <1>6, <3>1 DEF AclSlots
    <3> QED
      BY <3>2, GovernanceAssumption
  <2>2. PICK b \in BOOLEAN : b = answer.approval
    BY <2>1 DEF AclAnswers
  <2>3. PICK heard : heard = [q EXCEPT !.approval = b]
    OBVIOUS
  <2>4. heard \in RequestShape /\ heard.at = q.at /\ heard.met = q.met /\ SameRun(heard, q)
    BY <1>1, <1>2, <2>3, HeardFields
  <2>5. PICK past : past = Past(heard)
    OBVIOUS
  <2>6. past \in RequestShape /\ past.at = q.at + 1 /\ past.met = q.met /\ SameRun(past, q)
    BY <2>4, <2>5, PastFields DEF SameRun, SameMeeting
  <2>7. PICK denied : denied = [past EXCEPT !.denied = TRUE]
    OBVIOUS
  <2>8. denied \in RequestShape /\ denied.at = q.at + 1 /\ denied.met = q.met /\ SameRun(denied, q)
    BY <2>6, <2>7, DeniedFields DEF SameRun, SameMeeting
  <2>9. PICK ended : ended = Ended(heard, "denied")
    OBVIOUS
  <2>10. ended \in RequestShape /\ ended.at = q.at /\ ended.met = q.met /\ SameRun(ended, q)
    <3>1. "denied" \in Statuses
      BY DEF Statuses
    <3> QED
      BY <2>4, <2>9, <3>1, EndedFields DEF SameRun, SameMeeting
  <2>11. Becomes(r, past) \/ Becomes(r, denied) \/ Becomes(r, ended)
    BY <1>2, <1>6, <2>2, <2>3, <2>5, <2>7, <2>9 DEF AclCheck
  <2>12. Fair(past) /\ Fair(denied) /\ Fair(ended)
    BY <1>1, <1>2, <1>4, <2>6, <2>8, <2>10
  <2> QED
    BY <2>6, <2>8, <2>10, <2>11, <2>12, BecomesStep
<1> QED
  BY <1>5, <1>6 DEF AclCheck

\* Behind the approval gate there is no gate of the ACL, and it has asked when
\* it had to.
LEMMA ApprovalGateFair ==
  ASSUME GovInv, NEW r \in Requests, ApprovalGate(r)
  PROVE  GovInv'
<1>1. /\ request[r] \in RequestShape /\ Fair(request[r])
      /\ InOrder(steps[request[r].strategy])
      /\ request[r].at \in 1..Len(steps[request[r].strategy]) /\ StepAt(r) \in GateRecords
  BY AtStep DEF ApprovalGate
<1>2. PICK q \in RequestShape : q = request[r]
  BY <1>1
<1>3. PICK policy \in PolicySlots : policy = StepAt(r).policy
  BY <1>1, GateKinds DEF ApprovalGate
<1>4. Fair(q) /\ q.at \in Nat /\ q.module \in Modules /\ q.approval \in BOOLEAN
  BY <1>1, <1>2, RequestShapeFields
<1>5. GatesInOrder =>
        \A i \in 1..Len(steps[q.strategy]) : i >= q.at + 1 => ~IsAclGate(steps[q.strategy][i])
  <2>1. IsApprovalGate(steps[q.strategy][q.at]) /\ q.at \in 1..Len(steps[q.strategy])
    BY <1>1, <1>2 DEF ApprovalGate, StepAt
  <2> QED
    BY <1>1, <1>2, <2>1 DEF InOrder, Sorted
<1>6. ASSUME NEW s \in Statuses, Becomes(r, Ended(request[r], s))
      PROVE  GovInv'
  <2>1. Fair(Ended(q, s)) /\ Ended(q, s) \in RequestShape
    BY <1>4, EndedFields, FairAgain
  <2> QED
    BY <1>2, <1>6, <2>1, BecomesStep
<1>7. ASSUME NEW how \in Mets,
             how = "unasked" => ~Needs(policy, q.module, q.approval),
             Becomes(r, [Past(request[r]) EXCEPT !.met = how, !.under = policy])
      PROVE  GovInv'
  <2>1. PICK past : past = Past(q)
    OBVIOUS
  <2>2. past \in RequestShape /\ past.at = q.at + 1 /\ SameRun(past, q) /\ past.approval = q.approval
    BY <2>1, PastFields DEF SameMeeting
  <2>3. PICK met : met = [past EXCEPT !.met = how, !.under = policy]
    OBVIOUS
  <2>4. /\ met \in RequestShape /\ met.at = q.at + 1 /\ SameRun(met, q)
        /\ met.met = how /\ met.under = policy /\ met.approval = q.approval
    BY <2>2, <2>3 DEF RequestShape, SameRun
  <2>5. how = "unasked" => ~q.approval /\ ~Wanted(policy, q.module)
    BY <1>4, <1>7, WantedIsNeeded
  <2>6. Fair(met)
    BY <1>4, <1>5, <2>4, <2>5 DEF Fair, SameRun
  <2> QED
    BY <1>2, <1>7, <2>1, <2>3, <2>4, <2>6, BecomesStep
<1>8. CASE Becomes(r, Ended(request[r], "refused"))
  <2>1. "refused" \in Statuses
    BY DEF Statuses
  <2> QED
    BY <1>6, <1>8, <2>1
<1>9. CASE /\ ~Needs(policy, q.module, q.approval)
           /\ Becomes(r, [Past(request[r]) EXCEPT !.met = "unasked", !.under = policy])
  <2>1. "unasked" \in Mets
    BY DEF Mets
  <2> QED
    BY <1>7, <1>9, <2>1
<1>10. CASE Becomes(r, IF StrictPolicy(policy) THEN Ended(request[r], "rejected")
                       ELSE [Past(request[r]) EXCEPT !.met = "skipped", !.under = policy])
  <2>1. "skipped" \in Mets /\ "skipped" # "unasked" /\ "rejected" \in Statuses
    BY DEF Mets, Statuses
  <2>2. CASE StrictPolicy(policy)
    BY <1>6, <1>10, <2>1, <2>2
  <2>3. CASE ~StrictPolicy(policy)
    BY <1>7, <1>10, <2>1, <2>3
  <2> QED
    BY <2>2, <2>3
<1>11. CASE \E answer \in Answers(StepAt(r).handler, q.token) :
              Becomes(r, IF answer = "approved"
                         THEN [Past(request[r]) EXCEPT !.met = "approved", !.under = policy]
                         ELSE Ended(request[r], answer))
           /\ StepAt(r).handler # Nothing
  <2>1. PICK answer \in Answers(StepAt(r).handler, q.token) :
              Becomes(r, IF answer = "approved"
                         THEN [Past(request[r]) EXCEPT !.met = "approved", !.under = policy]
                         ELSE Ended(request[r], answer))
    BY <1>11
  <2>2. answer \in Statuses
    <3>1. StepAt(r).handler \in HandlerClasses
      BY <1>1, <1>11, GateKinds DEF ApprovalGate, HandlerSlots
    <3>2. Answers(StepAt(r).handler, q.token) \subseteq {"approved", "rejected", "timeout", "pending"}
      BY <3>1 DEF Answers, HandlerClasses
    <3> QED
      BY <2>1, <3>2 DEF Statuses
  <2>3. "approved" \in Mets /\ "approved" # "unasked"
    BY DEF Mets
  <2>4. CASE answer = "approved"
    BY <1>7, <2>1, <2>3, <2>4
  <2>5. CASE answer # "approved"
    BY <1>6, <2>1, <2>2, <2>5
  <2> QED
    BY <2>4, <2>5
<1> QED
  BY <1>2, <1>3, <1>8, <1>9, <1>10, <1>11 DEF ApprovalGate

----------------------------------------------------------------------------
(* The executor's surface *)

LEMMA InstallsStep ==
  ASSUME GovInv, NEW e \in Executors, executor[e] = Absent, NEW held \in Grants,
         NEW s \in Shared \cup {e}, NEW sequence \in Seq(GateRecords), InOrder(sequence),
         s # e => sequence = steps[s],
         Installs(e, s, sequence, held), UNCHANGED <<named, request, changes>>
  PROVE  GovInv'
<1>1. Providers(held)
  BY GovernanceAssumption DEF Providers
<1> DEFINE new == Bind(sequence, held)
<1>2. PICK x : x = [strategy |-> s, acl |-> held.acl, handler |-> held.handler, policy |-> held.policy]
  OBVIOUS
<1>3. x \in Installed /\ x.strategy = s
  BY <1>1, <1>2 DEF Installed, Providers, Strategies
<1>4. /\ new \in Seq(GateRecords) /\ SameKinds(new, sequence)
      /\ \A i \in 1..Len(new) : Obeys(new[i], held)
  BY <1>1, BindGates DEF SameKinds
<1>5. InOrder(new)
  BY <1>4, OrderStays
<1>6. /\ steps' = [steps EXCEPT ![s] = new] /\ users' = [users EXCEPT ![s] = @ \cup {e}]
      /\ executor' = [executor EXCEPT ![e] = x]
  BY <1>2 DEF Installs
<1> HIDE DEF new
<1>7. \A i \in 1..Len(new) : Obeys(new[i], x)
  BY <1>2, <1>4 DEF Obeys
<1>8. SameKinds(new, steps[s]) \/ (s = e /\ executor[e] = Absent)
  BY <1>4
<1>9. named' \in [StrategyNames -> Shared \cup {Nothing}]
  BY DEF GovInv, Hosts, HostTypes
<1>10. Hosts' /\ KindsStay
  BY <1>3, <1>4, <1>5, <1>6, <1>7, <1>8, <1>9, HostStep DEF GovInv
<1> QED
  BY <1>10, RequestsStay DEF GovInv

LEMMA ConstructStep ==
  ASSUME GovInv, NEW e \in Executors, NEW held \in Grants,
         \/ \E left \in StandardLess : ConstructDefault(e, left, held)
         \/ \E n \in StrategyNames : ConstructNamed(e, n, held)
         \/ \E s \in Shared : ConstructOver(e, s, held)
  PROVE  GovInv'
<1>1. Providers(held)
  BY GovernanceAssumption DEF Providers
<1>2. \A s \in Shared : steps[s] \in Seq(GateRecords) /\ InOrder(steps[s]) /\ s # e
  BY GovernanceAssumption DEF GovInv, Hosts, HostTypes, Ordered, Strategies
<1>3. CASE \E left \in StandardLess : ConstructDefault(e, left, held)
  <2>1. PICK left \in StandardLess : ConstructDefault(e, left, held)
    BY <1>3
  <2>2. Build(left, held) \in Seq(GateRecords) /\ InOrder(Build(left, held))
    BY <1>1, BuildGates
  <2>3. /\ executor[e] = Absent /\ Installs(e, e, Build(left, held), held)
        /\ UNCHANGED <<named, request, changes>>
    BY <2>1 DEF ConstructDefault
  <2> QED
    BY <2>2, <2>3, InstallsStep
<1>4. CASE \E s \in Shared : ConstructOver(e, s, held)
  BY <1>2, <1>4, InstallsStep DEF ConstructOver
<1>5. CASE \E n \in StrategyNames : ConstructNamed(e, n, held)
  <2>1. PICK n \in StrategyNames : ConstructNamed(e, n, held)
    BY <1>5
  <2>2. executor[e] = Absent /\ UNCHANGED <<named, request, changes>>
    BY <2>1 DEF ConstructNamed
  <2>3. CASE named[n] # Nothing /\ Installs(e, named[n], steps[named[n]], held)
    <3>1. named[n] \in Shared
      BY <2>3 DEF GovInv, Hosts, HostTypes
    <3> QED
      BY <1>2, <2>2, <2>3, <3>1, InstallsStep
  <2>4. CASE n \in DOMAIN Presets /\ Installs(e, e, Build(Presets[n], held), held)
    <3>1. Presets[n] \in StandardLess
      BY <2>4 DEF Presets, StandardLess
    <3>2. Build(Presets[n], held) \in Seq(GateRecords) /\ InOrder(Build(Presets[n], held))
      BY <1>1, <3>1, BuildGates
    <3> QED
      BY <2>2, <2>4, <3>2, InstallsStep
  <2> QED
    BY <2>1, <2>3, <2>4 DEF ConstructNamed
<1> QED
  BY <1>3, <1>4, <1>5

\* A setter of e gives new providers to e and to the gates it runs.
LEMMA SetterStep ==
  ASSUME GovInv, NEW e \in Executors, executor[e] # Absent, NEW held \in Installed,
         NEW new, NEW s, s = executor[e].strategy, held.strategy = s,
         new = [i \in DOMAIN steps[s] |-> new[i]],
         \A i \in 1..Len(steps[s]) :
           /\ new[i] \in GateRecords /\ new[i].type = steps[s][i].type
           /\ Obeys(steps[s][i], executor[e]) => Obeys(new[i], held),
         steps' = [steps EXCEPT ![s] = new], users' = [users EXCEPT ![s] = @ \cup {e}],
         executor' = [executor EXCEPT ![e] = held], UNCHANGED <<named, request>>
  PROVE  GovInv'
<1>1. /\ s \in Shared \cup {e} /\ e \in users[s] /\ s \in Strategies
      /\ steps[s] \in Seq(GateRecords) /\ InOrder(steps[s])
  BY DEF GovInv, Hosts, Owned, HostTypes, Ordered, Strategies
<1>2. new \in Seq(GateRecords) /\ SameKinds(new, steps[s])
  BY <1>1, Rewritten
<1>3. InOrder(new)
  BY <1>1, <1>2, OrderStays
<1>4. ASSUME users[s] \subseteq {e}
      PROVE  \A i \in 1..Len(new) : Obeys(new[i], held)
  <2>1. users[s] = {e}
    BY <1>1, <1>4
  <2>2. \A i \in 1..Len(steps[s]) : steps[s][i] \in Range(steps[s])
    BY <1>1, GateSeq
  <2>3. \A i \in 1..Len(steps[s]) : Obeys(steps[s][i], executor[e])
    BY <2>1, <2>2 DEF GovInv, Hosts, HeldIsEnforced, Obeys
  <2> QED
    BY <1>2, <2>3 DEF SameKinds
<1>5. named' \in [StrategyNames -> Shared \cup {Nothing}]
  BY DEF GovInv, Hosts, HostTypes
<1>6. Hosts' /\ KindsStay
  BY <1>1, <1>2, <1>3, <1>4, <1>5, HostStep DEF GovInv
<1> QED
  BY <1>6, RequestsStay DEF GovInv

LEMMA InstalledHere ==
  ASSUME GovInv, NEW e \in Executors, executor[e] # Absent
  PROVE  /\ executor[e] \in Installed /\ executor[e].strategy \in Strategies
         /\ steps[executor[e].strategy] \in Seq(GateRecords)
         /\ DOMAIN steps[executor[e].strategy] = 1..Len(steps[executor[e].strategy])
         /\ \A i \in 1..Len(steps[executor[e].strategy]) :
              steps[executor[e].strategy][i] \in GateRecords
<1>1. executor[e] \in Installed /\ executor[e].strategy \in Strategies
  BY DEF GovInv, Hosts, HostTypes, Installed
<1>2. steps[executor[e].strategy] \in Seq(GateRecords)
  BY <1>1 DEF GovInv, Hosts, HostTypes
<1> QED
  BY <1>1, <1>2, GateSeq

LEMMA SetAclStep ==
  ASSUME GovInv, NEW e \in Executors, NEW acl \in Acls, SetAcl(e, acl)
  PROVE  GovInv'
<1>1. executor[e] # Absent /\ UNCHANGED <<named, request>>
  BY DEF SetAcl, Write
<1>2. PICK s \in Strategies : s = executor[e].strategy
  BY <1>1, InstalledHere
<1>3. acl \in AclSlots
  BY GovernanceAssumption DEF AclSlots
<1>4. PICK held : held = [executor[e] EXCEPT !.acl = acl]
  OBVIOUS
<1>5. /\ held \in Installed /\ held.strategy = s /\ held.acl = acl
      /\ held.handler = executor[e].handler /\ held.policy = executor[e].policy
  BY <1>1, <1>2, <1>3, <1>4, InstalledHere DEF Installed
<1> DEFINE given(step) == IF IsAclGate(step) THEN [step EXCEPT !.acl = acl] ELSE step
<1>6. PICK new : new = [i \in DOMAIN steps[s] |-> given(steps[s][i])]
  OBVIOUS
<1>7. ASSUME NEW step \in GateRecords
      PROVE  /\ given(step) \in GateRecords /\ given(step).type = step.type
             /\ Obeys(step, executor[e]) => Obeys(given(step), held)
  <2>1. CASE IsAclGate(step)
    <3>1. /\ step \in AclSteps /\ ~IsApprovalGate(step)
      BY <2>1, GateKinds
    <3>2. /\ given(step) \in AclSteps /\ given(step).type = step.type /\ given(step).acl = acl
      BY <1>3, <2>1, <3>1 DEF AclSteps
    <3> HIDE DEF given
    <3> QED
      BY <1>5, <2>1, <3>1, <3>2 DEF Obeys, IsApprovalGate, GateRecords
  <2>2. CASE ~IsAclGate(step)
    BY <1>5, <2>2 DEF Obeys
  <2> QED
    BY <2>1, <2>2
<1>8. /\ steps' = [steps EXCEPT ![s] = new] /\ users' = [users EXCEPT ![s] = @ \cup {e}]
      /\ executor' = [executor EXCEPT ![e] = held]
  <2>1. executor' = [executor EXCEPT ![e].acl = acl]
    BY DEF SetAcl
  <2>2. steps' = [steps EXCEPT ![s] = new] /\ users' = [users EXCEPT ![s] = @ \cup {e}]
    BY <1>2, <1>6 DEF SetAcl, Write
  <2> QED
    BY <1>4, <2>1, <2>2 DEF GovInv, Hosts, HostTypes
<1> HIDE DEF given
<1>9. /\ new = [i \in DOMAIN steps[s] |-> new[i]]
      /\ \A i \in 1..Len(steps[s]) :
           /\ new[i] \in GateRecords /\ new[i].type = steps[s][i].type
           /\ Obeys(steps[s][i], executor[e]) => Obeys(new[i], held)
  BY <1>1, <1>2, <1>6, <1>7, InstalledHere
<1> QED
  BY <1>1, <1>2, <1>5, <1>8, <1>9, SetterStep

LEMMA SetHandlerStep ==
  ASSUME GovInv, NEW e \in Executors, NEW handler \in Handlers, SetApprovalHandler(e, handler)
  PROVE  GovInv'
<1>1. executor[e] # Absent /\ UNCHANGED <<named, request>>
  BY DEF SetApprovalHandler, Write
<1>2. PICK s \in Strategies : s = executor[e].strategy
  BY <1>1, InstalledHere
<1>3. handler \in HandlerSlots
  BY GovernanceAssumption DEF HandlerSlots
<1>4. PICK held : held = [executor[e] EXCEPT !.handler = handler]
  OBVIOUS
<1>5. /\ held \in Installed /\ held.strategy = s /\ held.handler = handler
      /\ held.acl = executor[e].acl /\ held.policy = executor[e].policy
  BY <1>1, <1>2, <1>3, <1>4, InstalledHere DEF Installed
<1> DEFINE given(step) == IF IsApprovalGate(step) THEN [step EXCEPT !.handler = handler] ELSE step
<1>6. PICK new : new = [i \in DOMAIN steps[s] |-> given(steps[s][i])]
  OBVIOUS
<1>7. ASSUME NEW step \in GateRecords
      PROVE  /\ given(step) \in GateRecords /\ given(step).type = step.type
             /\ Obeys(step, executor[e]) => Obeys(given(step), held)
  <2>1. CASE IsApprovalGate(step)
    <3>1. step \in ApprovalSteps /\ ~IsAclGate(step)
      BY <2>1, GateKinds
    <3>2. /\ given(step) \in ApprovalSteps /\ given(step).type = step.type
          /\ given(step).handler = handler /\ given(step).policy = step.policy
      BY <1>3, <2>1, <3>1 DEF ApprovalSteps
    <3> HIDE DEF given
    <3> QED
      BY <1>5, <2>1, <3>1, <3>2 DEF Obeys, IsAclGate, GateRecords
  <2>2. CASE ~IsApprovalGate(step)
    BY <1>5, <2>2 DEF Obeys
  <2> QED
    BY <2>1, <2>2
<1>8. /\ steps' = [steps EXCEPT ![s] = new] /\ users' = [users EXCEPT ![s] = @ \cup {e}]
      /\ executor' = [executor EXCEPT ![e] = held]
  <2>1. executor' = [executor EXCEPT ![e].handler = handler]
    BY DEF SetApprovalHandler
  <2>2. steps' = [steps EXCEPT ![s] = new] /\ users' = [users EXCEPT ![s] = @ \cup {e}]
    BY <1>2, <1>6 DEF SetApprovalHandler, Write
  <2> QED
    BY <1>4, <2>1, <2>2 DEF GovInv, Hosts, HostTypes
<1> HIDE DEF given
<1>9. /\ new = [i \in DOMAIN steps[s] |-> new[i]]
      /\ \A i \in 1..Len(steps[s]) :
           /\ new[i] \in GateRecords /\ new[i].type = steps[s][i].type
           /\ Obeys(steps[s][i], executor[e]) => Obeys(new[i], held)
  BY <1>1, <1>2, <1>6, <1>7, InstalledHere
<1> QED
  BY <1>1, <1>2, <1>5, <1>8, <1>9, SetterStep

LEMMA SetPolicyStep ==
  ASSUME GovInv, NEW e \in Executors, NEW policy \in Policies \cup {Nothing}, SetPolicy(e, policy)
  PROVE  GovInv'
<1>1. executor[e] # Absent /\ UNCHANGED <<named, request>>
  BY DEF SetPolicy, Write
<1>2. PICK s \in Strategies : s = executor[e].strategy
  BY <1>1, InstalledHere
<1>3. policy \in PolicySlots
  BY GovernanceAssumption DEF PolicySlots
<1>4. PICK held : held = [executor[e] EXCEPT !.policy = policy]
  OBVIOUS
<1>5. /\ held \in Installed /\ held.strategy = s /\ held.policy = policy
      /\ held.acl = executor[e].acl /\ held.handler = executor[e].handler
  BY <1>1, <1>2, <1>3, <1>4, InstalledHere DEF Installed
<1> DEFINE given(step) == IF IsApprovalGate(step) THEN [step EXCEPT !.policy = policy] ELSE step
<1>6. PICK new : new = [i \in DOMAIN steps[s] |-> given(steps[s][i])]
  OBVIOUS
<1>7. ASSUME NEW step \in GateRecords
      PROVE  /\ given(step) \in GateRecords /\ given(step).type = step.type
             /\ Obeys(step, executor[e]) => Obeys(given(step), held)
  <2>1. CASE IsApprovalGate(step)
    <3>1. step \in ApprovalSteps /\ ~IsAclGate(step)
      BY <2>1, GateKinds
    <3>2. /\ given(step) \in ApprovalSteps /\ given(step).type = step.type
          /\ given(step).policy = policy /\ given(step).handler = step.handler
      BY <1>3, <2>1, <3>1 DEF ApprovalSteps
    <3> HIDE DEF given
    <3> QED
      BY <1>5, <2>1, <3>1, <3>2 DEF Obeys, IsAclGate, GateRecords
  <2>2. CASE ~IsApprovalGate(step)
    BY <1>5, <2>2 DEF Obeys
  <2> QED
    BY <2>1, <2>2
<1>8. /\ steps' = [steps EXCEPT ![s] = new] /\ users' = [users EXCEPT ![s] = @ \cup {e}]
      /\ executor' = [executor EXCEPT ![e] = held]
  <2>1. executor' = [executor EXCEPT ![e].policy = policy]
    BY DEF SetPolicy
  <2>2. steps' = [steps EXCEPT ![s] = new] /\ users' = [users EXCEPT ![s] = @ \cup {e}]
    BY <1>2, <1>6 DEF SetPolicy, Write
  <2> QED
    BY <1>4, <2>1, <2>2 DEF GovInv, Hosts, HostTypes
<1> HIDE DEF given
<1>9. /\ new = [i \in DOMAIN steps[s] |-> new[i]]
      /\ \A i \in 1..Len(steps[s]) :
           /\ new[i] \in GateRecords /\ new[i].type = steps[s][i].type
           /\ Obeys(steps[s][i], executor[e]) => Obeys(new[i], held)
  BY <1>1, <1>2, <1>6, <1>7, InstalledHere
<1> QED
  BY <1>1, <1>2, <1>5, <1>8, <1>9, SetterStep

\* A request starts past no gate.
LEMMA NewRequest ==
  ASSUME GovInv, NEW r \in Requests, NEW e \in Executors, executor[e] # Absent,
         NEW s \in Shared \cup {e}, NEW m \in Modules, NEW token \in Tokens, NEW dry \in BOOLEAN,
         Start(r, e, s, m, token, dry), Hosts', KindsStay
  PROVE  GovInv'
<1>1. PICK q : q = [executor |-> e, strategy |-> s, module |-> m, token |-> token, dry |-> dry,
                    at |-> 1, approval |-> FALSE, met |-> "nothing", under |-> Nothing,
                    status |-> "running", denied |-> FALSE, requires |-> FALSE, shown |-> FALSE]
  OBVIOUS
<1>2. "nothing" \in Mets /\ "running" \in Statuses /\ Nothing \in PolicySlots /\ s \in Strategies
  BY DEF Mets, Statuses, PolicySlots, Strategies
<1>3. q \in RequestShape
  BY <1>1, <1>2 DEF RequestShape
<1>4. q.met = "nothing" /\ q.at = 1 /\ q.executor = e /\ q.strategy = s
  BY <1>1
<1>5. Fair(q)
  BY <1>4 DEF Fair
<1>6. Fair(q)'
  BY <1>3, <1>5, FairStays DEF GovInv
<1>7. request' = [request EXCEPT ![r] = q]
  BY <1>1 DEF Start
<1> QED
  BY <1>3, <1>6, <1>7, RequestGoes DEF GovInv

LEMMA CallSteps ==
  ASSUME GovInv, NEW r \in Requests, NEW e \in Executors, NEW m \in Modules,
         \/ \E token \in {Nothing, "string", "junk"} : Call(r, e, m, token)
         \/ \E s \in Shared : CallWithTrace(r, e, s, m)
         \/ Validate(r, e, m)
  PROVE  GovInv'
<1>1. /\ executor[e] # Absent /\ executor[e].strategy \in Shared \cup {e}
      /\ Nothing \in Tokens
  BY DEF GovInv, Hosts, Owned, Call, CallWithTrace, Validate, Tokens
<1>2. UNCHANGED <<steps, named, executor, users>> => Hosts' /\ KindsStay
  BY HostsRest DEF GovInv, Hosts, HostTypes
<1>3. CASE \E token \in {Nothing, "string", "junk"} : Call(r, e, m, token)
  <2>1. PICK token \in Tokens : Call(r, e, m, token)
    BY <1>3 DEF Tokens
  <2>2. Start(r, e, executor[e].strategy, m, token, FALSE) /\ Hosts' /\ KindsStay
    BY <1>2, <2>1 DEF Call
  <2> QED
    BY <1>1, <2>2, NewRequest
<1>4. CASE Validate(r, e, m)
  <2>1. Start(r, e, executor[e].strategy, m, Nothing, TRUE) /\ Hosts' /\ KindsStay
    BY <1>2, <1>4 DEF Validate
  <2> QED
    BY <1>1, <2>1, NewRequest
<1>5. CASE \E s \in Shared : CallWithTrace(r, e, s, m)
  <2>1. PICK s \in Shared : CallWithTrace(r, e, s, m)
    BY <1>5
  <2>2. Start(r, e, s, m, Nothing, FALSE) /\ UNCHANGED <<named, executor>>
    BY <2>1 DEF CallWithTrace
  <2>3. Hosts' /\ KindsStay
    <3>1. CASE s = executor[e].strategy
      BY <1>2, <2>1, <3>1 DEF CallWithTrace
    <3>2. CASE s # executor[e].strategy
      <4>1. /\ executor[e] \in Installed /\ Providers(executor[e])
        BY <1>1, InstalledHere, InstalledIsThere
      <4>2. steps[s] \in Seq(GateRecords) /\ InOrder(steps[s]) /\ s \in Strategies
        BY DEF GovInv, Hosts, HostTypes, Ordered, Strategies
      <4>3. PICK new : new = Bind(steps[s], executor[e])
        OBVIOUS
      <4>4. new \in Seq(GateRecords) /\ SameKinds(new, steps[s])
        BY <4>1, <4>2, <4>3, BindGates
      <4>5. InOrder(new)
        BY <4>2, <4>4, OrderStays
      <4>6. steps' = [steps EXCEPT ![s] = new] /\ users' = [users EXCEPT ![s] = @ \cup {e}]
        BY <2>1, <3>2, <4>3 DEF CallWithTrace
      <4>7. PICK held \in Installed : held = executor[e]
        BY <4>1
      <4>8. executor' = [executor EXCEPT ![e] = held]
        BY <2>2, <4>7 DEF GovInv, Hosts, HostTypes
      <4>9. named' \in [StrategyNames -> Shared \cup {Nothing}]
        BY <2>2 DEF GovInv, Hosts, HostTypes
      <4> QED
        BY <1>1, <3>2, <4>4, <4>5, <4>6, <4>7, <4>8, <4>9, HostStep DEF GovInv
    <3> QED
      BY <3>1, <3>2
  <2> QED
    BY <1>1, <2>2, <2>3, NewRequest
<1> QED
  BY <1>3, <1>4, <1>5

LEMMA RegisterStrategyStep ==
  ASSUME GovInv, NEW n \in StrategyNames, NEW s \in Shared, RegisterStrategy(n, s)
  PROVE  GovInv'
<1>1. /\ named' \in [StrategyNames -> Shared \cup {Nothing}]
      /\ UNCHANGED <<steps, executor, users, request>>
  BY DEF RegisterStrategy, GovInv, Hosts, HostTypes
<1>2. Hosts' /\ KindsStay
  BY <1>1, HostsRest DEF GovInv
<1> QED
  BY <1>1, <1>2, RequestsStay DEF GovInv

----------------------------------------------------------------------------
(* The theorems *)

LEMMA GovStart ==
  ASSUME GovInit
  PROVE  GovInv
<1>1. <<>> \in Seq(GateRecords) /\ InOrder(<<>>)
  BY DEF InOrder, Sorted
<1>2. HostTypes
  BY <1>1, GovernanceAssumption DEF HostTypes, GovInit
<1>3. Owned /\ HeldIsEnforced
  BY DEF Owned, HeldIsEnforced, GovInit
<1>4. Ordered
  BY <1>1 DEF Ordered, GovInit, InOrder, GatesInOrder
<1>5. AllFair
  BY DEF AllFair, GovInit
<1> QED
  BY <1>2, <1>3, <1>4, <1>5 DEF GovInv, Hosts

LEMMA GovStep ==
  ASSUME GovInv, [GovNext]_govVars
  PROVE  GovInv'
<1>1. ASSUME NEW e \in Executors, NEW held \in Grants,
             \/ \E left \in StandardLess : ConstructDefault(e, left, held)
             \/ \E n \in StrategyNames : ConstructNamed(e, n, held)
             \/ \E s \in Shared : ConstructOver(e, s, held)
      PROVE  GovInv'
  BY <1>1, ConstructStep
<1>2. ASSUME NEW n \in StrategyNames, NEW s \in Shared, RegisterStrategy(n, s)
      PROVE  GovInv'
  BY <1>2, RegisterStrategyStep
<1>3. ASSUME NEW e \in Executors,
             \/ \E acl \in Acls : SetAcl(e, acl)
             \/ \E handler \in Handlers : SetApprovalHandler(e, handler)
             \/ \E policy \in Policies \cup {Nothing} : SetPolicy(e, policy)
      PROVE  GovInv'
  BY <1>3, SetAclStep, SetHandlerStep, SetPolicyStep
<1>4. ASSUME NEW r \in Requests, NEW e \in Executors, NEW m \in Modules,
             \/ \E token \in {Nothing, "string", "junk"} : Call(r, e, m, token)
             \/ \E s \in Shared : CallWithTrace(r, e, s, m)
             \/ Validate(r, e, m)
      PROVE  GovInv'
  BY <1>4, CallSteps
<1>5. ASSUME NEW r \in Requests,
             PlainStep(r) \/ AclCheck(r) \/ ApprovalGate(r) \/ Finish(r) \/ Report(r)
      PROVE  GovInv'
  BY <1>5, PlainStepFair, AclCheckFair, ApprovalGateFair, FinishFair, ReportFair
<1>6. CASE UNCHANGED govVars
  <2>1. UNCHANGED <<steps, named, executor, users, request>>
    BY <1>6 DEF govVars
  <2>2. Hosts' /\ KindsStay
    BY <2>1, HostsRest DEF GovInv, Hosts, HostTypes
  <2> QED
    BY <2>1, <2>2, RequestsStay DEF GovInv
<1> QED
  BY <1>1, <1>2, <1>3, <1>4, <1>5, <1>6 DEF GovNext

\* Whatever strategies an executor was given or ran, and whoever else wrote to
\* them, one that has its strategy to itself finds in the gates what it holds.
THEOREM HeldIsAlwaysEnforced == GovSpec => []HeldIsEnforced
<1>1. GovInv => HeldIsEnforced
  BY DEF GovInv, Hosts
<1> QED
  BY <1>1, GovStart, GovStep, PTL DEF GovSpec

\* When every strategy asks the ACL before the approval gate, the gates hold what
\* the executor was given, and nothing passes unasked that the ACL, either source
\* of the annotations or a most specific rule demanded: for any executors and
\* strategies, any policies and any setters between two steps of a call.
THEOREM GatesAreBinding ==
  ASSUME GatesInOrder
  PROVE  GovSpec => []GatesBind
<1>1. GovInv => GatesBind
  BY DEF GovInv, Hosts, AllFair, Fair, GatesBind, RequirementStands
<1> QED
  BY <1>1, GovStart, GovStep, PTL DEF GovSpec

\* A report of governanceState() that leaves the control surface unmarked is
\* true of the gates, in every state.
LEMMA TrueReport == NeverOverstates
<1> SUFFICES ASSUME NEW e \in Executors, ~UnprotectedControlSurface(e), NEW m \in Control
             PROVE
      \/ \E step \in Range(steps[executor[e].strategy]) : step.type = "acl" /\ step.acl # Nothing
      \/ \E step \in Range(steps[executor[e].strategy]) :
           /\ step.type = "approval"
           /\ step.handler # Nothing \/ StrictPolicy(step.policy)
           /\ Needs(step.policy, m, FALSE) \/ Waives(step.policy, m)
  BY DEF NeverOverstates
<1>1. CASE AclConfigured(e) /\ AclGates(e) # {}
  BY <1>1 DEF AclConfigured, AclGates, StepsOf, IsAclGate
<1>2. CASE /\ ApprovalGates(e) # {} /\ Union(m).requires
           /\ HandlerConfigured(e) \/ PolicyStrict(e)
  <2>1. PICK gate \in ApprovalGates(e) : gate.handler # Nothing \/ StrictPolicy(gate.policy)
    BY <1>2 DEF HandlerConfigured, PolicyStrict
  <2>2. gate \in Range(steps[executor[e].strategy]) /\ gate.type = "approval"
    BY <2>1 DEF ApprovalGates, StepsOf, IsApprovalGate
  <2>3. Needs(gate.policy, m, FALSE) \/ Waives(gate.policy, m)
    BY <1>2 DEF Needs, Waives
  <2> QED
    BY <2>1, <2>2, <2>3
<1> QED
  BY <1>1, <1>2 DEF UnprotectedControlSurface

\* governanceState() never calls a control surface protected that a call could
\* reach with neither an ACL nor anyone to approve it.
THEOREM ReportNeverOverstates == GovSpec => []NeverOverstates
  BY TrueReport, PTL

\* A request is reported on by its own report and by no other step.
LEMMA OnlyReportReports ==
  ASSUME GovInv, [GovNext]_govVars, NEW r \in Requests, Reports(r)
  PROVE  Report(r)
<1>1. /\ request[r] # Absent /\ request[r].status = "reporting"
      /\ request'[r].status = "reported" /\ request'[r] # request[r]
  BY DEF Reports
<1>2. ~UNCHANGED request
  BY <1>1
<1>3. ASSUME NEW x \in Requests, NEW q, request' = [request EXCEPT ![x] = q]
      PROVE  x = r
  BY <1>1, <1>3 DEF GovInv, AllFair
<1>4. ASSUME NEW e \in Executors, NEW held \in Grants,
             \/ \E left \in StandardLess : ConstructDefault(e, left, held)
             \/ \E n \in StrategyNames : ConstructNamed(e, n, held)
             \/ \E s \in Shared : ConstructOver(e, s, held)
      PROVE  FALSE
  BY <1>2, <1>4 DEF ConstructDefault, ConstructNamed, ConstructOver
<1>5. ASSUME NEW n \in StrategyNames, NEW s \in Shared, RegisterStrategy(n, s)
      PROVE  FALSE
  BY <1>2, <1>5 DEF RegisterStrategy
<1>6. ASSUME NEW e \in Executors,
             \/ \E acl \in Acls : SetAcl(e, acl)
             \/ \E handler \in Handlers : SetApprovalHandler(e, handler)
             \/ \E policy \in Policies \cup {Nothing} : SetPolicy(e, policy)
      PROVE  FALSE
  BY <1>2, <1>6 DEF SetAcl, SetApprovalHandler, SetPolicy, Write
<1>7. ASSUME NEW x \in Requests, NEW e \in Executors, NEW m \in Modules,
             \/ \E token \in {Nothing, "string", "junk"} : Call(x, e, m, token)
             \/ \E s \in Shared : CallWithTrace(x, e, s, m)
             \/ Validate(x, e, m)
      PROVE  FALSE
  <2>1. ASSUME NEW s, NEW token, NEW dry, Start(x, e, s, m, token, dry)
        PROVE  FALSE
    <3>1. request[x] = Absent /\ \E q : request' = [request EXCEPT ![x] = q]
      BY <2>1 DEF Start
    <3> QED
      BY <1>1, <1>3, <3>1
  <2> QED
    BY <1>7, <2>1 DEF Call, CallWithTrace, Validate
<1>8. ASSUME NEW x \in Requests,
             PlainStep(x) \/ AclCheck(x) \/ ApprovalGate(x) \/ Finish(x) \/ Report(x)
      PROVE  Report(r)
  <2>1. \E q : Becomes(x, q)
    BY <1>8 DEF PlainStep, AclCheck, ApprovalGate, Finish, Report
  <2>2. x = r
    BY <1>3, <2>1 DEF Becomes
  <2>3. ~Running(r)
    BY <1>1 DEF Running
  <2> QED
    BY <1>8, <2>2, <2>3 DEF PlainStep, AclCheck, ApprovalGate, Finish, AtEnd
<1>9. CASE UNCHANGED govVars
  BY <1>2, <1>9 DEF govVars
<1> QED
  BY <1>4, <1>5, <1>6, <1>7, <1>8, <1>9 DEF GovNext

\* What the preflight says of an approval is what the executor's policy makes of
\* the module and of what the ACL demanded.
LEMMA TrueForecast ==
  ASSUME GovInv, [GovNext]_govVars, NEW r \in Requests, Reports(r), NEW policy \in PolicySlots,
         policy = executor[request[r].executor].policy
  PROVE  /\ Wanted(policy, request[r].module) \/ request[r].approval => request'[r].requires
         /\ request'[r].requires => Needs(policy, request[r].module, request[r].approval)
         /\ request'[r].shown => ~request[r].denied
<1>1. Report(r) /\ request[r] \in RequestShape
  BY OnlyReportReports DEF GovInv, AllFair, Report
<1>2. PICK q \in RequestShape : q = request[r]
  BY <1>1
<1>3. PICK b : b = Foretold(q.executor, q.module, q.approval)
  OBVIOUS
<1>4. PICK d : d = ~q.denied
  OBVIOUS
<1>5. request' = [request EXCEPT ![r] = [q EXCEPT !.status = "reported", !.requires = b, !.shown = d]]
  BY <1>1, <1>2, <1>3, <1>4 DEF Report, Becomes
<1>6. request'[r] = [q EXCEPT !.status = "reported", !.requires = b, !.shown = d]
  BY <1>5 DEF GovInv, AllFair
<1>7. request'[r].requires = b /\ request'[r].shown = d
  BY <1>6 DEF RequestShape
<1>8. b = Needs(policy, q.module, q.approval)
  BY <1>2, <1>3 DEF Foretold
<1>9. Wanted(policy, q.module) \/ q.approval => Needs(policy, q.module, q.approval)
  BY RequestShapeFields, WantedIsNeeded
<1> QED
  BY <1>2, <1>4, <1>7, <1>8, <1>9

\* The preflight foretells what the gate will demand whenever the gate holds the
\* executor's own policy, and shows the module only to a caller the ACL allows.
THEOREM PreflightForetells == GovSpec => PreflightTells
<1>1. ASSUME GovInv, [GovNext]_govVars, NEW r \in Requests, Reports(r),
             NEW policy \in GatePolicies(request[r].strategy),
             policy = executor[request[r].executor].policy
      PROVE  /\ Wanted(policy, request[r].module) \/ request[r].approval => request'[r].requires
             /\ request'[r].requires => Needs(policy, request[r].module, request[r].approval)
             /\ request'[r].shown => ~request[r].denied
  <2>1. request[r] \in RequestShape /\ Fair(request[r])
    BY <1>1 DEF Reports, GovInv, AllFair
  <2>2. request[r].executor \in Executors /\ executor[request[r].executor] # Absent
    BY <2>1, RequestShapeFields DEF Fair
  <2>3. executor[request[r].executor] \in Installed
    BY <1>1, <2>2 DEF GovInv, Hosts, HostTypes
  <2>4. policy \in PolicySlots
    BY <1>1, <2>3 DEF Installed
  <2> QED
    BY <1>1, <2>4, TrueForecast
<1>2. GovInv /\ [GovNext]_govVars =>
        [\A r \in Requests : Reports(r) =>
           LET q == request[r]
           IN \A policy \in GatePolicies(q.strategy) :
                policy = executor[q.executor].policy =>
                  /\ Wanted(policy, q.module) \/ q.approval => request'[r].requires
                  /\ request'[r].requires => Needs(policy, q.module, q.approval)
                  /\ request'[r].shown => ~q.denied]_govVars
  BY <1>1
<1> QED
  BY <1>2, GovStart, GovStep, PTL DEF GovSpec, PreflightTells

----------------------------------------------------------------------------
(* Access control: what an evaluation knows at each of its awaits *)

EvalFields ==
  {"pc", "mode", "input", "rules", "default", "idx", "pending", "clause", "branch", "leaf",
   "bound", "boundBranch", "saw", "sawOr", "sawBranch", "out", "decision", "report"}

IsAnEval(v) == v = [k \in EvalFields |-> v[k]]

\* v is w but for the fields in F.
DiffersIn(v, w, F) == IsAnEval(v) /\ \A k \in EvalFields \ F : v[k] = w[k]

\* No rule before the one at hand decides, and what they leave pending is known.
InList(v) ==
  /\ IsAnEval(v)
  /\ v.mode = "async" /\ v.input \in Inputs /\ v.rules \in Seq(Rules) /\ v.idx \in DOMAIN v.rules
  /\ \A h \in 1 .. (v.idx - 1) : ~Decides(v.input, v.rules[h], "async")
  /\ v.pending = \E h \in 1 .. (v.idx - 1) :
                   Verdict(v.input, v.rules[h], "async") = "unevaluable" /\ RaisesPending(v.rules[h])

\* The rule's conditions are asked, and none before the clause at hand said no.
InRule(v) ==
  /\ InScope(v.input, RuleOf(v)) /\ Precheck(RuleOf(v), "async") = {}
  /\ v.input.context = TRUE
  /\ v.clause \in DOMAIN RuleOf(v).conditions
  /\ \A i \in 1 .. (v.clause - 1) : ClauseOutcome(v.input, RuleOf(v).conditions[i]) # "unsatisfied"
  /\ v.saw = \E i \in 1 .. (v.clause - 1) :
               ClauseOutcome(v.input, RuleOf(v).conditions[i]) = "unevaluable"

\* No branch before the one at hand said yes.
InTree(v) ==
  /\ ClauseOf(v).op # "leaf" /\ v.branch \in DOMAIN ClauseOf(v).branches
  /\ \A j \in 1 .. (v.branch - 1) : ConjOutcome(v.input, ClauseOf(v).branches[j]) # "satisfied"
  /\ v.sawOr = \E j \in 1 .. (v.branch - 1) :
                 ConjOutcome(v.input, ClauseOf(v).branches[j]) = "unevaluable"

\* No key before the one at hand said no.
InConjunction(v) ==
  /\ v.leaf \in DOMAIN BranchOf(v)
  /\ \A l \in 1 .. (v.leaf - 1) : KeyOutcome(v.input, BranchOf(v)[l]) # "unsatisfied"
  /\ v.sawBranch = \E l \in 1 .. (v.leaf - 1) : KeyOutcome(v.input, BranchOf(v)[l]) = "unevaluable"

AtRule(v) == InList(v) /\ v.pc = "rule" /\ v.saw = FALSE /\ v.out = Verdict(v.input, RuleOf(v), "async")
AtClause(v) ==
  /\ InList(v) /\ InRule(v) /\ v.pc = "clause" /\ ClauseOf(v).op # "leaf"
  /\ v.out = ClauseOutcome(v.input, ClauseOf(v))
AtBranch(v) ==
  InList(v) /\ InRule(v) /\ InTree(v) /\ v.pc = "branch" /\ v.out = ConjOutcome(v.input, BranchOf(v))
AtLeaf(v) ==
  /\ InList(v) /\ InRule(v) /\ v.pc = "leaf" /\ v.out = KeyOutcome(v.input, KeyOf(v))
  /\ ClauseOf(v).op = "leaf" => v.branch = 1 /\ v.leaf = 1
  /\ ClauseOf(v).op # "leaf" => InTree(v) /\ InConjunction(v)

Proceeds(v) == AtRule(v) \/ AtClause(v) \/ AtBranch(v) \/ AtLeaf(v)

Concluded(v) ==
  /\ v.rules \in Seq(Rules) /\ v.decision = Decide(v.input, v.rules, v.default, v.mode)

Evaluates(e) ==
  LET v == eval[e]
  IN \/ v.pc = "idle"
     \/ v.pc = "done" /\ Concluded(v)
     \/ v.pc \notin {"idle", "done"} /\ Proceeds(v) /\ frame[e].args = v.input.args

FramesShaped ==
  /\ frame = [e \in Evals |-> frame[e]]
  /\ \A e \in Evals : DOMAIN frame[e] = {"errors", "args", "previous"}

ACLInv ==
  /\ rules \in Seq(Rules) /\ OwnArguments
  /\ eval = [e \in Evals |-> eval[e]]
  /\ FramesShaped
  /\ \A e \in Evals : Evaluates(e)

----------------------------------------------------------------------------
LEMMA RuleShape ==
  ASSUME ACLAssumption, NEW rs \in Seq(Rules), NEW i \in DOMAIN rs
  PROVE  rs[i] \in Rules /\ IsARule(rs[i])
  BY DEF ACLAssumption

LEMMA AskedParts ==
  ASSUME NEW v, IsAnEval(v), NEW cur, NEW w, w = Asked(v, cur)
  PROVE  /\ DiffersIn(w, v, {"pc", "out"}) /\ w.pc = "leaf"
         /\ w.out = Answer(v.input, cur.args, KeyOf(v))
  BY DEF Asked, DiffersIn, IsAnEval, EvalFields

LEMMA ConditionsOf ==
  ASSUME NEW r, IsARule(r)
  PROVE  /\ DOMAIN r.conditions = 1 .. Len(r.conditions) /\ Len(r.conditions) \in Nat
         /\ \A i \in DOMAIN r.conditions : IsAClause(r.conditions[i])
  BY DEF IsARule

\* The conjunction and the clause a key or a branch is asked in.
LEMMA PlaceOf ==
  ASSUME NEW r, IsARule(r), NEW i \in DOMAIN r.conditions,
         NEW j \in DOMAIN r.conditions[i].branches, NEW l \in DOMAIN r.conditions[i].branches[j]
  PROVE  <<i, j, l>> \in Places(r) /\ KeyAt(r, <<i, j, l>>) = r.conditions[i].branches[j][l]
<1>0. PICK c : c = r.conditions[i]
  OBVIOUS
<1>1. j \in 1 .. 3 /\ l \in 1 .. 3
  <2>1. IsAClause(c) /\ j \in DOMAIN c.branches /\ l \in DOMAIN c.branches[j]
    BY <1>0, ConditionsOf
  <2> QED
    BY <2>1 DEF IsAClause
<1> QED
  BY <1>1 DEF Places, KeyAt

First(i, j, l) == i = 1 /\ j = 1 /\ l = 1

\* A place of a rule's conditions, and that the key there answers what it would
\* with the arguments of the call.
IsPlace(r, i, j, l) ==
  /\ r \in Rules /\ IsARule(r) /\ i \in DOMAIN r.conditions
  /\ j \in DOMAIN r.conditions[i].branches /\ l \in DOMAIN r.conditions[i].branches[j]
AnswersOwn(r, i, j, l, args, input) ==
  Answer(input, args, r.conditions[i].branches[j][l]) =
    KeyOutcome(input, r.conditions[i].branches[j][l])

LEMMA Answered ==
  ASSUME ArgumentsFirst, NEW r, NEW i, NEW j, NEW l, NEW args, NEW input,
         IsPlace(r, i, j, l), First(i, j, l) => args = input.args
  PROVE  AnswersOwn(r, i, j, l, args, input)
<1>1. <<i, j, l>> \in Places(r) /\ KeyAt(r, <<i, j, l>>) = r.conditions[i].branches[j][l]
  BY PlaceOf DEF IsPlace
<1>2. CASE r.conditions[i].branches[j][l] = "arguments"
  <2>1. <<i, j, l>> = <<1, 1, 1>>
    BY <1>1, <1>2 DEF ArgumentsFirst, IsPlace
  <2> QED
    BY <1>2, <2>1 DEF Answer, KeyOutcome, First, AnswersOwn
<1>3. CASE r.conditions[i].branches[j][l] # "arguments"
  BY <1>3 DEF Answer, KeyOutcome, AnswersOwn
<1> QED
  BY <1>2, <1>3

----------------------------------------------------------------------------
(* Entering a key, a branch, a clause, a rule *)

\* cur is a frame whose arguments are those of v, unless v has awaited
\* something in this rule.
Armed(v, cur, i, j, l) == i = 1 /\ j = 1 /\ l = 1 => cur.args = v.input.args

LEMMA ShapeAt ==
  ASSUME ACLAssumption, NEW v, InList(v)
  PROVE  RuleOf(v) \in Rules /\ IsARule(RuleOf(v))
  BY RuleShape DEF InList, RuleOf

LEMMA AsksBranch ==
  ASSUME ACLAssumption, ArgumentsFirst, NEW v, InList(v), InRule(v), InTree(v), InConjunction(v),
         NEW cur, Armed(v, cur, v.clause, v.branch, v.leaf), NEW n, n = Asked(v, cur)
  PROVE  /\ AtLeaf(n) /\ n.input = v.input
         /\ n.clause = v.clause /\ n.branch = v.branch /\ n.leaf = v.leaf
<1>0. PICK w : w = n
  OBVIOUS
<1>1. /\ DiffersIn(w, v, {"pc", "out"}) /\ w.pc = "leaf"
      /\ w.out = Answer(v.input, cur.args, KeyOf(v))
  BY <1>0, AskedParts DEF InList
<1>2. /\ w.mode = v.mode /\ w.input = v.input /\ w.rules = v.rules /\ w.idx = v.idx
      /\ w.pending = v.pending /\ w.clause = v.clause /\ w.branch = v.branch /\ w.leaf = v.leaf
      /\ w.saw = v.saw /\ w.sawOr = v.sawOr /\ w.sawBranch = v.sawBranch
  BY <1>1 DEF DiffersIn, EvalFields
<1>3. RuleOf(w) = RuleOf(v) /\ ClauseOf(w) = ClauseOf(v) /\ BranchOf(w) = BranchOf(v) /\ KeyOf(w) = KeyOf(v)
  BY <1>2 DEF RuleOf, ClauseOf, BranchOf, KeyOf
<1>4. InList(w)
  BY <1>1, <1>2 DEF InList, DiffersIn
<1>5. InRule(w) /\ InTree(w) /\ InConjunction(w)
  BY <1>2, <1>3 DEF InRule, InTree, InConjunction
<1>6. Answer(v.input, cur.args, KeyOf(v)) = KeyOutcome(v.input, KeyOf(v))
  <2>1. /\ v.clause \in DOMAIN RuleOf(v).conditions /\ v.branch \in DOMAIN ClauseOf(v).branches
        /\ v.leaf \in DOMAIN BranchOf(v)
    BY DEF InRule, InTree, InConjunction
  <2>2. RuleOf(v) \in Rules /\ IsARule(RuleOf(v))
    BY ShapeAt
  <2>3. PICK r, i, j, l, args, input : /\ r = RuleOf(v) /\ i = v.clause /\ j = v.branch
                                       /\ l = v.leaf /\ args = cur.args /\ input = v.input
    OBVIOUS
  <2>4. /\ IsPlace(r, i, j, l)
        /\ (First(i, j, l) => args = input.args)
    BY <2>1, <2>2, <2>3 DEF ClauseOf, BranchOf, Armed, First, IsPlace
  <2>5. KeyOf(v) = r.conditions[i].branches[j][l]
    BY <2>3 DEF ClauseOf, BranchOf, KeyOf
  <2>6. AnswersOwn(r, i, j, l, args, input)
    BY <2>4, Answered
  <2> QED
    BY <2>3, <2>5, <2>6 DEF AnswersOwn
<1>7. ClauseOf(w).op # "leaf"
  BY <1>5 DEF InTree
<1> QED
  BY <1>0, <1>1, <1>2, <1>3, <1>4, <1>5, <1>6, <1>7 DEF AtLeaf

LEMMA AsksLeaf ==
  ASSUME ACLAssumption, ArgumentsFirst, NEW v, InList(v), InRule(v), ClauseOf(v).op = "leaf",
         v.branch = 1, v.leaf = 1,
         NEW cur, Armed(v, cur, v.clause, 1, 1), NEW n, n = Asked(v, cur)
  PROVE  AtLeaf(n) /\ n.input = v.input /\ n.clause = v.clause
<1>0. PICK w : w = n
  OBVIOUS
<1>1. /\ DiffersIn(w, v, {"pc", "out"}) /\ w.pc = "leaf"
      /\ w.out = Answer(v.input, cur.args, KeyOf(v))
  BY <1>0, AskedParts DEF InList
<1>2. /\ w.mode = v.mode /\ w.input = v.input /\ w.rules = v.rules /\ w.idx = v.idx
      /\ w.pending = v.pending /\ w.clause = v.clause /\ w.branch = v.branch /\ w.leaf = v.leaf
      /\ w.saw = v.saw
  BY <1>1 DEF DiffersIn, EvalFields
<1>3. RuleOf(w) = RuleOf(v) /\ ClauseOf(w) = ClauseOf(v) /\ KeyOf(w) = KeyOf(v)
  BY <1>2 DEF RuleOf, ClauseOf, BranchOf, KeyOf
<1>4. InList(w)
  BY <1>1, <1>2 DEF InList, DiffersIn
<1>5. InRule(w)
  BY <1>2, <1>3 DEF InRule
<1>6. Answer(v.input, cur.args, KeyOf(v)) = KeyOutcome(v.input, KeyOf(v))
  <2>1. RuleOf(v) \in Rules /\ IsARule(RuleOf(v))
    BY ShapeAt
  <2>2. v.clause \in DOMAIN RuleOf(v).conditions
    BY DEF InRule
  <2>3. 1 \in DOMAIN ClauseOf(v).branches /\ 1 \in DOMAIN ClauseOf(v).branches[1]
    BY <2>1, <2>2 DEF IsARule, IsAClause, ClauseOf
  <2>4. PICK r, i, j, l, args, input : /\ r = RuleOf(v) /\ i = v.clause /\ j = 1 /\ l = 1
                                       /\ args = cur.args /\ input = v.input
    OBVIOUS
  <2>5. /\ IsPlace(r, i, j, l)
        /\ (First(i, j, l) => args = input.args)
    BY <2>1, <2>2, <2>3, <2>4 DEF ClauseOf, Armed, First, IsPlace
  <2>6. KeyOf(v) = r.conditions[i].branches[j][l]
    BY <2>4 DEF ClauseOf, BranchOf, KeyOf
  <2>7. AnswersOwn(r, i, j, l, args, input)
    BY <2>5, Answered
  <2> QED
    BY <2>4, <2>6, <2>7 DEF AnswersOwn
<1> QED
  BY <1>0, <1>1, <1>2, <1>3, <1>4, <1>5, <1>6 DEF AtLeaf

\* The loop over a tree's branches has come to branch j.
ComesToBranch(v, j) ==
  /\ ClauseOf(v).op # "leaf" /\ j \in DOMAIN ClauseOf(v).branches
  /\ \A i \in 1 .. (j - 1) : ConjOutcome(v.input, ClauseOf(v).branches[i]) # "satisfied"
  /\ v.sawOr = \E i \in 1 .. (j - 1) :
                 ConjOutcome(v.input, ClauseOf(v).branches[i]) = "unevaluable"

LEMMA EntersBranch ==
  ASSUME ACLAssumption, ArgumentsFirst, NEW v, InList(v), InRule(v),
         NEW j, ComesToBranch(v, j), NEW cur, Armed(v, cur, v.clause, j, 1), NEW n, n = EnterBranch(v, cur, j)
  PROVE  AtLeaf(n) /\ n.input = v.input /\ n.clause = v.clause /\ n.branch = j
<1>1. PICK w : w = [v EXCEPT !.branch = j, !.leaf = 1, !.sawBranch = FALSE, !.boundBranch = cur.slot]
  OBVIOUS
<1>2. IsAnEval(v)
  BY DEF InList
<1>3. /\ IsAnEval(w) /\ w.branch = j /\ w.leaf = 1 /\ w.sawBranch = FALSE
      /\ w.mode = v.mode /\ w.input = v.input /\ w.rules = v.rules /\ w.idx = v.idx
      /\ w.pending = v.pending /\ w.clause = v.clause /\ w.saw = v.saw /\ w.sawOr = v.sawOr
  BY <1>1, <1>2 DEF IsAnEval, EvalFields
<1>4. RuleOf(w) = RuleOf(v) /\ ClauseOf(w) = ClauseOf(v) /\ BranchOf(w) = ClauseOf(v).branches[j]
  BY <1>3 DEF RuleOf, ClauseOf, BranchOf
<1>5. InList(w)
  BY <1>3 DEF InList
<1>6. InRule(w)
  BY <1>3, <1>4 DEF InRule
<1>7. InTree(w)
  BY <1>3, <1>4 DEF InTree, ComesToBranch
<1>8. InConjunction(w)
  <2>1. IsARule(RuleOf(v)) /\ v.clause \in DOMAIN RuleOf(v).conditions
    BY ShapeAt DEF InRule
  <2>2. IsAClause(ClauseOf(v))
    BY <2>1 DEF IsARule, ClauseOf
  <2>3. 1 \in DOMAIN ClauseOf(v).branches[j]
    BY <2>2 DEF IsAClause, ComesToBranch
  <2>4. 1 .. (w.leaf - 1) = {} /\ w.leaf \in DOMAIN BranchOf(w)
    BY <1>3, <1>4, <2>3
  <2> QED
    BY <1>3, <2>4 DEF InConjunction
<1>9. Armed(w, cur, w.clause, w.branch, w.leaf)
  BY <1>3 DEF Armed
<1>10. n = Asked(w, cur)
  BY <1>1 DEF EnterBranch
<1> QED
  BY <1>3, <1>5, <1>6, <1>7, <1>8, <1>9, <1>10, AsksBranch

\* The loop over the rule's conditions has come to clause i.
ComesTo(v, i) ==
  /\ InScope(v.input, RuleOf(v)) /\ Precheck(RuleOf(v), "async") = {}
  /\ v.input.context = TRUE
  /\ i \in DOMAIN RuleOf(v).conditions
  /\ \A h \in 1 .. (i - 1) : ClauseOutcome(v.input, RuleOf(v).conditions[h]) # "unsatisfied"
  /\ v.saw = \E h \in 1 .. (i - 1) :
               ClauseOutcome(v.input, RuleOf(v).conditions[h]) = "unevaluable"

LEMMA EntersClause ==
  ASSUME ACLAssumption, ArgumentsFirst, NEW v, InList(v), NEW i, ComesTo(v, i),
         NEW cur, Armed(v, cur, i, 1, 1), NEW n, n = EnterClause(v, cur, i)
  PROVE  AtLeaf(n) /\ n.input = v.input /\ n.clause = i
<1>1. PICK w : w = [v EXCEPT !.clause = i, !.sawOr = FALSE]
  OBVIOUS
<1>2. IsAnEval(v)
  BY DEF InList
<1>3. /\ IsAnEval(w) /\ w.clause = i /\ w.sawOr = FALSE
      /\ w.mode = v.mode /\ w.input = v.input /\ w.rules = v.rules /\ w.idx = v.idx
      /\ w.pending = v.pending /\ w.saw = v.saw
  BY <1>1, <1>2 DEF IsAnEval, EvalFields
<1>4. RuleOf(w) = RuleOf(v) /\ ClauseOf(w) = RuleOf(v).conditions[i]
  BY <1>3 DEF RuleOf, ClauseOf
<1>5. InList(w)
  BY <1>3 DEF InList
<1>6. InRule(w)
  BY <1>3, <1>4 DEF InRule, ComesTo
<1>7. IsARule(RuleOf(v))
  BY ShapeAt
<1>8. CASE RuleOf(v).conditions[i].op = "leaf"
  <2>1. PICK u : u = [w EXCEPT !.branch = 1, !.leaf = 1]
    OBVIOUS
  <2>2. /\ IsAnEval(u) /\ u.branch = 1 /\ u.leaf = 1
        /\ u.mode = w.mode /\ u.input = w.input /\ u.rules = w.rules /\ u.idx = w.idx
        /\ u.pending = w.pending /\ u.clause = w.clause /\ u.saw = w.saw
    BY <1>3, <2>1 DEF IsAnEval, EvalFields
  <2>3. RuleOf(u) = RuleOf(w) /\ ClauseOf(u) = ClauseOf(w)
    BY <2>2 DEF RuleOf, ClauseOf
  <2>4. InList(u)
    BY <1>5, <2>2 DEF InList
  <2>5. InRule(u)
    BY <1>6, <2>2, <2>3 DEF InRule
  <2>6. n = Asked(u, cur)
    BY <1>1, <1>8, <2>1 DEF EnterClause
  <2>7. Armed(u, cur, u.clause, 1, 1)
    BY <1>3, <2>2 DEF Armed
  <2> QED
    BY <1>3, <1>4, <1>8, <2>2, <2>3, <2>4, <2>5, <2>6, <2>7, AsksLeaf
<1>9. CASE RuleOf(v).conditions[i].op # "leaf"
  <2>1. n = EnterBranch(w, cur, 1)
    BY <1>1, <1>9 DEF EnterClause
  <2>2. 1 \in DOMAIN ClauseOf(w).branches
    BY <1>4, <1>7, ConditionsOf DEF IsAClause, ComesTo
  <2>3. Armed(w, cur, w.clause, 1, 1)
    BY <1>3 DEF Armed
  <2>4. PICK j : j = 1
    OBVIOUS
  <2>5. 1 .. (j - 1) = {}
    BY <2>4
  <2>6. ComesToBranch(w, j) /\ Armed(w, cur, w.clause, j, 1) /\ n = EnterBranch(w, cur, j)
    BY <1>3, <1>4, <1>9, <2>1, <2>2, <2>3, <2>4, <2>5 DEF ComesToBranch
  <2> QED
    BY <1>3, <1>5, <1>6, <2>6, EntersBranch
<1> QED
  BY <1>8, <1>9

----------------------------------------------------------------------------
(* What comes back to a loop *)

\* The two outcomes that a loop tells apart.
SameTo(out, o) == (out = "unsatisfied" <=> o = "unsatisfied") /\ (out = "unevaluable" <=> o = "unevaluable")

\* The position in the list, at whatever rule: InList but for the fields that
\* entering the rule writes.
Rated(v, i) ==
  /\ IsAnEval(v) /\ v.saw = FALSE
  /\ v.mode = "async" /\ v.input \in Inputs /\ v.rules \in Seq(Rules) /\ i \in DOMAIN v.rules
  /\ \A h \in 1 .. (i - 1) : ~Decides(v.input, v.rules[h], "async")
  /\ v.pending = \E h \in 1 .. (i - 1) :
                   Verdict(v.input, v.rules[h], "async") = "unevaluable" /\ RaisesPending(v.rules[h])

\* Whatever key is asked now, it is not the rule's first.
Beyond(n) == n.pc = "leaf" => ~(n.clause = 1 /\ n.branch = 1 /\ n.leaf = 1)

LEMMA SaysOfRule ==
  ASSUME NEW v, InList(v), NEW out, out = Verdict(v.input, RuleOf(v), "async"),
         NEW n, n = RuleSaid(v, out)
  PROVE  AtRule(n) /\ n.input = v.input
<1>0. PICK w, o : w = n /\ o = out
  OBVIOUS
<1>1. /\ IsAnEval(w) /\ w.pc = "rule" /\ w.out = o
      /\ w.mode = v.mode /\ w.input = v.input /\ w.rules = v.rules
      /\ w.idx = v.idx /\ w.pending = v.pending /\ w.saw = FALSE
  <2>1. IsAnEval(v) /\ w = RuleSaid(v, o)
    BY <1>0 DEF InList
  <2> QED
    BY <2>1 DEF RuleSaid, IsAnEval, EvalFields
<1>2. RuleOf(w) = RuleOf(v)
  BY <1>1 DEF RuleOf
<1>3. InList(w)
  BY <1>1 DEF InList
<1> QED
  BY <1>0, <1>1, <1>2, <1>3 DEF AtRule

LEMMA EntersRule ==
  ASSUME ACLAssumption, ArgumentsFirst, NEW v, NEW i, Rated(v, i),
         NEW cur, cur.args = v.input.args,
         NEW n, n = EnterRule(v, cur, i)
  PROVE  Proceeds(n) /\ n.input = v.input
<1>1. PICK w : w = [v EXCEPT !.idx = i]
  OBVIOUS
<1>2. /\ IsAnEval(w) /\ w.idx = i /\ w.mode = v.mode /\ w.input = v.input /\ w.rules = v.rules
      /\ w.pending = v.pending
  BY <1>1 DEF Rated, IsAnEval, EvalFields
<1>3. PICK r : r = v.rules[i]
  OBVIOUS
<1>4. RuleOf(w) = r
  BY <1>2, <1>3 DEF RuleOf
<1>5. InList(w)
  BY <1>2 DEF InList, Rated
<1>6. IsARule(r)
  BY <1>4, <1>5, ShapeAt
<1>7. CASE ~InScope(v.input, r)
  <2>1. n = RuleSaid(w, "no_match")
    BY <1>1, <1>3, <1>7 DEF EnterRule
  <2>2. Verdict(w.input, RuleOf(w), "async") = "no_match"
    BY <1>2, <1>4, <1>7 DEF Verdict
  <2> QED
    BY <1>2, <1>5, <2>1, <2>2, SaysOfRule DEF Proceeds
<1>8. CASE InScope(v.input, r) /\ Precheck(r, "async") # {}
  <2>1. n = RuleSaid(w, "unevaluable")
    BY <1>1, <1>3, <1>8 DEF EnterRule
  <2>2. Verdict(w.input, RuleOf(w), "async") = "unevaluable"
    BY <1>2, <1>4, <1>8 DEF Verdict
  <2> QED
    BY <1>2, <1>5, <2>1, <2>2, SaysOfRule DEF Proceeds
<1>9. CASE InScope(v.input, r) /\ Precheck(r, "async") = {} /\ r.conditions = <<>>
  <2>1. n = RuleSaid(w, "match")
    BY <1>1, <1>3, <1>9 DEF EnterRule
  <2>2. Verdict(w.input, RuleOf(w), "async") = "match"
    BY <1>2, <1>4, <1>9 DEF Verdict
  <2> QED
    BY <1>2, <1>5, <2>1, <2>2, SaysOfRule DEF Proceeds
<1>10. CASE InScope(v.input, r) /\ Precheck(r, "async") = {} /\ r.conditions # <<>> /\ ~v.input.context
  <2>1. n = RuleSaid(w, "no_match")
    BY <1>1, <1>3, <1>10 DEF EnterRule
  <2>2. Verdict(w.input, RuleOf(w), "async") = "no_match"
    BY <1>2, <1>4, <1>10 DEF Verdict
  <2> QED
    BY <1>2, <1>5, <2>1, <2>2, SaysOfRule DEF Proceeds
<1>11. CASE InScope(v.input, r) /\ Precheck(r, "async") = {} /\ r.conditions # <<>> /\ v.input.context = TRUE
  <2>1. PICK u : u = [w EXCEPT !.bound = cur.slot]
    OBVIOUS
  <2>2. n = EnterClause(u, cur, 1)
    BY <1>1, <1>3, <1>11, <2>1 DEF EnterRule
  <2>3. /\ IsAnEval(u) /\ u.idx = w.idx /\ u.mode = w.mode /\ u.input = w.input
        /\ u.rules = w.rules /\ u.pending = w.pending
    BY <1>2, <2>1 DEF IsAnEval, EvalFields
  <2>4. u.saw = FALSE
    BY <1>1, <2>1 DEF Rated, IsAnEval, EvalFields
  <2>5. InList(u) /\ RuleOf(u) = r
    BY <1>4, <1>5, <2>3 DEF InList, RuleOf
  <2>6. PICK k : k = 1
    OBVIOUS
  <2>7. k \in DOMAIN RuleOf(u).conditions /\ 1 .. (k - 1) = {}
    BY <1>6, <1>11, <2>5, <2>6, ConditionsOf DEF IsARule
  <2>8. ComesTo(u, k) /\ n = EnterClause(u, cur, k)
    BY <1>2, <1>11, <2>2, <2>3, <2>4, <2>5, <2>6, <2>7 DEF ComesTo
  <2>9. Armed(u, cur, k, 1, 1)
    BY <1>2, <2>3 DEF Armed
  <2>10. AtLeaf(n) /\ n.input = u.input
    BY <2>5, <2>8, <2>9, EntersClause
  <2> QED
    BY <1>2, <2>3, <2>10 DEF Proceeds
<1>12. v.input.context \in BOOLEAN
  BY DEF ACLAssumption, Rated
<1> QED
  BY <1>7, <1>8, <1>9, <1>10, <1>11, <1>12

\* What the loop over a conjunction knows at its l-th key, of n.
AtKey(input, keys, n, l, saw) ==
  /\ n \in Nat /\ DOMAIN keys = 1 .. n /\ l \in 1 .. n
  /\ \A m \in 1 .. (l - 1) : KeyOutcome(input, keys[m]) # "unsatisfied"
  /\ saw = \E m \in 1 .. (l - 1) : KeyOutcome(input, keys[m]) = "unevaluable"

LEMMA ConjFolds ==
  ASSUME NEW input, NEW keys, NEW n, NEW l, NEW saw \in BOOLEAN, AtKey(input, keys, n, l, saw)
  PROVE  /\ KeyOutcome(input, keys[l]) = "unsatisfied" => ConjOutcome(input, keys) = "unsatisfied"
         /\ KeyOutcome(input, keys[l]) # "unsatisfied" /\ l = n =>
              ConjOutcome(input, keys) =
                (IF saw \/ KeyOutcome(input, keys[l]) = "unevaluable" THEN "unevaluable" ELSE "satisfied")
<1> USE DEF AtKey
<1>1. CASE KeyOutcome(input, keys[l]) = "unsatisfied"
  BY <1>1 DEF ConjOutcome
<1>2. CASE KeyOutcome(input, keys[l]) # "unsatisfied" /\ l = n
  <2>1. \A m \in DOMAIN keys : KeyOutcome(input, keys[m]) # "unsatisfied"
    BY <1>2
  <2>2. (\E m \in DOMAIN keys : KeyOutcome(input, keys[m]) = "unevaluable") <=>
          (saw \/ KeyOutcome(input, keys[l]) = "unevaluable")
    BY <1>2
  <2>3. CASE saw \/ KeyOutcome(input, keys[l]) = "unevaluable"
    BY <1>2, <2>1, <2>2, <2>3 DEF ConjOutcome
  <2>4. CASE ~(saw \/ KeyOutcome(input, keys[l]) = "unevaluable")
    BY <1>2, <2>1, <2>2, <2>4 DEF ConjOutcome
  <2> QED
    BY <1>2, <2>3, <2>4
<1> QED
  BY <1>1, <1>2

LEMMA SaysOfBranch ==
  ASSUME ACLAssumption, ArgumentsFirst, NEW v, AtLeaf(v), ClauseOf(v).op # "leaf",
         NEW cur, NEW n, n = BranchKeySaid(v, cur)
  PROVE  Proceeds(n) /\ n.input = v.input /\ Beyond(n)
<1>1. InList(v) /\ InRule(v) /\ InTree(v) /\ InConjunction(v) /\ v.out = KeyOutcome(v.input, KeyOf(v))
  BY DEF AtLeaf
<1>2. PICK keys, l : keys = BranchOf(v) /\ l = v.leaf
  OBVIOUS
<1>3. PICK len \in 1 .. 3 : len = Len(keys) /\ DOMAIN keys = 1 .. len
  <2>1. /\ IsARule(RuleOf(v)) /\ v.clause \in DOMAIN RuleOf(v).conditions
        /\ v.branch \in DOMAIN ClauseOf(v).branches
    BY <1>1, ShapeAt DEF InRule, InTree
  <2>2. IsAClause(ClauseOf(v))
    BY <2>1, ConditionsOf DEF ClauseOf
  <2> QED
    BY <1>2, <2>1, <2>2 DEF IsAClause, BranchOf
<1>4. l \in 1 .. len /\ v.out = KeyOutcome(v.input, keys[l])
  BY <1>1, <1>2, <1>3 DEF InConjunction, KeyOf
<1>5. PICK saw \in BOOLEAN : saw = (v.sawBranch \/ v.out = "unevaluable")
  OBVIOUS
<1>6. CASE v.out # "unsatisfied" /\ l < len
  <2>1. PICK w : w = [v EXCEPT !.leaf = v.leaf + 1, !.sawBranch = saw]
    OBVIOUS
  <2>2. /\ IsAnEval(w) /\ w.leaf = l + 1 /\ w.sawBranch = saw
        /\ w.mode = v.mode /\ w.input = v.input /\ w.rules = v.rules /\ w.idx = v.idx
        /\ w.pending = v.pending /\ w.clause = v.clause /\ w.branch = v.branch
        /\ w.saw = v.saw /\ w.sawOr = v.sawOr
    BY <1>1, <1>2, <2>1 DEF InList, IsAnEval, EvalFields
  <2>3. RuleOf(w) = RuleOf(v) /\ ClauseOf(w) = ClauseOf(v) /\ BranchOf(w) = keys
    BY <1>2, <2>2 DEF RuleOf, ClauseOf, BranchOf
  <2>4. InList(w) /\ InRule(w) /\ InTree(w)
    <3>1. InList(w)
      BY <1>1, <2>2 DEF InList
    <3>2. InRule(w)
      BY <1>1, <2>2, <2>3 DEF InRule
    <3>3. InTree(w)
      BY <1>1, <2>2, <2>3 DEF InTree
    <3> QED
      BY <3>1, <3>2, <3>3
  <2>5. InConjunction(w)
    <3>1. w.leaf \in DOMAIN BranchOf(w)
      BY <1>3, <1>4, <1>6, <2>2, <2>3
    <3>2. 1 .. (w.leaf - 1) = 1 .. (l - 1) \cup {l}
      BY <1>3, <1>4, <2>2
    <3>3. \A m \in 1 .. (l - 1) : KeyOutcome(v.input, keys[m]) # "unsatisfied"
      BY <1>1, <1>2 DEF InConjunction
    <3>4. v.sawBranch = \E m \in 1 .. (l - 1) : KeyOutcome(v.input, keys[m]) = "unevaluable"
      BY <1>1, <1>2 DEF InConjunction
    <3>5. w.sawBranch = \E m \in 1 .. (w.leaf - 1) : KeyOutcome(w.input, BranchOf(w)[m]) = "unevaluable"
      BY <1>4, <1>5, <2>2, <2>3, <3>2, <3>4
    <3> QED
      BY <1>4, <1>6, <2>2, <2>3, <3>1, <3>2, <3>3, <3>5 DEF InConjunction
  <2>6. Armed(w, cur, w.clause, w.branch, w.leaf)
    BY <1>4, <2>2 DEF Armed
  <2>7. n = Asked(w, cur)
    BY <1>2, <1>3, <1>5, <1>6, <2>1 DEF BranchKeySaid
  <2>8. AtLeaf(n) /\ n.input = w.input /\ n.leaf = w.leaf
    BY <2>4, <2>5, <2>6, <2>7, AsksBranch
  <2>9. n.leaf # 1
    BY <1>4, <2>2, <2>8
  <2> QED
    BY <2>2, <2>8, <2>9 DEF Proceeds, Beyond
<1>7. CASE v.out = "unsatisfied" \/ l = len
  <2>1. PICK o : o = IF v.out = "unsatisfied" THEN "unsatisfied"
                     ELSE IF saw THEN "unevaluable" ELSE "satisfied"
    OBVIOUS
  <2>2. PICK w : w = [v EXCEPT !.pc = "branch", !.out = o]
    OBVIOUS
  <2>3. n = w
    <3>1. o = IF v.out = "unsatisfied" THEN "unsatisfied"
              ELSE IF v.sawBranch \/ v.out = "unevaluable" THEN "unevaluable" ELSE "satisfied"
      BY <1>5, <2>1
    <3>2. ~(v.out # "unsatisfied" /\ v.leaf < Len(BranchOf(v)))
      BY <1>2, <1>3, <1>4, <1>7
    <3> QED
      BY <2>2, <3>1, <3>2 DEF BranchKeySaid
  <2>4. /\ IsAnEval(w) /\ w.pc = "branch" /\ w.out = o
        /\ w.mode = v.mode /\ w.input = v.input /\ w.rules = v.rules /\ w.idx = v.idx
        /\ w.pending = v.pending /\ w.clause = v.clause /\ w.branch = v.branch
        /\ w.saw = v.saw /\ w.sawOr = v.sawOr
    BY <1>1, <2>2 DEF InList, IsAnEval, EvalFields
  <2>5. RuleOf(w) = RuleOf(v) /\ ClauseOf(w) = ClauseOf(v) /\ BranchOf(w) = keys
    BY <1>2, <2>4 DEF RuleOf, ClauseOf, BranchOf
  <2>6. InList(w) /\ InRule(w) /\ InTree(w)
    <3>1. InList(w)
      BY <1>1, <2>4 DEF InList
    <3>2. InRule(w)
      BY <1>1, <2>4, <2>5 DEF InRule
    <3>3. InTree(w)
      BY <1>1, <2>4, <2>5 DEF InTree
    <3> QED
      BY <3>1, <3>2, <3>3
  <2>7. o = ConjOutcome(v.input, keys)
    <3>1. \A m \in 1 .. (l - 1) : KeyOutcome(v.input, keys[m]) # "unsatisfied"
      BY <1>1, <1>2 DEF InConjunction
    <3>2. PICK sawb \in BOOLEAN : sawb = \E m \in 1 .. (l - 1) : KeyOutcome(v.input, keys[m]) = "unevaluable"
      OBVIOUS
    <3>3. v.sawBranch = sawb
      BY <1>1, <1>2, <3>2 DEF InConjunction
    <3>4. PICK input : input = v.input
      OBVIOUS
    <3>5. /\ KeyOutcome(input, keys[l]) = "unsatisfied" => ConjOutcome(input, keys) = "unsatisfied"
          /\ KeyOutcome(input, keys[l]) # "unsatisfied" /\ l = len =>
               ConjOutcome(input, keys) =
                 (IF sawb \/ KeyOutcome(input, keys[l]) = "unevaluable" THEN "unevaluable" ELSE "satisfied")
      <4>1. AtKey(input, keys, len, l, sawb)
        BY <1>3, <1>4, <3>1, <3>2, <3>4 DEF AtKey
      <4> QED
        BY <4>1, ConjFolds
    <3> QED
      BY <1>4, <1>5, <1>7, <2>1, <3>3, <3>4, <3>5
  <2> QED
    BY <2>3, <2>4, <2>5, <2>6, <2>7 DEF AtBranch, Proceeds, Beyond
<1> QED
  BY <1>3, <1>4, <1>6, <1>7

\* The verdict on a rule, once the clauses asked settle it.
LEMMA ClausesFold ==
  ASSUME NEW input, NEW r, InScope(input, r), Precheck(r, "async") = {}, input.context = TRUE,
         NEW i \in DOMAIN r.conditions, NEW saw \in BOOLEAN
  PROVE  /\ ClauseOutcome(input, r.conditions[i]) = "unsatisfied" =>
              Verdict(input, r, "async") = "no_match"
         /\ /\ \A h \in DOMAIN r.conditions : ClauseOutcome(input, r.conditions[h]) # "unsatisfied"
            /\ saw <=> \E h \in DOMAIN r.conditions : ClauseOutcome(input, r.conditions[h]) = "unevaluable"
            => Verdict(input, r, "async") = IF saw THEN "unevaluable" ELSE "match"
<1> DEFINE seen == {ClauseOutcome(input, r.conditions[h]) : h \in DOMAIN r.conditions}
<1>1. Verdict(input, r, "async") =
        IF "unsatisfied" \in seen THEN "no_match"
        ELSE IF "unevaluable" \in seen THEN "unevaluable" ELSE "match"
  <2>1. r.conditions # <<>>
    OBVIOUS
  <2> QED
    BY <2>1 DEF Verdict
<1> QED
  BY <1>1

LEMMA SaysOfClause ==
  ASSUME ACLAssumption, ArgumentsFirst, NEW v, InList(v), InRule(v), NEW out,
         SameTo(out, ClauseOutcome(v.input, ClauseOf(v))),
         NEW cur, NEW n, n = ClauseSaid(v, cur, out)
  PROVE  Proceeds(n) /\ n.input = v.input /\ Beyond(n)
<1>1. PICK r, i, input : r = RuleOf(v) /\ i = v.clause /\ input = v.input
  OBVIOUS
<1>2. PICK len \in Nat : len = Len(r.conditions) /\ DOMAIN r.conditions = 1 .. len
  <2>1. IsARule(r)
    BY <1>1, ShapeAt
  <2> QED
    BY <2>1, ConditionsOf
<1>3. i \in 1 .. len /\ i \in DOMAIN r.conditions
  BY <1>1, <1>2 DEF InRule
<1>4. PICK c : c = r.conditions[i] /\ SameTo(out, ClauseOutcome(input, c))
  BY <1>1 DEF ClauseOf
<1>5. InScope(input, r) /\ Precheck(r, "async") = {} /\ input.context = TRUE
  BY <1>1 DEF InRule
<1>6. \A h \in 1 .. (i - 1) : ClauseOutcome(input, r.conditions[h]) # "unsatisfied"
  BY <1>1 DEF InRule
<1>7. v.saw = \E h \in 1 .. (i - 1) : ClauseOutcome(input, r.conditions[h]) = "unevaluable"
  BY <1>1 DEF InRule
<1>8. PICK saw \in BOOLEAN : saw = (v.saw \/ out = "unevaluable")
  OBVIOUS
<1>9. CASE out = "unsatisfied"
  <2>1. n = RuleSaid(v, "no_match")
    BY <1>9 DEF ClauseSaid
  <2>2. Verdict(v.input, RuleOf(v), "async") = "no_match"
    BY <1>1, <1>3, <1>4, <1>5, <1>9, ClausesFold DEF SameTo
  <2>3. AtRule(n) /\ n.input = v.input
    BY <2>1, <2>2, SaysOfRule
  <2>4. Beyond(n)
    BY <2>3 DEF AtRule, Beyond
  <2> QED
    BY <2>3, <2>4 DEF Proceeds
<1>10. ASSUME out # "unsatisfied"
       PROVE  /\ \A h \in 1 .. i : ClauseOutcome(input, r.conditions[h]) # "unsatisfied"
              /\ saw = \E h \in 1 .. i : ClauseOutcome(input, r.conditions[h]) = "unevaluable"
  <2>1. 1 .. i = 1 .. (i - 1) \cup {i}
    BY <1>3
  <2>2. \A h \in 1 .. i : ClauseOutcome(input, r.conditions[h]) # "unsatisfied"
    BY <1>4, <1>6, <1>10, <2>1 DEF SameTo
  <2>3. saw = \E h \in 1 .. i : ClauseOutcome(input, r.conditions[h]) = "unevaluable"
    BY <1>4, <1>7, <1>8, <2>1 DEF SameTo
  <2> QED
    BY <2>2, <2>3
<1>11. CASE out # "unsatisfied" /\ i < len
  <2>1. PICK w : w = [v EXCEPT !.saw = saw]
    OBVIOUS
  <2>2. /\ IsAnEval(w) /\ w.saw = saw /\ w.mode = v.mode /\ w.input = v.input
        /\ w.rules = v.rules /\ w.idx = v.idx /\ w.pending = v.pending
    BY <2>1 DEF InList, IsAnEval, EvalFields
  <2>3. RuleOf(w) = r /\ InList(w)
    BY <1>1, <2>2 DEF RuleOf, InList
  <2>4. PICK k : k = i + 1
    OBVIOUS
  <2>5. k \in DOMAIN r.conditions /\ k - 1 = i /\ k # 1
    BY <1>2, <1>3, <1>11, <2>4
  <2>6. ComesTo(w, k)
    BY <1>1, <1>5, <1>10, <1>11, <2>2, <2>3, <2>5 DEF ComesTo
  <2>7. n = EnterClause(w, cur, k)
    BY <1>1, <1>2, <1>8, <1>11, <2>1, <2>4 DEF ClauseSaid
  <2>8. Armed(w, cur, k, 1, 1)
    BY <2>5 DEF Armed
  <2>9. AtLeaf(n) /\ n.input = w.input /\ n.clause = k
    BY <2>3, <2>6, <2>7, <2>8, EntersClause
  <2> QED
    BY <2>2, <2>5, <2>9 DEF Proceeds, Beyond
<1>12. CASE out # "unsatisfied" /\ i = len
  <2>1. PICK verdict : verdict = IF saw THEN "unevaluable" ELSE "match"
    OBVIOUS
  <2>2. Verdict(v.input, RuleOf(v), "async") = verdict
    <3>1. /\ \A h \in DOMAIN r.conditions : ClauseOutcome(input, r.conditions[h]) # "unsatisfied"
          /\ saw <=> \E h \in DOMAIN r.conditions : ClauseOutcome(input, r.conditions[h]) = "unevaluable"
      BY <1>2, <1>10, <1>12
    <3>2. Verdict(input, r, "async") = verdict
      BY <1>3, <1>5, <2>1, <3>1, ClausesFold
    <3> QED
      BY <1>1, <3>2
  <2>3. n = RuleSaid(v, verdict)
    <3>1. ~(v.clause < Len(RuleOf(v).conditions))
      BY <1>1, <1>2, <1>12
    <3>2. [v EXCEPT !.saw = saw].saw = saw
      BY DEF InList, IsAnEval, EvalFields
    <3>3. n = RuleSaid(v, IF [v EXCEPT !.saw = saw].saw THEN "unevaluable" ELSE "match")
      BY <1>8, <1>12, <3>1 DEF ClauseSaid
    <3> QED
      BY <2>1, <3>2, <3>3
  <2>4. AtRule(n) /\ n.input = v.input
    BY <2>2, <2>3, SaysOfRule
  <2>5. Beyond(n)
    BY <2>4 DEF AtRule, Beyond
  <2> QED
    BY <2>4, <2>5 DEF Proceeds
<1> QED
  BY <1>3, <1>9, <1>11, <1>12

\* A condition that is one key says what the key says.
LEMMA LeafSays ==
  ASSUME ACLAssumption, NEW v, InList(v), InRule(v), ClauseOf(v).op = "leaf", v.branch = 1, v.leaf = 1,
         v.out = KeyOutcome(v.input, KeyOf(v))
  PROVE  SameTo(v.out, ClauseOutcome(v.input, ClauseOf(v)))
<1>1. PICK c, keys, input : c = ClauseOf(v) /\ keys = c.branches[1] /\ input = v.input
  OBVIOUS
<1>2. IsAClause(c) /\ c.op = "leaf"
  BY <1>1, ShapeAt, ConditionsOf DEF InRule, ClauseOf
<1>3. DOMAIN keys = {1}
  <2>1. Len(keys) = 1 /\ DOMAIN keys = 1 .. Len(keys)
    BY <1>1, <1>2 DEF IsAClause
  <2> QED
    BY <2>1
<1>4. v.out = KeyOutcome(input, keys[1])
  BY <1>1 DEF KeyOf, BranchOf
<1>5. SameTo(v.out, ConjOutcome(input, keys))
  BY <1>3, <1>4 DEF SameTo, ConjOutcome
<1>6. ClauseOutcome(input, c) = ConjOutcome(input, keys)
  BY <1>1, <1>2 DEF ClauseOutcome
<1> QED
  BY <1>1, <1>5, <1>6

\* A $or says yes at the first branch that does, and what the last leaves else.
LEMMA BranchesFold ==
  ASSUME NEW input, NEW c, c.op = "or", NEW j \in DOMAIN c.branches, NEW saw \in BOOLEAN
  PROVE  /\ ConjOutcome(input, c.branches[j]) = "satisfied" => ClauseOutcome(input, c) = "satisfied"
         /\ /\ \A h \in DOMAIN c.branches : ConjOutcome(input, c.branches[h]) # "satisfied"
            /\ saw <=> \E h \in DOMAIN c.branches : ConjOutcome(input, c.branches[h]) = "unevaluable"
            => ClauseOutcome(input, c) = IF saw THEN "unevaluable" ELSE "unsatisfied"
<1> DEFINE seen == {ConjOutcome(input, c.branches[h]) : h \in DOMAIN c.branches}
<1>1. ClauseOutcome(input, c) =
        IF "satisfied" \in seen THEN "satisfied"
        ELSE IF "unevaluable" \in seen THEN "unevaluable" ELSE "unsatisfied"
  BY DEF ClauseOutcome
<1> QED
  BY <1>1

\* What BranchAnswered makes of an evaluation.
AfterBranch(v, cur) ==
  LET saw == v.sawOr \/ v.out = "unevaluable"
      said(o) == [v EXCEPT !.pc = "clause", !.out = o]
  IN CASE ClauseOf(v).op = "not" -> said(Negated(v.out))
       [] ClauseOf(v).op = "or" ->
            IF v.out = "satisfied" THEN said("satisfied")
            ELSE IF v.branch < Len(ClauseOf(v).branches)
                 THEN EnterBranch([v EXCEPT !.sawOr = saw], cur, v.branch + 1)
            ELSE said(IF saw THEN "unevaluable" ELSE "unsatisfied")

Closes(v, o) == ClauseOf(v).op # "leaf" /\ o = ClauseOutcome(v.input, ClauseOf(v))

LEMMA SaysOfTree ==
  ASSUME NEW v, InList(v), InRule(v), NEW o, Closes(v, o), NEW n, n = [v EXCEPT !.pc = "clause", !.out = o]
  PROVE  Proceeds(n) /\ n.input = v.input /\ Beyond(n)
<1> USE DEF Closes
<1>1. PICK w, out : w = n /\ out = o
  OBVIOUS
<1>2. /\ IsAnEval(w) /\ w.pc = "clause" /\ w.out = out
      /\ w.mode = v.mode /\ w.input = v.input /\ w.rules = v.rules /\ w.idx = v.idx
      /\ w.pending = v.pending /\ w.clause = v.clause /\ w.saw = v.saw
  <2>1. w = [v EXCEPT !.pc = "clause", !.out = out]
    BY <1>1
  <2> QED
    BY <2>1 DEF InList, IsAnEval, EvalFields
<1>3. RuleOf(w) = RuleOf(v) /\ ClauseOf(w) = ClauseOf(v)
  BY <1>2 DEF RuleOf, ClauseOf
<1>4. InList(w) /\ InRule(w)
  BY <1>2, <1>3 DEF InList, InRule
<1> QED
  BY <1>1, <1>2, <1>3, <1>4 DEF AtClause, Proceeds, Beyond

LEMMA SaysOfBranches ==
  ASSUME ACLAssumption, ArgumentsFirst, NEW v, AtBranch(v),
         NEW cur, NEW n, n = AfterBranch(v, cur)
  PROVE  Proceeds(n) /\ n.input = v.input /\ Beyond(n)
<1>1. InList(v) /\ InRule(v) /\ InTree(v) /\ v.out = ConjOutcome(v.input, BranchOf(v))
  BY DEF AtBranch
<1>2. PICK c, j, input : c = ClauseOf(v) /\ j = v.branch /\ input = v.input
  OBVIOUS
<1>3. IsAClause(c) /\ c.op # "leaf" /\ j \in DOMAIN c.branches
  BY <1>1, <1>2, ShapeAt, ConditionsOf DEF InRule, InTree, ClauseOf
<1>4. PICK len \in 1 .. 3 : len = Len(c.branches) /\ DOMAIN c.branches = 1 .. len
  BY <1>3 DEF IsAClause
<1>5. v.out = ConjOutcome(input, c.branches[j])
  BY <1>1, <1>2 DEF BranchOf
<1>6. CASE c.op = "not"
  <2>1. PICK o : o = Negated(v.out)
    OBVIOUS
  <2>2. j = 1
    BY <1>3, <1>4, <1>6 DEF IsAClause
  <2>3. o = ClauseOutcome(input, c)
    BY <1>5, <1>6, <2>1, <2>2 DEF ClauseOutcome
  <2>4. n = [v EXCEPT !.pc = "clause", !.out = o]
    BY <1>2, <1>6, <2>1 DEF AfterBranch
  <2>5. Closes(v, o)
    BY <1>2, <1>3, <2>3 DEF Closes
  <2> QED
    BY <1>1, <2>4, <2>5, SaysOfTree
<1>7. CASE c.op = "or" /\ v.out = "satisfied"
  <2>1. PICK o : o = "satisfied"
    OBVIOUS
  <2>2. o = ClauseOutcome(input, c)
    BY <1>3, <1>5, <1>7, <2>1, BranchesFold
  <2>3. n = [v EXCEPT !.pc = "clause", !.out = o]
    BY <1>2, <1>7, <2>1 DEF AfterBranch
  <2>4. Closes(v, o)
    BY <1>2, <1>3, <2>2 DEF Closes
  <2> QED
    BY <1>1, <2>3, <2>4, SaysOfTree
<1>8. PICK saw \in BOOLEAN : saw = (v.sawOr \/ v.out = "unevaluable")
  OBVIOUS
<1>9. ASSUME v.out # "satisfied"
      PROVE  /\ \A h \in 1 .. j : ConjOutcome(input, c.branches[h]) # "satisfied"
             /\ saw = \E h \in 1 .. j : ConjOutcome(input, c.branches[h]) = "unevaluable"
  <2>1. 1 .. j = 1 .. (j - 1) \cup {j}
    BY <1>3, <1>4
  <2>2. \A h \in 1 .. (j - 1) : ConjOutcome(input, c.branches[h]) # "satisfied"
    BY <1>1, <1>2 DEF InTree
  <2>3. v.sawOr = \E h \in 1 .. (j - 1) : ConjOutcome(input, c.branches[h]) = "unevaluable"
    BY <1>1, <1>2 DEF InTree
  <2>4. \A h \in 1 .. j : ConjOutcome(input, c.branches[h]) # "satisfied"
    BY <1>5, <1>9, <2>1, <2>2
  <2>5. saw = \E h \in 1 .. j : ConjOutcome(input, c.branches[h]) = "unevaluable"
    BY <1>5, <1>8, <2>1, <2>3
  <2> QED
    BY <2>4, <2>5
<1>10. CASE c.op = "or" /\ v.out # "satisfied" /\ j < len
  <2>1. PICK w, k : w = [v EXCEPT !.sawOr = saw] /\ k = j + 1
    OBVIOUS
  <2>2. /\ IsAnEval(w) /\ w.sawOr = saw /\ w.mode = v.mode /\ w.input = v.input
        /\ w.rules = v.rules /\ w.idx = v.idx /\ w.pending = v.pending /\ w.clause = v.clause
        /\ w.saw = v.saw
    BY <1>1, <2>1 DEF InList, IsAnEval, EvalFields
  <2>3. RuleOf(w) = RuleOf(v) /\ ClauseOf(w) = c
    BY <1>2, <2>2 DEF RuleOf, ClauseOf
  <2>4. InList(w) /\ InRule(w)
    BY <1>1, <1>2, <2>2, <2>3 DEF InList, InRule
  <2>5. k \in DOMAIN c.branches /\ k - 1 = j /\ k # 1
    BY <1>3, <1>4, <1>10, <2>1
  <2>6. ComesToBranch(w, k)
    BY <1>2, <1>3, <1>9, <1>10, <2>2, <2>3, <2>5 DEF ComesToBranch
  <2>7. n = EnterBranch(w, cur, k)
    BY <1>2, <1>4, <1>8, <1>10, <2>1 DEF AfterBranch
  <2>8. Armed(w, cur, w.clause, k, 1)
    BY <2>5 DEF Armed
  <2>9. AtLeaf(n) /\ n.input = w.input /\ n.branch = k
    BY <2>4, <2>6, <2>7, <2>8, EntersBranch
  <2> QED
    BY <2>2, <2>5, <2>9 DEF Proceeds, Beyond
<1>11. CASE c.op = "or" /\ v.out # "satisfied" /\ j = len
  <2>1. PICK o : o = IF saw THEN "unevaluable" ELSE "unsatisfied"
    OBVIOUS
  <2>2. o = ClauseOutcome(input, c)
    <3>1. /\ \A h \in DOMAIN c.branches : ConjOutcome(input, c.branches[h]) # "satisfied"
          /\ saw <=> \E h \in DOMAIN c.branches : ConjOutcome(input, c.branches[h]) = "unevaluable"
      BY <1>4, <1>9, <1>11
    <3> QED
      BY <1>3, <1>11, <2>1, <3>1, BranchesFold
  <2>3. n = [v EXCEPT !.pc = "clause", !.out = o]
    <3>1. ~(v.branch < Len(ClauseOf(v).branches))
      BY <1>2, <1>4, <1>11
    <3>2. o = IF v.sawOr \/ v.out = "unevaluable" THEN "unevaluable" ELSE "unsatisfied"
      BY <1>8, <2>1
    <3> QED
      BY <1>2, <1>11, <3>1, <3>2 DEF AfterBranch
  <2>4. Closes(v, o)
    BY <1>2, <1>3, <2>2 DEF Closes
  <2> QED
    BY <1>1, <2>3, <2>4, SaysOfTree
<1> QED
  BY <1>3, <1>4, <1>6, <1>7, <1>10, <1>11 DEF IsAClause

----------------------------------------------------------------------------
(* The decision *)

\* Rule i of rs is the first that decides, or i is the default's place.
Settles(input, rs, mode, i) ==
  /\ Len(rs) \in Nat /\ DOMAIN rs = 1 .. Len(rs) /\ i \in 1 .. (Len(rs) + 1)
  /\ \A h \in 1 .. (i - 1) : ~Decides(input, rs[h], mode)
  /\ i <= Len(rs) => Decides(input, rs[i], mode)

LEMMA TheDeciding ==
  ASSUME NEW input, NEW rs, NEW mode, NEW i, Settles(input, rs, mode, i)
  PROVE  Deciding(input, rs, mode) = i
<1> DEFINE D == {h \in DOMAIN rs : Decides(input, rs[h], mode)}
<1>1. D \subseteq 1 .. Len(rs) /\ \A h \in D : i <= h
  BY DEF Settles
<1>2. CASE i <= Len(rs)
  <2>1. i \in D
    BY <1>2 DEF Settles
  <2>2. \A g \in D : (\A h \in D : g <= h) => g = i
    BY <1>1, <2>1 DEF Settles
  <2>3. i = CHOOSE g \in D : \A h \in D : g <= h
    BY <1>1, <2>1, <2>2
  <2> QED
    BY <2>1, <2>3 DEF Deciding
<1>3. CASE i = Len(rs) + 1
  <2>1. D = {}
    BY <1>1, <1>3 DEF Settles
  <2> QED
    BY <1>3, <2>1 DEF Deciding
<1> QED
  BY <1>2, <1>3 DEF Settles

LEMMA TheDecision ==
  ASSUME NEW input, NEW rs, NEW mode, NEW i, Settles(input, rs, mode, i), NEW default,
         NEW pending \in BOOLEAN,
         pending <=> \E h \in 1 .. (i - 1) : /\ Verdict(input, rs[h], mode) = "unevaluable"
                                              /\ RaisesPending(rs[h])
  PROVE  Decide(input, rs, default, mode) = Decision(rs, default, i, pending)
<1>1. Deciding(input, rs, mode) = i
  BY TheDeciding
<1>2. pending = \E h \in 1 .. (i - 1) :
                  Verdict(input, rs[h], mode) = "unevaluable" /\ RaisesPending(rs[h])
  OBVIOUS
<1> QED
  BY <1>1, <1>2 DEF Decide

\* What RuleAnswered makes of an evaluation.
Noted(v) == [v EXCEPT !.pending = v.pending \/ (v.out = "unevaluable" /\ RaisesPending(RuleOf(v)))]
Deciders(v) == v.out = "match" \/ (v.out = "unevaluable" /\ TakesEffect(RuleOf(v)))
NextIdx(v) == IF Deciders(v) THEN v.idx ELSE v.idx + 1

LEMMA AfterRule ==
  ASSUME ACLAssumption, NEW v, AtRule(v), NEW w, w = Noted(v), NEW i, i = NextIdx(v)
  PROVE  /\ ~Deciders(v) /\ i <= Len(v.rules) => Rated(w, i) /\ w.input = v.input
         /\ Deciders(v) \/ i > Len(v.rules) =>
              /\ Settles(v.input, v.rules, "async", i) /\ w.pending \in BOOLEAN
              /\ w.pending <=>
                   \E h \in 1 .. (i - 1) : /\ Verdict(v.input, v.rules[h], "async") = "unevaluable"
                                           /\ RaisesPending(v.rules[h])
         /\ w.mode = "async" /\ w.input = v.input /\ w.rules = v.rules /\ w.default = v.default
         /\ w.rules \in Seq(Rules) /\ w.input \in Inputs
<1>0. PICK rs, input, k, r, u, j : /\ rs = v.rules /\ input = v.input /\ k = v.idx /\ r = rs[k]
                                   /\ u = w /\ j = i
  OBVIOUS
<1>1. /\ rs \in Seq(Rules) /\ k \in DOMAIN rs /\ input \in Inputs
      /\ IsAnEval(v) /\ v.mode = "async" /\ v.saw = FALSE
  BY <1>0 DEF AtRule, InList
<1>2. DOMAIN rs = 1 .. Len(rs) /\ Len(rs) \in Nat /\ k \in 1 .. Len(rs) /\ k \in Nat
  BY <1>1
<1>3. \A h \in 1 .. (k - 1) : ~Decides(input, rs[h], "async")
  BY <1>0 DEF AtRule, InList
<1>4. v.pending = \E h \in 1 .. (k - 1) : /\ Verdict(input, rs[h], "async") = "unevaluable"
                                          /\ RaisesPending(rs[h])
  BY <1>0 DEF AtRule, InList
<1>5. v.out = Verdict(input, r, "async") /\ RuleOf(v) = r
  BY <1>0 DEF AtRule, RuleOf
<1>6. PICK raises \in BOOLEAN : raises = (v.out = "unevaluable" /\ RaisesPending(r))
  OBVIOUS
<1>7. PICK pending \in BOOLEAN : pending = (v.pending \/ raises)
  OBVIOUS
<1>8. /\ IsAnEval(u) /\ u.pending = pending /\ u.saw = FALSE /\ u.mode = "async"
      /\ u.input = input /\ u.rules = rs /\ u.default = v.default
  <2>1. u = [v EXCEPT !.pending = pending]
    BY <1>0, <1>5, <1>6, <1>7 DEF Noted
  <2> QED
    BY <1>0, <1>1, <2>1 DEF IsAnEval, EvalFields
<1>9. Deciders(v) <=> Decides(input, r, "async")
  BY <1>5 DEF Deciders, Decides
<1>10. CASE ~Deciders(v)
  <2>1. j = k + 1 /\ 1 .. (j - 1) = 1 .. (k - 1) \cup {k}
    BY <1>0, <1>2, <1>10 DEF NextIdx
  <2>2. \A h \in 1 .. (j - 1) : ~Decides(input, rs[h], "async")
    BY <1>0, <1>3, <1>9, <1>10, <2>1
  <2>3. pending = \E h \in 1 .. (j - 1) : /\ Verdict(input, rs[h], "async") = "unevaluable"
                                          /\ RaisesPending(rs[h])
    BY <1>0, <1>4, <1>5, <1>6, <1>7, <2>1
  <2>4. ASSUME j <= Len(rs) PROVE Rated(u, j)
    BY <1>1, <1>2, <1>8, <2>1, <2>2, <2>3, <2>4 DEF Rated
  <2>5. ASSUME j > Len(rs) PROVE Settles(input, rs, "async", j)
    BY <1>2, <2>1, <2>2, <2>5 DEF Settles
  <2> QED
    BY <1>0, <1>1, <1>2, <1>8, <1>10, <2>1, <2>3, <2>4, <2>5
<1>11. CASE Deciders(v)
  <2>1. j = k
    BY <1>0, <1>11 DEF NextIdx
  <2>2. ~raises
    BY <1>5, <1>6, <1>11 DEF Deciders, TakesEffect, RaisesPending
  <2>3. Settles(input, rs, "async", j)
    BY <1>0, <1>2, <1>3, <1>9, <1>11, <2>1 DEF Settles
  <2>4. pending = \E h \in 1 .. (j - 1) : /\ Verdict(input, rs[h], "async") = "unevaluable"
                                          /\ RaisesPending(rs[h])
    BY <1>4, <1>7, <2>1, <2>2
  <2> QED
    BY <1>0, <1>1, <1>8, <1>11, <2>3, <2>4
<1> QED
  BY <1>10, <1>11

----------------------------------------------------------------------------
(* The steps *)

\* An evaluation that asks for the arguments asks for them first.
LEMMA AsksFirst ==
  ASSUME ACLAssumption, ArgumentsFirst, NEW n, AtLeaf(n), KeyOf(n) = "arguments"
  PROVE  n.clause = 1 /\ n.branch = 1 /\ n.leaf = 1
<1>1. PICK r, i, j, l : r = RuleOf(n) /\ i = n.clause /\ j = n.branch /\ l = n.leaf
  OBVIOUS
<1>2. InList(n) /\ InRule(n)
  BY DEF AtLeaf
<1>3. r \in Rules /\ IsARule(r) /\ i \in DOMAIN r.conditions
  BY <1>1, <1>2, ShapeAt DEF InRule
<1>4. IsAClause(r.conditions[i]) /\ ClauseOf(n) = r.conditions[i]
  BY <1>1, <1>3, ConditionsOf DEF ClauseOf
<1>5. KeyOf(n) = r.conditions[i].branches[j][l]
  BY <1>1 DEF KeyOf, BranchOf, ClauseOf
<1>6. j \in DOMAIN r.conditions[i].branches /\ l \in DOMAIN r.conditions[i].branches[j]
  <2>1. CASE ClauseOf(n).op = "leaf"
    BY <1>1, <1>4, <2>1 DEF AtLeaf, IsAClause
  <2>2. CASE ClauseOf(n).op # "leaf"
    BY <1>1, <1>4, <2>2 DEF AtLeaf, InTree, InConjunction, BranchOf
  <2> QED
    BY <2>1, <2>2
<1>7. <<i, j, l>> \in Places(r) /\ KeyAt(r, <<i, j, l>>) = "arguments"
  BY <1>3, <1>5, <1>6, PlaceOf
<1>8. <<i, j, l>> = <<1, 1, 1>>
  BY <1>3, <1>7 DEF ArgumentsFirst
<1> QED
  BY <1>1, <1>8

LEMMA Lends ==
  ASSUME ACLAssumption, ArgumentsFirst, NEW e, NEW n, Proceeds(n), NEW cur, Beyond(n) \/ cur.slot = e
  PROVE  ~Borrows(e, n, cur)
<1>1. CASE cur.slot = e
  BY <1>1 DEF Borrows
<1>2. CASE Beyond(n) /\ n.pc = "leaf"
  <2>1. AtLeaf(n)
    BY <1>2 DEF Proceeds, AtRule, AtClause, AtBranch
  <2> QED
    BY <1>2, <2>1, AsksFirst DEF Beyond, Borrows
<1> QED
  BY <1>1, <1>2 DEF Borrows

\* A turn leaves the arguments of every frame alone but a new one's.
ArgsKept(S) == \A g \in S : frame'[g].args = frame[g].args

LEMMA RecordedKeeps ==
  ASSUME FramesShaped, NEW f, NEW paths, frame' = Recorded(f, paths)
  PROVE  FramesShaped' /\ ArgsKept(Evals)
<1>1. CASE f \in Evals /\ f # None
  <2>1. frame' = [frame EXCEPT ![f] = [frame[f] EXCEPT !.errors = @ \cup paths]]
    BY <1>1 DEF Recorded
  <2>2. DOMAIN frame[f] = {"errors", "args", "previous"}
    BY <1>1 DEF FramesShaped
  <2>3. /\ frame' = [g \in Evals |-> frame'[g]]
        /\ \A g \in Evals : g # f => frame'[g] = frame[g]
        /\ frame'[f] = [frame[f] EXCEPT !.errors = @ \cup paths]
    BY <1>1, <2>1 DEF FramesShaped
  <2>4. DOMAIN frame'[f] = {"errors", "args", "previous"} /\ frame'[f].args = frame[f].args
    BY <2>2, <2>3
  <2> QED
    BY <2>3, <2>4 DEF FramesShaped, ArgsKept
<1>2. CASE f \notin Evals \/ f = None
  <2>1. frame' = frame
    BY <1>2 DEF Recorded, FramesShaped
  <2> QED
    BY <2>1 DEF FramesShaped, ArgsKept
<1> QED
  BY <1>1, <1>2

LEMMA ProceedsPc ==
  ASSUME NEW n, Proceeds(n)
  PROVE  n.pc \notin {"idle", "done"}
  BY DEF Proceeds, AtRule, AtClause, AtBranch, AtLeaf

\* One evaluation goes on to n, or ends as n.
GoesOn(e, n) ==
  \/ Proceeds(n) /\ frame'[e].args = n.input.args
  \/ n.pc = "done" /\ Concluded(n)

LEMMA Turns ==
  ASSUME ACLInv, NEW e \in Evals, NEW n, eval' = [eval EXCEPT ![e] = n],
         GoesOn(e, n), FramesShaped', ArgsKept(Evals \ {e}), rules' = rules, borrowed' = borrowed
  PROVE  ACLInv'
<1>1. eval' = [g \in Evals |-> eval'[g]] /\ eval'[e] = n
  BY DEF ACLInv
<1>2. ASSUME NEW g \in Evals PROVE Evaluates(g)'
  <2>1. CASE g = e
    BY <1>1, <2>1, ProceedsPc DEF Evaluates, GoesOn
  <2>2. CASE g # e
    <3>1. eval'[g] = eval[g] /\ frame'[g].args = frame[g].args /\ Evaluates(g)
      BY <2>2 DEF ACLInv, ArgsKept
    <3> QED
      BY <3>1 DEF Evaluates
  <2> QED
    BY <2>1, <2>2
<1> QED
  BY <1>1, <1>2 DEF ACLInv, OwnArguments

LEMMA Sequel ==
  ASSUME ACLAssumption, ArgumentsFirst, ACLInv, NEW e \in Evals, NEW n, NEW cur, Turn(e, n, cur),
         Proceeds(n), n.input = eval[e].input, frame[e].args = eval[e].input.args,
         Beyond(n) \/ cur.slot = e, FramesShaped', ArgsKept(Evals), rules' = rules
  PROVE  ACLInv'
<1>1. ~Borrows(e, n, cur)
  BY Lends
<1>2. eval' = [eval EXCEPT ![e] = n] /\ borrowed' = borrowed
  BY <1>1 DEF Turn
<1>3. frame'[e].args = frame[e].args /\ ArgsKept(Evals \ {e})
  BY DEF ArgsKept
<1>4. frame'[e].args = n.input.args
  <2>1. PICK v : v = eval[e]
    OBVIOUS
  <2>2. n.input = v.input /\ frame[e].args = v.input.args
    BY <2>1
  <2> QED
    BY <1>3, <2>2
<1>5. GoesOn(e, n)
  BY <1>4 DEF GoesOn
<1> QED
  BY <1>2, <1>3, <1>5, Turns

LEMMA LeafKeeps ==
  ASSUME ACLAssumption, ArgumentsFirst, ACLInv, NEW e \in Evals, LeafAnswered(e)
  PROVE  ACLInv'
<1>1. PICK v, cur, n : /\ v = eval[e] /\ cur = At(current)
                       /\ n = IF InBranch(v) THEN BranchKeySaid(v, cur) ELSE ClauseSaid(v, cur, v.out)
  OBVIOUS
<1>2. v.pc = "leaf" /\ Turn(e, n, cur) /\ rules' = rules
  BY <1>1 DEF LeafAnswered
<1>3. AtLeaf(v) /\ frame[e].args = v.input.args
  BY <1>1, <1>2 DEF ACLInv, Evaluates, Proceeds, AtRule, AtClause, AtBranch
<1>4. FramesShaped' /\ ArgsKept(Evals)
  <2>1. PICK f, paths : frame' = Recorded(f, paths)
    BY DEF LeafAnswered
  <2> QED
    BY <2>1, RecordedKeeps DEF ACLInv
<1>5. Proceeds(n) /\ n.input = v.input /\ Beyond(n)
  <2>1. CASE InBranch(v)
    <3>1. n = BranchKeySaid(v, cur) /\ ClauseOf(v).op # "leaf"
      BY <1>1, <2>1 DEF InBranch
    <3> QED
      BY <1>3, <3>1, SaysOfBranch
  <2>2. CASE ~InBranch(v)
    <3>1. PICK out : out = v.out
      OBVIOUS
    <3>2. n = ClauseSaid(v, cur, out) /\ ClauseOf(v).op = "leaf"
      BY <1>1, <2>2, <3>1 DEF InBranch
    <3>3. InList(v) /\ InRule(v) /\ SameTo(out, ClauseOutcome(v.input, ClauseOf(v)))
      BY <1>3, <3>1, <3>2, LeafSays DEF AtLeaf
    <3> QED
      BY <3>2, <3>3, SaysOfClause
  <2> QED
    BY <2>1, <2>2
<1> QED
  BY <1>1, <1>2, <1>3, <1>4, <1>5, Sequel

LEMMA BranchKeeps ==
  ASSUME ACLAssumption, ArgumentsFirst, ACLInv, NEW e \in Evals, BranchAnswered(e)
  PROVE  ACLInv'
<1>1. PICK v, cur, n : v = eval[e] /\ cur = At(current) /\ n = AfterBranch(v, cur)
  OBVIOUS
<1>2. v.pc = "branch" /\ Turn(e, n, cur) /\ rules' = rules /\ frame' = frame
  BY <1>1 DEF BranchAnswered, AfterBranch
<1>3. AtBranch(v) /\ frame[e].args = v.input.args
  BY <1>1, <1>2 DEF ACLInv, Evaluates, Proceeds, AtRule, AtClause, AtLeaf
<1>4. FramesShaped' /\ ArgsKept(Evals)
  BY <1>2 DEF ACLInv, FramesShaped, ArgsKept
<1>5. Proceeds(n) /\ n.input = v.input /\ Beyond(n)
  BY <1>1, <1>3, SaysOfBranches
<1> QED
  BY <1>1, <1>2, <1>3, <1>4, <1>5, Sequel

LEMMA ClauseKeeps ==
  ASSUME ACLAssumption, ArgumentsFirst, ACLInv, NEW e \in Evals, ClauseAnswered(e)
  PROVE  ACLInv'
<1>1. PICK v, cur, out, n : /\ v = eval[e] /\ cur = At(current) /\ out = v.out
                            /\ n = ClauseSaid(v, cur, out)
  OBVIOUS
<1>2. v.pc = "clause" /\ Turn(e, n, cur) /\ rules' = rules /\ frame' = frame
  BY <1>1 DEF ClauseAnswered
<1>3. AtClause(v) /\ frame[e].args = v.input.args
  BY <1>1, <1>2 DEF ACLInv, Evaluates, Proceeds, AtRule, AtBranch, AtLeaf
<1>4. FramesShaped' /\ ArgsKept(Evals)
  BY <1>2 DEF ACLInv, FramesShaped, ArgsKept
<1>5. InList(v) /\ InRule(v) /\ SameTo(out, ClauseOutcome(v.input, ClauseOf(v)))
  BY <1>1, <1>3 DEF AtClause, SameTo
<1>6. Proceeds(n) /\ n.input = v.input /\ Beyond(n)
  BY <1>1, <1>5, SaysOfClause
<1> QED
  BY <1>1, <1>2, <1>3, <1>4, <1>6, Sequel

LEMMA SettledParts ==
  ASSUME NEW v, NEW decision, NEW errors, NEW n, n = Settled(v, decision, errors)
  PROVE  /\ n.pc = "done" /\ n.mode = v.mode /\ n.input = v.input /\ n.rules = v.rules
         /\ n.default = v.default /\ n.decision = decision
  BY DEF Settled, Idle

LEMMA RuleKeeps ==
  ASSUME ACLAssumption, ArgumentsFirst, ACLInv, NEW e \in Evals, RuleAnswered(e)
  PROVE  ACLInv'
<1>1. PICK v, w, i, cur : v = eval[e] /\ w = Noted(v) /\ i = NextIdx(v) /\ cur = At(e)
  OBVIOUS
<1>2. /\ v.pc = "rule" /\ rules' = rules
      /\ IF Deciders(v) \/ i > Len(v.rules)
         THEN /\ Turn(e, Settled(w, Decision(v.rules, v.default, i, w.pending), frame[e].errors), cur)
              /\ frame' = [frame EXCEPT ![e].errors = {}]
         ELSE /\ Turn(e, EnterRule(w, cur, i), cur)
              /\ frame' = Recorded(e, Prechecked(v, i))
  BY <1>1 DEF RuleAnswered, Noted, NextIdx, Deciders, Rearmed
<1>3. AtRule(v) /\ frame[e].args = v.input.args
  BY <1>1, <1>2 DEF ACLInv, Evaluates, Proceeds, AtBranch, AtClause, AtLeaf
<1>4. /\ ~Deciders(v) /\ i <= Len(v.rules) => Rated(w, i) /\ w.input = v.input
      /\ Deciders(v) \/ i > Len(v.rules) =>
           /\ Settles(v.input, v.rules, "async", i) /\ w.pending \in BOOLEAN
           /\ w.pending <=>
                \E h \in 1 .. (i - 1) : /\ Verdict(v.input, v.rules[h], "async") = "unevaluable"
                                        /\ RaisesPending(v.rules[h])
      /\ w.mode = "async" /\ w.input = v.input /\ w.rules = v.rules /\ w.default = v.default
      /\ w.rules \in Seq(Rules) /\ w.input \in Inputs
  BY <1>1, <1>3, AfterRule
<1>5. cur.slot = e /\ cur.args = v.input.args
  BY <1>1, <1>3 DEF At, ACLAssumption
<1>6. CASE Deciders(v) \/ i > Len(v.rules)
  <2>1. PICK n, decision, errors : /\ n = Settled(w, decision, errors)
                                   /\ decision = Decision(v.rules, v.default, i, w.pending)
                                   /\ Turn(e, n, cur)
    BY <1>2, <1>6
  <2>2. frame' = [frame EXCEPT ![e] = [frame[e] EXCEPT !.errors = {}]]
    BY <1>2, <1>6
  <2>3. FramesShaped' /\ ArgsKept(Evals \ {e})
    BY <2>2 DEF ACLInv, FramesShaped, ArgsKept
  <2>4. /\ n.pc = "done" /\ n.mode = "async" /\ n.input = v.input /\ n.rules = v.rules
        /\ n.default = v.default /\ n.decision = decision /\ n.rules \in Seq(Rules)
    BY <1>4, <2>1, SettledParts
  <2>5. eval' = [eval EXCEPT ![e] = n] /\ borrowed' = borrowed
    BY <1>5, <2>1 DEF Turn, Borrows
  <2>6. PICK input, rs, default, pending : /\ input = v.input /\ rs = v.rules /\ default = v.default
                                           /\ pending = w.pending
    OBVIOUS
  <2>7. decision = Decide(input, rs, default, "async")
    <3>1. PICK mode : mode = "async"
      OBVIOUS
    <3>2. /\ Settles(input, rs, mode, i) /\ pending \in BOOLEAN
          /\ pending <=> \E h \in 1 .. (i - 1) :
                           Verdict(input, rs[h], mode) = "unevaluable" /\ RaisesPending(rs[h])
      BY <1>4, <1>6, <2>6, <3>1
    <3>3. Decide(input, rs, default, mode) = Decision(rs, default, i, pending)
      BY <3>2, TheDecision
    <3> QED
      BY <2>1, <2>6, <3>1, <3>3
  <2>8. Concluded(n)
    BY <2>4, <2>6, <2>7 DEF Concluded
  <2>9. GoesOn(e, n)
    BY <2>4, <2>8 DEF GoesOn
  <2> QED
    BY <1>2, <2>3, <2>5, <2>9, Turns
<1>7. CASE ~(Deciders(v) \/ i > Len(v.rules))
  <2>1. PICK n : n = EnterRule(w, cur, i) /\ Turn(e, n, cur)
    BY <1>2, <1>7
  <2>2. FramesShaped' /\ ArgsKept(Evals)
    <3>1. PICK paths : frame' = Recorded(e, paths)
      BY <1>2, <1>7
    <3> QED
      BY <3>1, RecordedKeeps DEF ACLInv
  <2>3. i <= Len(v.rules)
    <3>1. Len(v.rules) \in Nat /\ i \in Nat
      <4>1. v.rules \in Seq(Rules) /\ v.idx \in DOMAIN v.rules
        BY <1>3 DEF AtRule, InList
      <4>2. Len(v.rules) \in Nat /\ v.idx \in Nat
        BY <4>1
      <4> QED
        BY <1>1, <4>2 DEF NextIdx
    <3> QED
      BY <1>7, <3>1
  <2>4. Rated(w, i) /\ w.input = v.input /\ cur.args = w.input.args
    BY <1>4, <1>5, <1>7, <2>3
  <2>5. Proceeds(n) /\ n.input = w.input
    BY <2>1, <2>4, EntersRule
  <2> QED
    BY <1>1, <1>2, <1>3, <1>5, <2>1, <2>2, <2>4, <2>5, Sequel
<1> QED
  BY <1>6, <1>7

LEMMA CheckKeeps ==
  ASSUME ACLAssumption, ACLInv, NEW e \in Evals, NEW input \in Inputs, Check(e, input)
  PROVE  ACLInv'
<1>1. PICK v, decision, errors, n :
        /\ v = [Idle EXCEPT !.mode = "sync", !.input = input, !.rules = rules, !.default = defaultEffect]
        /\ decision = Decide(input, rules, defaultEffect, "sync")
        /\ n = Settled(v, decision, errors) /\ eval' = [eval EXCEPT ![e] = n]
  BY DEF Check
<1>2. v.mode = "sync" /\ v.input = input /\ v.rules = rules /\ v.default = defaultEffect
  BY <1>1 DEF Idle
<1>3. /\ n.pc = "done" /\ n.mode = v.mode /\ n.input = v.input /\ n.rules = v.rules
      /\ n.default = v.default /\ n.decision = decision
  <2>1. n = Settled(v, decision, errors)
    BY <1>1
  <2> QED
    BY <2>1, SettledParts
<1>4. Concluded(n)
  BY <1>1, <1>2, <1>3 DEF Concluded, ACLInv
<1>5. GoesOn(e, n)
  BY <1>3, <1>4 DEF GoesOn
<1>6. FramesShaped' /\ ArgsKept(Evals \ {e}) /\ rules' = rules /\ borrowed' = borrowed
  BY DEF Check, ACLInv, FramesShaped, ArgsKept
<1> QED
  BY <1>1, <1>5, <1>6, Turns

\* What an evaluation is before its first rule.
Opening(input) ==
  [Idle EXCEPT !.mode = "async", !.input = input, !.rules = rules, !.default = defaultEffect]

LEMMA OpeningParts ==
  ASSUME NEW input, NEW v, v = Opening(input)
  PROVE  /\ IsAnEval(v) /\ v.mode = "async" /\ v.input = input /\ v.rules = rules
         /\ v.default = defaultEffect /\ v.pending = FALSE /\ v.saw = FALSE
  BY DEF Opening, Idle, IsAnEval, EvalFields

LEMMA BeginKeeps ==
  ASSUME ACLAssumption, ArgumentsFirst, ACLInv, NEW e \in Evals, NEW input \in Inputs, Begin(e, input)
  PROVE  ACLInv'
<1>1. PICK v, cur : v = Opening(input) /\ cur = [slot |-> e, args |-> input.args]
  OBVIOUS
<1>2. /\ IsAnEval(v) /\ v.mode = "async" /\ v.input = input /\ v.rules = rules
      /\ v.default = defaultEffect /\ v.pending = FALSE /\ v.saw = FALSE
  BY <1>1, OpeningParts
<1>3. cur.slot = e /\ cur.args = v.input.args
  BY <1>1, <1>2
<1>4. rules \in Seq(Rules) /\ rules' = rules
  BY DEF ACLInv, Begin
<1>5. CASE rules = <<>>
  <2>1. PICK n, decision, errors : /\ n = Settled(v, decision, errors) /\ Turn(e, n, cur)
                                   /\ decision = Decision(rules, defaultEffect, 1, FALSE)
    BY <1>1, <1>5 DEF Begin, Opening
  <2>2. frame' = frame
    BY <1>5 DEF Begin
  <2>3. /\ n.pc = "done" /\ n.mode = v.mode /\ n.input = v.input /\ n.rules = v.rules
        /\ n.default = v.default /\ n.decision = decision
    <3>1. n = Settled(v, decision, errors)
      BY <2>1
    <3> QED
      BY <3>1, SettledParts
  <2>4. decision = Decide(input, rules, defaultEffect, "async")
    <3>1. PICK i, mode, rs, default, pending :
            /\ i = 1 /\ mode = "async" /\ rs = rules /\ default = defaultEffect
            /\ pending = FALSE /\ pending \in BOOLEAN
      OBVIOUS
    <3>2. Len(rs) = 0 /\ DOMAIN rs = 1 .. Len(rs) /\ 1 .. (i - 1) = {}
      BY <1>5, <3>1
    <3>3. Settles(input, rs, mode, i)
      BY <3>1, <3>2 DEF Settles
    <3>4. Decide(input, rs, default, mode) = Decision(rs, default, i, pending)
      BY <3>1, <3>2, <3>3, TheDecision
    <3> QED
      BY <2>1, <3>1, <3>4
  <2>5. GoesOn(e, n)
    BY <1>2, <1>4, <2>3, <2>4 DEF GoesOn, Concluded
  <2>6. eval' = [eval EXCEPT ![e] = n] /\ borrowed' = borrowed
    BY <1>3, <2>1 DEF Turn, Borrows
  <2>7. FramesShaped' /\ ArgsKept(Evals \ {e})
    BY <2>2 DEF ACLInv, FramesShaped, ArgsKept
  <2> QED
    BY <1>4, <2>5, <2>6, <2>7, Turns
<1>6. CASE rules # <<>>
  <2>1. PICK n, i : n = EnterRule(v, cur, i) /\ Turn(e, n, cur) /\ i = 1
    BY <1>1, <1>6 DEF Begin, Opening
  <2>2. PICK f : /\ frame' = [frame EXCEPT ![e] = f] /\ f.args = input.args
                 /\ DOMAIN f = {"errors", "args", "previous"}
    BY <1>6 DEF Begin, Opened
  <2>3. FramesShaped' /\ ArgsKept(Evals \ {e}) /\ frame'[e].args = input.args
    BY <2>2 DEF ACLInv, FramesShaped, ArgsKept
  <2>4. Rated(v, i)
    <3>1. i \in DOMAIN rules /\ 1 .. (i - 1) = {}
      BY <1>4, <1>6, <2>1
    <3> QED
      BY <1>2, <1>4, <3>1 DEF Rated
  <2>5. Proceeds(n) /\ n.input = v.input
    BY <1>3, <2>1, <2>4, EntersRule
  <2>6. GoesOn(e, n)
    BY <1>2, <2>3, <2>5 DEF GoesOn
  <2>7. eval' = [eval EXCEPT ![e] = n] /\ borrowed' = borrowed
    BY <1>3, <2>1 DEF Turn, Borrows
  <2> QED
    BY <1>4, <2>3, <2>6, <2>7, Turns
<1> QED
  BY <1>5, <1>6

\* No evaluation takes part in an edit of the list: each goes on with its own.
LEMMA EditKeeps ==
  ASSUME ACLInv, UNCHANGED <<current, frame, eval, borrowed>>, rules' \in Seq(Rules)
  PROVE  ACLInv'
<1>1. ASSUME NEW e \in Evals PROVE Evaluates(e)'
  BY DEF ACLInv, Evaluates
<1> QED
  BY <1>1 DEF ACLInv, FramesShaped, OwnArguments

LEMMA Removed ==
  ASSUME NEW s \in Seq(Rules), NEW i \in DOMAIN s
  PROVE  SubSeq(s, 1, i - 1) \o SubSeq(s, i + 1, Len(s)) \in Seq(Rules)
  OBVIOUS

LEMMA FirstIndex ==
  ASSUME NEW M \in SUBSET Nat, M # {}
  PROVE  (CHOOSE h \in M : \A g \in M : h <= g) \in M
<1>1. PICK n \in M : \A k \in M : n <= k
  BY LeastNumber
<1> QED
  BY <1>1

LEMMA EditsKeep ==
  ASSUME ACLAssumption, ACLInv,
         \/ \E r \in Rules : AddRule(r)
         \/ \E target, conditions : RemoveRule(target, conditions)
         \/ \E effect \in Effects : Reload(effect)
  PROVE  ACLInv'
<1>1. UNCHANGED <<current, frame, eval, borrowed>>
  BY DEF AddRule, RemoveRule, Reload, Edit
<1>2. rules' \in Seq(Rules)
  <2>1. ASSUME NEW r \in Rules, AddRule(r) PROVE rules' \in Seq(Rules)
    BY <2>1 DEF AddRule, ACLInv
  <2>2. ASSUME NEW target, NEW conditions, RemoveRule(target, conditions) PROVE rules' \in Seq(Rules)
    <3>1. PICK M : M = {i \in DOMAIN rules : Matches(rules[i], target, conditions)}
      OBVIOUS
    <3>2. PICK i : i = CHOOSE h \in M : \A g \in M : h <= g
      OBVIOUS
    <3>3. M # {} /\ rules' = SubSeq(rules, 1, i - 1) \o SubSeq(rules, i + 1, Len(rules))
      BY <2>2, <3>1, <3>2 DEF RemoveRule
    <3>4. M \in SUBSET Nat /\ M \subseteq DOMAIN rules
      BY <3>1 DEF ACLInv
    <3>5. i \in DOMAIN rules
      BY <3>2, <3>3, <3>4, FirstIndex
    <3> QED
      BY <3>3, <3>5, Removed DEF ACLInv
  <2>3. ASSUME NEW effect \in Effects, Reload(effect) PROVE rules' \in Seq(Rules)
    BY <2>3 DEF Reload, ACLAssumption
  <2> QED
    BY <2>1, <2>2, <2>3
<1> QED
  BY <1>1, <1>2, EditKeeps

----------------------------------------------------------------------------
LEMMA ACLStarts == ACLAssumption /\ Init => ACLInv
<1> SUFFICES ASSUME ACLAssumption, Init PROVE ACLInv
  OBVIOUS
<1>1. ASSUME NEW e \in Evals PROVE Evaluates(e)
  <2>1. eval[e].pc = "idle"
    BY DEF Init, Idle
  <2> QED
    BY <2>1 DEF Evaluates
<1>2. FramesShaped
  BY DEF Init, FramesShaped
<1> QED
  BY <1>1, <1>2 DEF Init, ACLInv, OwnArguments, ACLAssumption

LEMMA ACLStays == ACLAssumption /\ ArgumentsFirst /\ ACLInv /\ [Next]_vars => ACLInv'
<1> SUFFICES ASSUME ACLAssumption, ArgumentsFirst, ACLInv, [Next]_vars PROVE ACLInv'
  OBVIOUS
<1>1. ASSUME NEW e \in Evals, NEW input \in Inputs, Check(e, input) PROVE ACLInv'
  BY <1>1, CheckKeeps
<1>2. ASSUME NEW e \in Evals, NEW input \in Inputs, Begin(e, input) PROVE ACLInv'
  BY <1>2, BeginKeeps
<1>3. ASSUME NEW e \in Evals, LeafAnswered(e) PROVE ACLInv'
  BY <1>3, LeafKeeps
<1>4. ASSUME NEW e \in Evals, BranchAnswered(e) PROVE ACLInv'
  BY <1>4, BranchKeeps
<1>5. ASSUME NEW e \in Evals, ClauseAnswered(e) PROVE ACLInv'
  BY <1>5, ClauseKeeps
<1>6. ASSUME NEW e \in Evals, RuleAnswered(e) PROVE ACLInv'
  BY <1>6, RuleKeeps
<1>7. ASSUME \/ \E r \in Rules : AddRule(r)
             \/ \E target, conditions : RemoveRule(target, conditions)
             \/ \E effect \in Effects : Reload(effect)
      PROVE  ACLInv'
  BY <1>7, EditsKeep
<1>8. ASSUME UNCHANGED vars PROVE ACLInv'
  BY <1>8, EditKeeps DEF vars, ACLInv
<1> QED
  BY <1>1, <1>2, <1>3, <1>4, <1>5, <1>6, <1>7, <1>8 DEF Next

----------------------------------------------------------------------------
(* Three verdicts *)

LEMMA Verdicts ==
  ASSUME NEW input, NEW r, NEW mode
  PROVE  Verdict(input, r, mode) \in {"match", "no_match", "unevaluable"}
  BY DEF Verdict

LEMMA DecidingParts ==
  ASSUME NEW input, NEW rs \in Seq(Rules), NEW mode
  PROVE  /\ Deciding(input, rs, mode) \in 1 .. (Len(rs) + 1)
         /\ \A h \in 1 .. (Deciding(input, rs, mode) - 1) : ~Decides(input, rs[h], mode)
<1> DEFINE D == {h \in DOMAIN rs : Decides(input, rs[h], mode)}
<1>1. CASE D = {}
  BY <1>1 DEF Deciding
<1>2. CASE D # {}
  <2>1. D \in SUBSET Nat
    OBVIOUS
  <2>2. PICK m \in D : \A k \in D : m <= k
    BY <1>2, <2>1, LeastNumber
  <2>3. \A g \in D : (\A h \in D : g <= h) => g = m
    BY <2>1, <2>2
  <2>4. m = CHOOSE g \in D : \A h \in D : g <= h
    BY <2>2, <2>3
  <2>5. Deciding(input, rs, mode) = m
    BY <1>2, <2>4 DEF Deciding
  <2> QED
    BY <2>1, <2>2, <2>5
<1> QED
  BY <1>1, <1>2

\* A rule that did not decide is not one that refuses: it was not about the
\* call, or it stepped aside and left its approval behind.
LEMMA GrantsLoudly ==
  ASSUME ACLAssumption, NEW v, Concluded(v), v.decision.access = "allow"
  PROVE  \A h \in (IF v.decision.rule = 0 THEN DOMAIN v.rules ELSE 1 .. v.decision.rule - 1) :
           /\ v.rules[h].effect = "deny" => Verdict(v.input, v.rules[h], v.mode) = "no_match"
           /\ v.rules[h].gated /\ Verdict(v.input, v.rules[h], v.mode) = "unevaluable" => v.decision.approval
<1>1. PICK input, rs, mode, i : /\ input = v.input /\ rs = v.rules /\ mode = v.mode
                                /\ i = Deciding(input, rs, mode)
  OBVIOUS
<1>2. rs \in Seq(Rules)
  BY <1>1 DEF Concluded
<1>3. i \in 1 .. (Len(rs) + 1) /\ \A h \in 1 .. (i - 1) : ~Decides(input, rs[h], mode)
  BY <1>1, <1>2, DecidingParts
<1>4. PICK pending \in BOOLEAN :
        pending = \E h \in 1 .. (i - 1) : /\ Verdict(input, rs[h], mode) = "unevaluable"
                                          /\ RaisesPending(rs[h])
  OBVIOUS
<1>5. v.decision = Decision(rs, v.default, i, pending)
  BY <1>1, <1>4 DEF Concluded, Decide
<1>6. /\ v.decision.rule = IF i <= Len(rs) THEN i ELSE 0
      /\ v.decision.access = "allow" /\ pending => v.decision.approval
  BY <1>5 DEF Decision, Granted
<1>7. (IF v.decision.rule = 0 THEN DOMAIN v.rules ELSE 1 .. v.decision.rule - 1) = 1 .. (i - 1)
  BY <1>1, <1>2, <1>3, <1>6
<1>8. ASSUME NEW h \in 1 .. (i - 1)
      PROVE  /\ rs[h].effect = "deny" => Verdict(input, rs[h], mode) = "no_match"
             /\ rs[h].gated /\ Verdict(input, rs[h], mode) = "unevaluable" => v.decision.approval
  <2>1. h \in DOMAIN rs
    BY <1>2, <1>3
  <2>2. IsARule(rs[h])
    BY <1>2, <2>1, RuleShape
  <2>3. Verdict(input, rs[h], mode) # "match" /\ ~(Verdict(input, rs[h], mode) = "unevaluable" /\ rs[h].effect = "deny")
    BY <1>3 DEF Decides, TakesEffect
  <2>4. rs[h].gated => rs[h].effect = "allow"
    BY <2>2 DEF IsARule
  <2>5. rs[h].gated /\ Verdict(input, rs[h], mode) = "unevaluable" => pending
    BY <1>4, <2>4 DEF RaisesPending
  <2> QED
    BY <1>6, <2>3, <2>5, Verdicts
<1> QED
  BY <1>1, <1>7, <1>8

LEMMA ACLShows == ASSUME ACLAssumption, ACLInv PROVE PathsAgree /\ NoSilentGrant /\ OwnArguments
<1>1. ASSUME NEW e \in Evals, Done(e) PROVE Concluded(eval[e])
  <2>1. Evaluates(e) /\ eval[e].pc = "done"
    BY <1>1 DEF ACLInv, Done
  <2> QED
    BY <2>1 DEF Evaluates
<1>2. PathsAgree
  BY <1>1 DEF PathsAgree, Concluded
<1>3. NoSilentGrant
  <2> SUFFICES ASSUME NEW e \in Evals, Done(e), eval[e].decision.access = "allow"
               PROVE  LET v == eval[e]
                          before == IF v.decision.rule = 0 THEN DOMAIN v.rules ELSE 1 .. v.decision.rule - 1
                          verdict(h) == Verdict(v.input, v.rules[h], v.mode)
                      IN \A h \in before :
                           /\ v.rules[h].effect = "deny" => verdict(h) = "no_match"
                           /\ v.rules[h].gated /\ verdict(h) = "unevaluable" => v.decision.approval
    BY DEF NoSilentGrant
  <2>1. PICK v : v = eval[e]
    OBVIOUS
  <2>2. Concluded(v) /\ v.decision.access = "allow"
    BY <1>1, <2>1
  <2> QED
    BY <2>1, <2>2, GrantsLoudly
<1> QED
  BY <1>2, <1>3 DEF ACLInv

LEMMA ACLHolds ==
  ASSUME ArgumentsFirst
  PROVE  Spec => []ACLInv
<1>1. Init => ACLInv
  BY ACLStarts, ACLAssumption
<1>2. ACLInv /\ [Next]_vars => ACLInv'
  BY ACLStays, ACLAssumption
<1> QED
  BY <1>1, <1>2, PTL DEF Spec

\* However asyncCheckAccess() is interleaved, with itself and with edits of the
\* rules, it decides what checkAccess() decides over the rules it started with.
THEOREM EvaluationsAgree ==
  ASSUME ArgumentsFirst
  PROVE  Spec => []PathsAgree
<1>1. ACLInv => PathsAgree
  BY ACLShows, ACLAssumption
<1> QED
  BY <1>1, ACLHolds, PTL

\* No grant, of either copy, goes past a deny that matched or could not be
\* evaluated, nor drops the approval of a rule that could not be.
THEOREM NothingSilentlyGranted ==
  ASSUME ArgumentsFirst
  PROVE  Spec => []NoSilentGrant
<1>1. ACLInv => NoSilentGrant
  BY ACLShows, ACLAssumption
<1> QED
  BY <1>1, ACLHolds, PTL

\* The arguments condition is answered from the frame of its own call.
THEOREM ArgumentsAreOwn ==
  ASSUME ArgumentsFirst
  PROVE  Spec => []OwnArguments
<1>1. ACLInv => OwnArguments
  BY ACLShows, ACLAssumption
<1> QED
  BY <1>1, ACLHolds, PTL
=============================================================================
