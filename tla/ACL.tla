-------------------------------- MODULE ACL --------------------------------
(***************************************************************************)
(* Access decisions of src/acl.ts: checkAccess(), asyncCheckAccess(), the   *)
(* three-valued evaluation of conditions they share in two copies, and the  *)
(* operations that edit the rules meanwhile.                                *)
(*                                                                          *)
(* asyncCheckAccess() gives up the thread at every await, one per condition *)
(* asked, whether its handler is asynchronous or not; checkAccess() runs to *)
(* its end.  What both share is the static _currentFrame: the arguments the *)
(* `arguments' condition reads and the slot that collects what could not be *)
(* evaluated.  A check() that a handler makes restores the frame it found,  *)
(* so it is one made between two turns.                                     *)
(*                                                                          *)
(* Patterns are reduced to whether the rule is about the target, predicates *)
(* over argument keys to one question with three answers, and handler_error *)
(* to the set of condition paths it names.  A clause is a condition key, or *)
(* $or / $not over conjunctions of keys: nesting stops at depth two.        *)
(***************************************************************************)
EXTENDS Integers, Sequences, FiniteSets

CONSTANTS
  Evals,       \* the evaluations of the instance
  Inputs,      \* what an evaluation may be asked
  Rules,       \* the rules that may be added
  FirstRules,  \* the list the ACL starts with
  FileRules,   \* the list its file holds when reload() reads it
  SyncKeys,    \* the keys of conditionHandlers
  AsyncKeys,   \* the keys of asyncConditionHandlers
  MaxEdits,    \* bound: edits of the rule list
  None

Effects == {"allow", "deny"}

\* A condition of a rule; bound: three branches of three keys.  An empty $or or
\* branch asks nobody and is left out.
IsAClause(c) ==
  /\ c.op \in {"leaf", "or", "not"}
  /\ Len(c.branches) \in 1 .. 3 /\ DOMAIN c.branches = 1 .. Len(c.branches)
  /\ \A j \in DOMAIN c.branches :
       Len(c.branches[j]) \in 1 .. 3 /\ DOMAIN c.branches[j] = 1 .. Len(c.branches[j])
  /\ c.op # "or" => Len(c.branches) = 1
  /\ c.op = "leaf" => Len(c.branches[1]) = 1

IsARule(r) ==
  /\ r.effect \in Effects /\ r.gated \in BOOLEAN /\ (r.gated => r.effect = "allow")
  /\ Len(r.conditions) \in Nat
  /\ r.conditions = [i \in 1 .. Len(r.conditions) |-> r.conditions[i]]
  /\ \A i \in DOMAIN r.conditions : IsAClause(r.conditions[i])

ASSUME ACLAssumption ==
  /\ IsFiniteSet(Evals) /\ None \notin Evals
  /\ "arguments" \in SyncKeys
  /\ MaxEdits \in Nat
  /\ \A r \in Rules : IsARule(r)
  /\ \A input \in Inputs : input.context \in BOOLEAN
  /\ FirstRules \in Seq(Rules) /\ FileRules \in Seq(Rules)

VARIABLES
  rules,          \* _rules
  defaultEffect,  \* _defaultEffect
  current,        \* _currentFrame: the evaluation whose frame it is
  frame,          \* [Evals -> its capture frame]
  eval,           \* [Evals -> the state of the evaluation]
  edits,          \* edits made so far
  borrowed        \* history: evaluations that read another one's arguments

vars == <<rules, defaultEffect, current, frame, eval, edits, borrowed>>

----------------------------------------------------------------------------
(* Rules.                                                                   *)

\* What the `arguments' condition answers for a projection.
ArgumentsOutcome(args) ==
  CASE args = "absent" -> "unevaluable"
    [] args = "force"  -> "satisfied"
    [] args = "plain"  -> "unsatisfied"

\* The keys precheckConditions finds a handler for on each path.
Resolvable(mode) == IF mode = "sync" THEN SyncKeys ELSE SyncKeys \cup AsyncKeys

\* The path of a key inside a condition tree, as handler_error reports it.
Path(c, j, k) == IF c.op = "leaf" THEN <<k>> ELSE <<c.op, j, k>>

Places(r) == {p \in (DOMAIN r.conditions) \X (1 .. 3) \X (1 .. 3) :
                /\ p[2] \in DOMAIN r.conditions[p[1]].branches
                /\ p[3] \in DOMAIN r.conditions[p[1]].branches[p[2]]}
KeyAt(r, p) == r.conditions[p[1]].branches[p[2]][p[3]]

\* Each rule asks for the arguments, if it does, before it awaits anything: the
\* hypothesis under which an evaluation reads no other call's.
ArgumentsFirst ==
  \A r \in Rules : \A p \in Places(r) : KeyAt(r, p) = "arguments" => p = <<1, 1, 1>>

Precheck(r, mode) ==
  {Path(r.conditions[p[1]], p[2], KeyAt(r, p)) :
     p \in {q \in Places(r) : KeyAt(r, q) \notin Resolvable(mode)}}

InScope(input, r) == r.target \in {"any", input.target}

\* An unevaluable rule: a deny takes effect, an allow steps aside but leaves
\* the approval it asks for behind.
TakesEffect(r)  == r.effect = "deny"
RaisesPending(r) == r.effect = "allow" /\ r.gated

Negated(o) == CASE o = "satisfied"   -> "unsatisfied"
                [] o = "unsatisfied" -> "satisfied"
                [] o = "unevaluable" -> "unevaluable"

Answer(input, args, k) ==
  IF k = "arguments" THEN ArgumentsOutcome(args) ELSE input.answers[k]

----------------------------------------------------------------------------
(* The synchronous path: checkAccess() with the projection of its own frame. *)

KeyOutcome(input, k) == Answer(input, input.args, k)

ConjOutcome(input, keys) ==
  LET seen == {KeyOutcome(input, keys[l]) : l \in DOMAIN keys}
  IN CASE "unsatisfied" \in seen -> "unsatisfied"
       [] "unsatisfied" \notin seen /\ "unevaluable" \in seen -> "unevaluable"
       [] OTHER -> "satisfied"

ClauseOutcome(input, c) ==
  LET seen == {ConjOutcome(input, c.branches[j]) : j \in DOMAIN c.branches}
  IN CASE c.op = "leaf" -> ConjOutcome(input, c.branches[1])
       [] c.op = "not"  -> Negated(ConjOutcome(input, c.branches[1]))
       [] c.op = "or" /\ "satisfied" \in seen -> "satisfied"
       [] c.op = "or" /\ "satisfied" \notin seen ->
            IF "unevaluable" \in seen THEN "unevaluable" ELSE "unsatisfied"

\* A key is asked unless a key before it in its conjunction said no, a branch
\* before its own said yes, or a clause before its own said no.
Reached(input, r, p) ==
  LET c == r.conditions[p[1]]
  IN /\ \A i \in 1 .. p[1] - 1 :
          ClauseOutcome(input, r.conditions[i]) # "unsatisfied"
     /\ \A j \in 1 .. p[2] - 1 : ConjOutcome(input, c.branches[j]) # "satisfied"
     /\ \A l \in 1 .. p[3] - 1 :
          KeyOutcome(input, c.branches[p[2]][l]) # "unsatisfied"

\* _matchesRule: match, no_match or unevaluable.
Verdict(input, r, mode) ==
  LET seen == {ClauseOutcome(input, r.conditions[i]) : i \in DOMAIN r.conditions}
  IN CASE ~InScope(input, r) -> "no_match"
       [] InScope(input, r) /\ Precheck(r, mode) # {} -> "unevaluable"
       [] InScope(input, r) /\ Precheck(r, mode) = {} ->
            IF r.conditions = <<>> THEN "match"
            ELSE IF ~input.context \/ "unsatisfied" \in seen THEN "no_match"
            ELSE IF "unevaluable" \in seen THEN "unevaluable" ELSE "match"

\* The paths that one rule contributes to handler_error.
Faults(input, r, mode) ==
  IF ~InScope(input, r) THEN {}
  ELSE IF Precheck(r, mode) # {} THEN Precheck(r, mode)
  ELSE IF ~input.context THEN {}
  ELSE {Path(r.conditions[p[1]], p[2], KeyAt(r, p)) :
          p \in {q \in Places(r) : /\ Reached(input, r, q)
                                   /\ KeyOutcome(input, KeyAt(r, q)) = "unevaluable"}}

Decides(input, r, mode) ==
  LET v == Verdict(input, r, mode)
  IN v = "match" \/ (v = "unevaluable" /\ TakesEffect(r))

\* The rule that decides, Len(rs) + 1 for the default.
Deciding(input, rs, mode) ==
  LET D == {i \in DOMAIN rs : Decides(input, rs[i], mode)}
  IN IF D = {} THEN Len(rs) + 1 ELSE CHOOSE i \in D : \A h \in D : i <= h

\* _decideByRule and _decideByDefault: 0 stands for the default.
Granted(i, access, gated, pending) ==
  [rule |-> i, access |-> access,
   approval |-> access = "allow" /\ (gated \/ pending)]

Decision(rs, default, i, pending) ==
  IF i <= Len(rs) THEN Granted(i, rs[i].effect, rs[i].gated, pending)
  ELSE Granted(0, default, FALSE, pending)

Decide(input, rs, default, mode) ==
  LET i == Deciding(input, rs, mode)
      pending == \E h \in 1 .. i - 1 :
                   /\ Verdict(input, rs[h], mode) = "unevaluable"
                   /\ RaisesPending(rs[h])
  IN Decision(rs, default, i, pending)

\* What handler_error names when that rule decides.
Reported(input, rs, mode) ==
  LET i == Deciding(input, rs, mode)
  IN UNION {Faults(input, rs[h], mode) : h \in {g \in DOMAIN rs : g <= i}}

----------------------------------------------------------------------------
(* The asynchronous path.  pc is the promise awaited: a handler's (leaf), a  *)
(* branch's, a $or's or $not's (clause), a rule's.                           *)

Idle == [pc |-> "idle", mode |-> None, input |-> None, rules |-> <<>>,
         default |-> "deny", idx |-> 0, pending |-> FALSE,
         clause |-> 0, branch |-> 0, leaf |-> 0,
         bound |-> None, boundBranch |-> None,
         saw |-> FALSE, sawOr |-> FALSE, sawBranch |-> FALSE,
         out |-> "satisfied", decision |-> None, report |-> {}]

RuleOf(v)   == v.rules[v.idx]
ClauseOf(v) == RuleOf(v).conditions[v.clause]
BranchOf(v) == ClauseOf(v).branches[v.branch]
KeyOf(v)    == BranchOf(v)[v.leaf]
InBranch(v) == ClauseOf(v).op # "leaf"

\* What a turn finds in _currentFrame: whose frame it is, and the projection
\* that a handler asked under it is given.
At(f) == [slot |-> f, args |-> IF f = None THEN "absent" ELSE frame[f].args]

Asked(v, cur) == [v EXCEPT !.pc = "leaf",
                           !.out = Answer(v.input, cur.args, KeyOf(v))]

\* _evaluateConditionsAsync binds the frame that is current at its entry, for
\* the rule's conditions and again for every branch of a $or or $not.
EnterBranch(v, cur, j) ==
  Asked([v EXCEPT !.branch = j, !.leaf = 1, !.sawBranch = FALSE,
                  !.boundBranch = cur.slot], cur)

EnterClause(v, cur, i) ==
  LET w == [v EXCEPT !.clause = i, !.sawOr = FALSE]
  IN IF RuleOf(v).conditions[i].op = "leaf"
     THEN Asked([w EXCEPT !.branch = 1, !.leaf = 1], cur)
     ELSE EnterBranch(w, cur, 1)

RuleSaid(v, out) ==
  [v EXCEPT !.pc = "rule", !.out = out, !.clause = 0, !.branch = 0, !.leaf = 0,
            !.bound = None, !.boundBranch = None,
            !.saw = FALSE, !.sawOr = FALSE, !.sawBranch = FALSE]

\* _matchesRuleAsync up to its first await.
EnterRule(v, cur, i) ==
  LET w == [v EXCEPT !.idx = i]
      r == v.rules[i]
  IN CASE ~InScope(v.input, r) -> RuleSaid(w, "no_match")
       [] InScope(v.input, r) /\ Precheck(r, "async") # {} ->
            RuleSaid(w, "unevaluable")
       [] InScope(v.input, r) /\ Precheck(r, "async") = {} ->
            IF r.conditions = <<>> THEN RuleSaid(w, "match")
            ELSE IF ~v.input.context THEN RuleSaid(w, "no_match")
            ELSE EnterClause([w EXCEPT !.bound = cur.slot], cur, 1)

\* The faults that EnterRule records, in the frame bound at its entry.
Prechecked(v, i) ==
  IF InScope(v.input, v.rules[i]) THEN Precheck(v.rules[i], "async") ELSE {}

\* The outcome of one clause, in the loop over the rule's conditions.
ClauseSaid(v, cur, out) ==
  LET w == [v EXCEPT !.saw = v.saw \/ out = "unevaluable"]
  IN IF out = "unsatisfied" THEN RuleSaid(v, "no_match")
     ELSE IF v.clause < Len(RuleOf(v).conditions)
          THEN EnterClause(w, cur, v.clause + 1)
     ELSE RuleSaid(v, IF w.saw THEN "unevaluable" ELSE "match")

\* The outcome of one key, in the loop over a branch's conditions.
BranchKeySaid(v, cur) ==
  LET saw == v.sawBranch \/ v.out = "unevaluable"
  IN IF v.out # "unsatisfied" /\ v.leaf < Len(BranchOf(v))
     THEN Asked([v EXCEPT !.leaf = v.leaf + 1, !.sawBranch = saw], cur)
     ELSE [v EXCEPT !.pc = "branch",
                    !.out = IF v.out = "unsatisfied" THEN "unsatisfied"
                            ELSE IF saw THEN "unevaluable" ELSE "satisfied"]

\* Every turn ends with the frame it leaves current; an evaluation that reads
\* the arguments under another one's frame has borrowed them.
Borrows(e, v, cur) == v.pc = "leaf" /\ KeyOf(v) = "arguments" /\ cur.slot # e

Turn(e, v, cur) ==
  /\ eval' = [eval EXCEPT ![e] = v]
  /\ borrowed' = IF Borrows(e, v, cur) THEN borrowed \cup {e} ELSE borrowed

\* _recordUnevaluable on a frame; a null frame drops it.
Recorded(f, paths) ==
  IF f = None THEN frame ELSE [frame EXCEPT ![f].errors = @ \cup paths]

----------------------------------------------------------------------------
(* Actions.                                                                  *)

Opened(input) == [errors |-> {}, args |-> input.args, previous |-> current]

\* The frame an evaluation makes current at its loop head and after its await.
NotRearmed(e) == current                                             \* mutant
Rearmed(e) == e

Settled(v, decision, errors) ==
  [Idle EXCEPT !.pc = "done", !.mode = v.mode, !.input = v.input,
               !.rules = v.rules, !.default = v.default,
               !.decision = decision, !.report = errors]

\* checkAccess(): its own frame is current from its push to its pop.
Check(e, input) ==
  /\ eval[e].pc = "idle"
  /\ eval' = [eval EXCEPT ![e] =
                Settled([Idle EXCEPT !.mode = "sync", !.input = input,
                                     !.rules = rules, !.default = defaultEffect],
                        Decide(input, rules, defaultEffect, "sync"),
                        Reported(input, rules, "sync"))]
  /\ UNCHANGED <<rules, defaultEffect, current, frame, edits, borrowed>>

\* asyncCheckAccess() up to its first await, or to its end without rules.
Begin(e, input) ==
  LET v == [Idle EXCEPT !.mode = "async", !.input = input, !.rules = rules,
                        !.default = defaultEffect]
      own == [slot |-> e, args |-> input.args]
  IN /\ eval[e].pc = "idle"
     /\ UNCHANGED <<rules, defaultEffect, edits>>
     /\ IF rules = <<>>
        THEN /\ Turn(e, Settled(v, Decision(rules, defaultEffect, 1, FALSE), {}), own)
             /\ UNCHANGED <<current, frame>>
        ELSE /\ current' = e
             /\ frame' = [frame EXCEPT ![e] =
                            [Opened(input) EXCEPT
                               !.errors = IF InScope(input, rules[1])
                                          THEN Precheck(rules[1], "async") ELSE {}]]
             /\ Turn(e, EnterRule(v, own, 1), own)

\* Where a turn of an evaluation writes its errors: the frame bound at entry.
CurrentSlot(v) == current                                            \* mutant
Slot(v) == IF InBranch(v) THEN v.boundBranch ELSE v.bound

\* A handler's answer, or its rejection, comes back to the loop that asked.
LeafAnswered(e) ==
  LET v == eval[e]
      path == Path(ClauseOf(v), v.branch, KeyOf(v))
  IN /\ v.pc = "leaf"
     /\ frame' = Recorded(Slot(v), IF v.out = "unevaluable" THEN {path} ELSE {})
     /\ Turn(e, IF InBranch(v) THEN BranchKeySaid(v, At(current))
                ELSE ClauseSaid(v, At(current), v.out), At(current))
     /\ UNCHANGED <<rules, defaultEffect, current, edits>>

\* A branch's outcome comes back to OrHandlerAsync or NotHandlerAsync.
BranchAnswered(e) ==
  LET v == eval[e]
      saw == v.sawOr \/ v.out = "unevaluable"
      said(o) == [v EXCEPT !.pc = "clause", !.out = o]
  IN /\ v.pc = "branch"
     /\ Turn(e,
          CASE ClauseOf(v).op = "not" -> said(Negated(v.out))
            [] ClauseOf(v).op = "or" ->
                 IF v.out = "satisfied" THEN said("satisfied")
                 ELSE IF v.branch < Len(ClauseOf(v).branches)
                      THEN EnterBranch([v EXCEPT !.sawOr = saw], At(current), v.branch + 1)
                 ELSE said(IF saw THEN "unevaluable" ELSE "unsatisfied"),
          At(current))
     /\ UNCHANGED <<rules, defaultEffect, current, frame, edits>>

\* A $or's or $not's outcome comes back to the loop over the rule's conditions.
ClauseAnswered(e) ==
  LET v == eval[e]
  IN /\ v.pc = "clause"
     /\ Turn(e, ClauseSaid(v, At(current), v.out), At(current))
     /\ UNCHANGED <<rules, defaultEffect, current, frame, edits>>

\* A rule's outcome comes back to asyncCheckAccess(): it decides, or the next
\* rule is entered, or the default decides.
RuleAnswered(e) ==
  LET v == eval[e]
      r == RuleOf(v)
      w == [v EXCEPT !.pending = v.pending
                       \/ (v.out = "unevaluable" /\ RaisesPending(r))]
      decides == v.out = "match" \/ (v.out = "unevaluable" /\ TakesEffect(r))
      i == IF decides THEN v.idx ELSE v.idx + 1
  IN /\ v.pc = "rule"
     /\ UNCHANGED <<rules, defaultEffect, edits>>
     /\ IF decides \/ i > Len(v.rules)
        THEN /\ Turn(e, Settled(w, Decision(v.rules, v.default, i, w.pending),
                                frame[e].errors), At(e))
             /\ frame' = [frame EXCEPT ![e].errors = {}]
             /\ current' = frame[e].previous
        ELSE /\ Turn(e, EnterRule(w, At(Rearmed(e)), i), At(Rearmed(e)))
             /\ frame' = Recorded(Rearmed(e), Prechecked(v, i))
             /\ current' = Rearmed(e)

Edit ==
  /\ edits < MaxEdits
  /\ edits' = edits + 1
  /\ UNCHANGED <<current, frame, eval, borrowed>>

AddRule(r) == Edit /\ rules' = <<r>> \o rules /\ UNCHANGED defaultEffect

\* removeRule(): the first rule about the target, and with these conditions
\* unless none are given.
Matches(r, target, conditions) ==
  r.target = target /\ conditions \in {<<>>, r.conditions}

RemoveRule(target, conditions) ==
  LET M == {i \in DOMAIN rules : Matches(rules[i], target, conditions)}
  IN /\ Edit /\ M # {}
     /\ LET i == CHOOSE h \in M : \A g \in M : h <= g
        IN rules' = SubSeq(rules, 1, i - 1) \o SubSeq(rules, i + 1, Len(rules))
     /\ UNCHANGED defaultEffect

\* reload(): the rules and the default effect of the file.
Reload(effect) == Edit /\ rules' = FileRules /\ defaultEffect' = effect

----------------------------------------------------------------------------
Init ==
  /\ rules = FirstRules
  /\ defaultEffect \in Effects
  /\ current = None
  /\ frame = [e \in Evals |-> [errors |-> {}, args |-> "absent", previous |-> None]]
  /\ eval = [e \in Evals |-> Idle]
  /\ edits = 0
  /\ borrowed = {}

Next ==
  \/ \E e \in Evals, input \in Inputs : Check(e, input) \/ Begin(e, input)
  \/ \E e \in Evals : \/ LeafAnswered(e)
                      \/ BranchAnswered(e)
                      \/ ClauseAnswered(e)
                      \/ RuleAnswered(e)
  \/ \E r \in Rules : AddRule(r)
  \/ \E r \in Rules : RemoveRule(r.target, r.conditions) \/ RemoveRule(r.target, <<>>)
  \/ \E effect \in Effects : Reload(effect)

Spec == Init /\ [][Next]_vars

----------------------------------------------------------------------------
(* Properties.                                                               *)

Done(e) == eval[e].pc = "done"

\* The two evaluators are two copies of one algorithm: an asynchronous
\* evaluation, however it was interleaved, decides what the synchronous
\* algorithm decides over the rules and the default effect it started with.
PathsAgree ==
  \A e \in Evals :
    Done(e) => LET v == eval[e]
               IN v.decision = Decide(v.input, v.rules, v.default, v.mode)

\* What could not be evaluated never helps a call through: a deny rule about
\* the call that matches or is unevaluable stops it, and an unevaluable rule
\* that asks for approval has it asked for by whatever grants.
NoSilentGrant ==
  \A e \in Evals :
    Done(e) /\ eval[e].decision.access = "allow" =>
      LET v == eval[e]
          before == IF v.decision.rule = 0 THEN DOMAIN v.rules
                    ELSE 1 .. v.decision.rule - 1
          verdict(h) == Verdict(v.input, v.rules[h], v.mode)
      IN \A h \in before :
           /\ v.rules[h].effect = "deny" => verdict(h) = "no_match"
           /\ v.rules[h].gated /\ verdict(h) = "unevaluable" => v.decision.approval

\* handler_error of an audit entry names what this evaluation could not
\* evaluate, and nothing of an evaluation it was interleaved with.
AuditOwnsErrors ==
  \A e \in Evals :
    Done(e) => LET v == eval[e] IN v.report = Reported(v.input, v.rules, v.mode)

\* An evaluation reads the arguments of its own call only.
OwnArguments == borrowed = {}

\* A grant has everything unevaluable against it, and the audit entry of a
\* decision names exactly what was.
GrantsAccounted == NoSilentGrant /\ AuditOwnsErrors
=============================================================================
