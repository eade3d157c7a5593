------------------------------ MODULE ACLRules ------------------------------
(***************************************************************************)
(* How rules get into an ACL and what becomes of them: the three doors that *)
(* judge them (a file, the constructor, addRule()), the shapes a callers or *)
(* targets array may have, validateRules(), the marks of the rules skipped  *)
(* for want of a context, reload(), and the sink that gets the audit record *)
(* (src/acl.ts, src/acl-file.ts).  The evaluation of conditions is module   *)
(* ACL's; here a condition is absent, known to a handler, unknown, or not a *)
(* mapping.                                                                 *)
(*                                                                          *)
(* A rule is an object its author may still hold: the heap keeps them, the  *)
(* list and the snapshot of an evaluation name them, and an assignment to a *)
(* field is seen by all.  An asynchronous evaluation matches one rule in a  *)
(* turn and acts on what it learnt in the next.                             *)
(***************************************************************************)
EXTENDS Integers, Sequences, FiniteSets, Functions, FiniteSetsExt

CONSTANTS
  AclDocuments,   \* what the ACL file or a constructor's caller may hold
  Addable,     \* the rules addRule() may be given
  Assignable,  \* the values somebody may assign to a rule's callers or targets
  Calls,       \* the calls checked: caller, target, whether with a context, and of
               \* what identity; yes: what handlers answer of conditions they know
  Evaluations, \* asynchronous evaluations
  MaxEdits,    \* bound: changes of the list, the file or a rule
  MaxSinks     \* bound: sinks built

\* What a rule object has, and a list of them.
RuleFields == {"keys", "callers", "targets", "effect", "approval", "conditions"}
IsRuleObject(r) == r = [field \in RuleFields |-> r[field]]
IsRuleList(rs) ==
  /\ Len(rs) \in Nat /\ rs = [i \in 1 .. Len(rs) |-> rs[i]]
  /\ \A i \in 1 .. Len(rs) : IsRuleObject(rs[i])

ASSUME ACLRulesAssumption ==
  /\ MaxEdits \in Nat /\ MaxSinks \in Nat \ {0}
  /\ \A d \in AclDocuments : IsRuleList(d.rules)
  /\ \A r \in Addable : IsRuleObject(r)

VARIABLES
  file,     \* the document in the ACL file, or in its author's code
  door,     \* where the ACL came from: none yet, code, file
  heap,     \* rule objects, in order of creation
  list,     \* _rules
  default,  \* _defaultEffect
  marked,   \* _warnedMissingContext: rule indices
  sinks,    \* every AuditSink built; the last one is _auditSink
  eval,     \* [Evaluations -> asyncCheckAccess() under way]
  verdict,  \* history: what the last step decided, if it decided
  skipped,  \* history: rules the last step skipped because a call had no context
  told,     \* history: rules such a skip was reported for since the list last changed
  edits     \* changes made so far

ruleVars == <<file, door, heap, list, default, marked, sinks, eval, verdict, skipped, told, edits>>

----------------------------------------------------------------------------
(* Pattern arrays.  "num" stands for an element that is not a string.       *)

PatternOperators == {"$or", "$not"}
AllStrings(items) == "num" \notin Range(items)

OperandUncounted(items) ==                                           \* mutant: $not takes any number
  /\ items # <<>> /\ "" \notin Range(items)
  /\ \A i \in 2 .. Len(items) : items[i] \notin PatternOperators
  /\ items[1] \in PatternOperators => Len(items) >= 2
LegalShape(items) ==
  /\ items # <<>> /\ "" \notin Range(items)
  /\ \A i \in 2 .. Len(items) : items[i] \notin PatternOperators
  /\ items[1] = "$or" => Len(items) >= 2
  /\ items[1] = "$not" => Len(items) = 2

\* What the doors refuse, and what an evaluation cannot read: the doors leave
\* the type of the field to the file loader.
Refusable(f) == f.list /\ AllStrings(f.items) /\ ~LegalShape(f.items)
Unreadable(f) == ~f.list \/ ~AllStrings(f.items) \/ ~LegalShape(f.items)

\* `?' is a literal and no module ID has one, so "m?" equals nothing.
MatchPattern(p, value, system) ==
  IF p = "@system" THEN system ELSE p = "*" \/ p = value

Operands(items) == {items[i] : i \in (IF items[1] \in PatternOperators THEN 2 ELSE 1) .. Len(items)}

MatchPatterns(items, value, system) ==
  IF items[1] = "$not"
  THEN Len(items) >= 2 /\ ~MatchPattern(items[2], value, system)
  ELSE \E p \in Operands(items) : MatchPattern(p, value, system)

InScope(r, c) == /\ MatchPatterns(r.callers.items, c.caller, c.system)
                 /\ MatchPatterns(r.targets.items, c.target, c.system)

\* validateRules(): the arrays that can match no module ID, told of once their
\* shape is legal.  Only a caller may be @external.
NeverMatches(field, items) ==
  \/ items[1] = "$not" /\ items[2] = "*"
  \/ items[1] # "$not" /\ \A p \in Operands(items) : p = "m?"
  \/ items[1] # "$not" /\ field = "targets" /\ \A p \in Operands(items) : p = "@external"

Fields == {"callers", "targets"}
Faulty(r) == \/ \E f \in Fields : Unreadable(r[f])
             \/ r.conditions \in {"unknown", "scalar"}
Findings(r) == (IF r.conditions \in {"unknown", "scalar"} THEN {"conditions"} ELSE {}) \cup
               {f \in Fields : Unreadable(r[f]) \/ NeverMatches(f, r[f].items)}

----------------------------------------------------------------------------
(* The doors.  A fault is the rule it is in and the axis; rule 0 is the     *)
(* document itself.                                                         *)

Effects == {"allow", "deny"}
NoFault == [rule |-> 0, axis |-> "none"]
AxisOrder == <<"keys", "effect", "approval", "callers", "targets", "conditions">>

FirstAxis(axes) == AxisOrder[Min({i \in DOMAIN AxisOrder : AxisOrder[i] \in axes})]

\* Faults of a rule that every door looks for.
DoorAxes(r) ==
  {a \in {"effect", "approval", "callers", "targets"} :
     \/ a = "effect"   /\ r.effect \notin Effects
     \/ a = "approval" /\ r.approval = "required" /\ r.effect = "deny"
     \/ a = "callers"  /\ Refusable(r.callers)
     \/ a = "targets"  /\ Refusable(r.targets)}

\* Those that only _parseAclRule looks for.
FileAxes(r) ==
  {a \in Range(AxisOrder) :
     \/ a = "keys"       /\ r.keys # "ok"
     \/ a = "approval"   /\ r.approval = "other"
     \/ a = "callers"    /\ ~r.callers.list
     \/ a = "targets"    /\ ~r.targets.list
     \/ a = "conditions" /\ r.conditions = "scalar"}

\* axes holds what is wrong with each rule.
FirstFault(axes) ==
  LET bad == {i \in DOMAIN axes : axes[i] # {}}
  IN IF bad = {} THEN NoFault ELSE [rule |-> Min(bad), axis |-> FirstAxis(axes[Min(bad)])]

ConstructorFault(d) ==
  IF d.default \notin Effects THEN [rule |-> 0, axis |-> "default_effect"]
  ELSE FirstFault([i \in DOMAIN d.rules |-> DoorAxes(d.rules[i])])

FileFault(d) ==
  CASE d.audit = "bad" -> [rule |-> 0, axis |-> "audit"]
    [] d.audit # "bad" /\ d.default \notin Effects -> [rule |-> 0, axis |-> "default_effect"]
    [] d.audit # "bad" /\ d.default \in Effects ->
         FirstFault([i \in DOMAIN d.rules |-> DoorAxes(d.rules[i]) \cup FileAxes(d.rules[i])])

\* What each door says of each document.
FileSays == [d \in AclDocuments |-> FileFault(d)]
ConstructorSays == [d \in AclDocuments |-> ConstructorFault(d)]

----------------------------------------------------------------------------
(* The audit sink: a callback takes every entry, otherwise the block of the *)
(* file decides; a failure of either kind is reported once in its life.     *)

SinkFailures == {"throws", "promise"}
NewSink(callback, audit) ==
  [callback |-> callback, audit |-> audit, flagged |-> {}, lost |-> {},
   reports |-> [f \in SinkFailures |-> 0]]
Replaced(old, audit) == [old EXCEPT !.audit = audit, !.lost = {},    \* mutant: keeps the flags
                                    !.reports = [f \in SinkFailures |-> 0]]
Reconfigured(old, audit) == NewSink(old.callback, audit)

Takes(s, access) == s.callback \/ s.audit = "on" \/ (s.audit = "no_denials" /\ access = "allow")
LiveSink == sinks[Len(sinks)]
Outcomes(s) == {"given", "throws"} \cup (IF s.callback THEN {"promise"} ELSE {})

Delivered(s, access, how) ==
  IF how = "given" \/ ~Takes(s, access) THEN s
  ELSE [s EXCEPT !.flagged = @ \cup {how}, !.lost = @ \cup {how},
                 !.reports[how] = IF how \in s.flagged THEN @ ELSE @ + 1]

----------------------------------------------------------------------------
(* Evaluations.                                                             *)

NoVerdict == [access |-> "deny"]
Idle == [pc |-> "idle"]

\* _matchesRule and what the conditions of a rule in scope come to.
ConditionsSay(r, c) ==
  CASE r.conditions = "none" -> "match"
    [] r.conditions \in {"unknown", "scalar"} -> "unevaluable"
    [] r.conditions = "known" ->
         IF ~c.context THEN "skipped" ELSE IF c.yes THEN "match" ELSE "no_match"

MatchRule(r, c) ==
  IF Unreadable(r.callers) \/ Unreadable(r.targets) THEN "unevaluable"
  ELSE IF InScope(r, c) THEN ConditionsSay(r, c) ELSE "no_match"

Decides(outcome, r) == outcome = "match" \/ (outcome = "unevaluable" /\ r.effect = "deny")
Pends(outcome, r) == outcome = "unevaluable" /\ r.effect = "allow" /\ r.approval = "required"

\* What a decision was: of a grant, the rules as they were when matched and the
\* index that decided, or 0.
Decided(c, by, read, effect, gated) ==
  IF effect = "allow"
  THEN [access |-> "allow", call |-> c, by |-> by, read |-> read, approval |-> gated]
  ELSE [access |-> "deny"]

\* _warnConditionalRuleWithoutContext for the rules skipped at these places.
Skip(places, objects) ==
  /\ marked' = marked \cup places
  /\ skipped' = {objects[i] : i \in places}
  /\ told' = told \cup {objects[i] : i \in places \ marked}

\* checkAccess() runs to its end.
Check(c) ==
  LET read    == [i \in DOMAIN list |-> heap[list[i]]]
      outcome == [i \in DOMAIN list |-> MatchRule(read[i], c)]
      decisive == {i \in DOMAIN list : Decides(outcome[i], read[i])}
      by       == IF decisive = {} THEN 0 ELSE Min(decisive)
      passed   == {i \in DOMAIN list : by = 0 \/ i < by}
      pending  == \E i \in passed : Pends(outcome[i], read[i])
      v == IF by = 0 THEN Decided(c, 0, read, default, pending)
           ELSE Decided(c, by, read, read[by].effect, pending \/ read[by].approval = "required")
  IN /\ door # "none"
     /\ Skip({i \in passed : outcome[i] = "skipped"}, list)
     /\ verdict' = v
     /\ \E how \in Outcomes(LiveSink) :
          sinks' = [sinks EXCEPT ![Len(sinks)] = Delivered(@, v.access, how)]
     /\ UNCHANGED <<file, door, heap, list, default, eval, edits>>

\* One turn of asyncCheckAccess(): the outcome of the rule at idx is awaited.
Awaits(e, ev, idx) ==
  LET r == heap[ev.rules[idx]]
      outcome == MatchRule(r, ev.call)
  IN /\ Skip(IF outcome = "skipped" THEN {idx} ELSE {}, ev.rules)
     /\ eval' = [eval EXCEPT ![e] = [ev EXCEPT !.idx = idx, !.outcome = outcome, !.read = Append(@, r)]]
     /\ verdict' = NoVerdict
     /\ UNCHANGED <<file, door, heap, list, default, sinks, edits>>

Concludes(e, ev, v) ==
  /\ eval' = [eval EXCEPT ![e] = Idle]
  /\ verdict' = v /\ skipped' = {}
  /\ \E how \in Outcomes(sinks[ev.sink]) :
       sinks' = [sinks EXCEPT ![ev.sink] = Delivered(@, v.access, how)]
  /\ UNCHANGED <<file, door, heap, list, default, marked, told, edits>>

AsyncBegin(e, c) ==
  LET ev == [pc |-> "running", call |-> c, rules |-> list, default |-> default, sink |-> Len(sinks),
             idx |-> 0, outcome |-> "no_match", read |-> <<>>, pending |-> FALSE]
  IN /\ door # "none" /\ eval[e].pc = "idle"
     /\ IF list = <<>> THEN Concludes(e, ev, Decided(c, 0, <<>>, default, FALSE))
                       ELSE Awaits(e, ev, 1)

AsyncTurn(e) ==
  LET r  == heap[eval[e].rules[eval[e].idx]]
      ev == [eval[e] EXCEPT !.pending = @ \/ Pends(eval[e].outcome, r)]
  IN /\ eval[e].pc = "running"
     /\ IF Decides(ev.outcome, r)
        THEN Concludes(e, ev, Decided(ev.call, ev.idx, ev.read, r.effect,
                                      ev.pending \/ r.approval = "required"))
        ELSE IF ev.idx = Len(ev.rules)
        THEN Concludes(e, ev, Decided(ev.call, 0, ev.read, ev.default, ev.pending))
        ELSE Awaits(e, ev, ev.idx + 1)

----------------------------------------------------------------------------
(* The doors at work.  A rule that is refused leaves everything as it was.  *)

Objects(raw) == [i \in DOMAIN raw |-> Len(heap) + i]
TakeRules(d) == /\ heap' = heap \o d.rules
            /\ list' = Objects(d.rules)
            /\ default' = d.default
            /\ marked' = {} /\ told' = {}

Quiet == verdict' = NoVerdict /\ skipped' = {}

\* new ACL() with what the document holds, its audit block apart.
Construct(callback) ==
  /\ door = "none" /\ ConstructorSays[file] = NoFault
  /\ TakeRules(file)
  /\ door' = "code"
  /\ sinks' = <<NewSink(callback, "none")>>
  /\ Quiet
  /\ UNCHANGED <<file, eval, edits>>

\* ACL.load(), which ACL.discover() ends in when the file is there.
LoadFile(callback) ==
  /\ door = "none" /\ FileSays[file] = NoFault
  /\ TakeRules(file)
  /\ door' = "file"
  /\ sinks' = <<NewSink(callback, file.audit)>>
  /\ Quiet
  /\ UNCHANGED <<file, eval, edits>>

Edit == edits < MaxEdits /\ edits' = edits + 1 /\ Quiet

EditFile(d) ==
  /\ Edit /\ door = "file" /\ d # file /\ file' = d
  /\ UNCHANGED <<door, heap, list, default, marked, sinks, eval, told>>

ReloadFile ==
  /\ door = "file" /\ Len(sinks) < MaxSinks /\ FileSays[file] = NoFault
  /\ TakeRules(file)
  /\ sinks' = Append(sinks, Reconfigured(LiveSink, file.audit))
  /\ Quiet
  /\ UNCHANGED <<file, door, eval, edits>>

\* addRule() judges the rule as it is handed in, an object of the list or not.
AddRule(r) ==
  /\ Edit /\ door # "none" /\ DoorAxes(r) = {}
  /\ heap' = Append(heap, r)
  /\ list' = <<Len(heap) + 1>> \o list
  /\ marked' = {} /\ told' = {}
  /\ UNCHANGED <<file, door, default, sinks, eval>>

AddAgain(o) ==
  /\ Edit /\ door # "none" /\ DoorAxes(heap[o]) = {}
  /\ list' = <<o>> \o list
  /\ marked' = {} /\ told' = {}
  /\ UNCHANGED <<file, door, heap, default, sinks, eval>>

\* removeRule() with the fields of r, its conditions given or not.
RemoveRule(r, byConditions) ==
  LET named == {i \in DOMAIN list : /\ heap[list[i]].callers = r.callers
                                    /\ heap[list[i]].targets = r.targets
                                    /\ byConditions => heap[list[i]].conditions = r.conditions}
  IN /\ Edit /\ named # {} /\ (byConditions => r.conditions # "none")
     /\ list' = [i \in 1 .. Len(list) - 1 |-> IF i < Min(named) THEN list[i] ELSE list[i + 1]]
     /\ marked' = {} /\ told' = {}
     /\ UNCHANGED <<file, door, heap, default, sinks, eval>>

Assign(o, field, value) ==
  /\ Edit /\ heap[o][field] # value
  /\ heap' = [heap EXCEPT ![o][field] = value]
  /\ UNCHANGED <<file, door, list, default, marked, sinks, eval, told>>

RulesInit ==
  /\ file \in AclDocuments
  /\ door = "none" /\ heap = <<>> /\ list = <<>> /\ default = "deny"
  /\ marked = {} /\ sinks = <<>> /\ eval = [e \in Evaluations |-> Idle]
  /\ verdict = NoVerdict /\ skipped = {} /\ told = {} /\ edits = 0

RulesNext ==
  \/ \E d \in AclDocuments : EditFile(d)
  \/ \E callback \in BOOLEAN : LoadFile(callback) \/ Construct(callback)
  \/ ReloadFile
  \/ \E r \in Addable : AddRule(r)
  \/ \E o \in Range(list) : AddAgain(o)
  \/ \E o \in Range(list), byConditions \in BOOLEAN : RemoveRule(heap[o], byConditions)
  \/ \E o \in Range(list), field \in Fields, value \in Assignable : Assign(o, field, value)
  \/ \E c \in Calls :
       \/ Check(c)
       \/ \E e \in Evaluations : AsyncBegin(e, c)
  \/ \E e \in Evaluations : AsyncTurn(e)

RulesSpec == RulesInit /\ [][RulesNext]_ruleVars

----------------------------------------------------------------------------
(* Properties.                                                              *)

\* A document whose every fault is one both doors look for is refused by both
\* for the same first fault, at the same rule; and no document the constructor
\* refuses gets in through a file.
DoorsAgree ==
  /\ (file.audit # "bad" /\ \A i \in DOMAIN file.rules : FileAxes(file.rules[i]) = {})
       => FileSays[file] = ConstructorSays[file]
  /\ ConstructorSays[file] # NoFault => FileSays[file] # NoFault

\* The reading of an array in the grammar it is written in, on its own terms:
\* $not excludes every operand.
Written(items, value, system) ==
  IF items[1] = "$not"
  THEN \A p \in Operands(items) : ~MatchPattern(p, value, system)
  ELSE \E p \in Operands(items) : MatchPattern(p, value, system)
Addresses(r, c) == /\ ~Unreadable(r.callers) /\ ~Unreadable(r.targets)
                /\ Written(r.callers.items, c.caller, c.system)
                /\ Written(r.targets.items, c.target, c.system)

\* A call that a rule lets through is inside what the rule's arrays say, as
\* they stood when it was matched; and no rule before the decision is a deny
\* without conditions that covers the call, or a deny nobody can read.
GrantsAsWritten ==
  verdict.access = "allow" =>
    /\ verdict.by # 0 => Addresses(verdict.read[verdict.by], verdict.call)
    /\ \A i \in DOMAIN verdict.read :
         (verdict.by = 0 \/ i < verdict.by) /\ verdict.read[i].effect = "deny" =>
           /\ ~Unreadable(verdict.read[i].callers) /\ ~Unreadable(verdict.read[i].targets)
           /\ ~(verdict.read[i].conditions = "none" /\ Addresses(verdict.read[i], verdict.call))

\* A sink that has lost an entry in one of the two ways has said so, once for
\* each way: a report of an earlier sink never hides a failure of this one.
AuditSpeaks ==
  \A s \in Range(sinks) : \A f \in SinkFailures : s.reports[f] = IF f \in s.lost THEN 1 ELSE 0

\* validateRules() speaks of every rule an evaluation cannot read, and never of
\* one that can match.
Askable == [caller : {"m", "n", "@external"}, target : {"m", "n"}, context : {TRUE}, system : BOOLEAN, yes : {TRUE}]
FindingsFair ==
  \A o \in Range(list) :
    LET r == heap[o]
    IN /\ Faulty(r) => Findings(r) # {}
       /\ Findings(r) # {} => \A c \in Askable : MatchRule(r, c) # "match"

\* And it speaks of every rule whose single patterns match nothing.
Single(r) == \A f \in Fields : Cardinality(Operands(r[f].items)) = 1
FindingsMatch ==
  /\ FindingsFair
  /\ \A o \in Range(list) :
       LET r == heap[o]
       IN Findings(r) = {} /\ Single(r) => \E c \in Askable : InScope(r, c)

\* From the doors to the decision a rule means one thing.
RulesMeanOneThing == DoorsAgree /\ GrantsAsWritten

\* What is wrong with the rules or with the sink is told, once.
FaultsTold == AuditSpeaks /\ FindingsMatch
=============================================================================
