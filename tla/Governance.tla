------------------------------ MODULE Governance ------------------------------
(***************************************************************************)
(* Who stands between a caller and a module's body, and what the executor  *)
(* says about it (executor.ts, policy.ts, approval.ts, builtin-steps.ts).   *)
(*                                                                         *)
(* An executor holds an ACL, an approval handler and a policy; the gates   *)
(* that enforce them are step objects of the strategy it runs, and a       *)
(* strategy may have been built elsewhere, registered under a name, shared *)
(* with another executor or passed for one call.  The constructor, the     *)
(* setters and callWithTrace() copy the providers into the gates; the      *)
(* calls read them gate by gate while that goes on.  Two accessors speak   *)
(* about the result: governanceState() and the preflight of validate().    *)
(*                                                                         *)
(* A step is [type, name] plus what a gate of that type holds.  A strategy *)
(* is the sequence of its steps; the steps that guard nothing are left     *)
(* out, except a custom step that merely bears a gate's name.  The caller  *)
(* is one and the same throughout, so that an ACL is its answer.           *)
(***************************************************************************)
EXTENDS Integers, Sequences, SequencesExt, FiniteSets

CONSTANTS
  Executors,         \* the Executor objects of a process
  Shared,            \* strategies built outside any executor
  Prebuilt,          \* the step sequences such a strategy may have
  StrategyNames,             \* names under which a strategy is asked for
  Acls,              \* access control lists
  Says,              \* [Acls -> [access, approval]]: the answer to the caller
  Handlers,          \* approval handlers, by class
  PolicyDocuments,         \* governance documents given to ExecutionPolicy.fromObject
  Grants,            \* the providers a constructor is given
  Modules,           \* registered modules
  Control,           \* ... those under system.control.*
  Own,               \* [Modules -> annotations of the live instance]
  Metadata,          \* [Modules -> annotations its metadata declares]
  PatternCovers,            \* [patterns -> SUBSET Modules]
  Specificity,       \* [patterns -> Nat]
  Nothing,           \* null: no provider, no rule, no token
  Requests,          \* calls and preflights
  MaxChanges         \* bound: registrations and uses of a setter

-----------------------------------------------------------------------------
(* Policies.  A switch of a document is "true", "false", "unset" or        *)
(* "junk", anything else.                                                   *)

Malformed(rule) ==
  \/ rule.unknown                                  \* a key that is none of RULE_KEYS
  \/ rule.pattern = Nothing
  \/ "junk" \in {rule.requires, rule.destructive}

\* fromObject() throws: no policy comes of the document.
Refuses(d) ==
  \/ d.unknown
  \/ \E i \in DOMAIN d.rules : Malformed(d.rules[i])
  \/ "junk" \in {d.gate, d.strict}

Policies == {d \in PolicyDocuments : ~Refuses(d)}
StrictPolicy(policy) == policy # Nothing /\ policy.strict = "true"

Restrictiveness(rule) ==
  (IF rule.requires = "true" THEN 2 ELSE 0) + (IF rule.destructive = "true" THEN 1 ELSE 0)

NoRule == [pattern |-> Nothing, requires |-> "unset", destructive |-> "unset", unknown |-> FALSE]

Beats(rule, best) ==
  \/ best = NoRule
  \/ Specificity[rule.pattern] > Specificity[best.pattern]
  \/ /\ Specificity[rule.pattern] = Specificity[best.pattern]
     /\ Restrictiveness(rule) > Restrictiveness(best)

Better(rule, best, m) ==
  IF m \in PatternCovers[rule.pattern] /\ Beats(rule, best) THEN rule ELSE best

\* The best of the first i rules, for every i: the loop of _match.
BestSoFar(rules, m) ==
  LET best[i \in 0..Len(rules)] == IF i = 0 THEN NoRule ELSE Better(rules[i], best[i - 1], m)
  IN best

MatchPolicy(policy, m) == BestSoFar(policy.rules, m)[Len(policy.rules)]

Override(switch, base) == IF switch = "unset" THEN base ELSE switch = "true"

\* What a rule set makes of a module's annotations; null resolves to them.
Resolve(policy, m, ann) ==
  IF policy = Nothing
  THEN [requires |-> ann.requires, destructive |-> ann.destructive, needs |-> ann.requires]
  ELSE LET rule        == MatchPolicy(policy, m)
           requires    == Override(rule.requires, ann.requires)
           destructive == Override(rule.destructive, ann.destructive)
       IN [requires |-> requires, destructive |-> destructive,
           needs |-> requires \/ (policy.gate = "true" /\ destructive)]

Union(m) == [requires    |-> Own[m].requires \/ Metadata[m].requires,
             destructive |-> Own[m].destructive \/ Metadata[m].destructive]

\* The statuses a handler may answer with; a token asks about an earlier request.
Answers(handler, token) ==
  CASE handler = "AutoApprove" -> {"approved"}
    [] handler = "AlwaysDeny"  -> {"rejected"}
    [] handler = "Callback" /\ token # Nothing -> {"rejected"}
    [] handler = "Callback" /\ token = Nothing -> {"approved", "rejected", "timeout", "pending"}

-----------------------------------------------------------------------------
(* Strategies.                                                              *)

VARIABLES
  steps,      \* [Strategies -> Seq(step)]
  named,      \* the static strategy registry: [StrategyNames -> strategy or Nothing]
  executor,   \* [Executors -> Absent or [strategy, acl, handler, policy]]
  request,    \* [Requests -> Absent or the state of a call or a preflight]
  users,     \* history: [Strategies -> the executor that wrote its gates last]
  changes     \* registrations and setter uses so far

govVars == <<steps, named, executor, request, users, changes>>

Strategies == Shared \union Executors               \* an executor may build its own
Absent == [strategy |-> Nothing]

StepOf(type, held) ==
  CASE type = "acl"      -> [type |-> type, name |-> "acl_check", acl |-> held.acl]
    [] type = "approval" -> [type |-> type, name |-> "approval_gate",
                             handler |-> held.handler, policy |-> held.policy]
    [] type = "custom"   -> [type |-> type, name |-> "acl_check"]

Presets == [name \in {"standard", "performance", "internal", "testing", "minimal"} |->
              IF name \in {"standard", "performance"} THEN <<"acl", "approval">> ELSE <<>>]

\* What a `pipeline:` section may leave of the gates of the standard strategy.
StandardLess == {<<"acl", "approval">>, <<"acl">>, <<"approval">>, <<>>}

Build(types, held) == [i \in DOMAIN types |-> StepOf(types[i], held)]

IsAclGate(step)      == step.type = "acl"
IsApprovalGate(step) == step.type = "approval"

BindsNothing(step, held) == step                    \* mutant: the gates keep what they had
\* A provider the executor holds replaces the gate's; one it lacks does not.
Bound(step, held) ==
  CASE IsAclGate(step) /\ held.acl # Nothing -> [step EXCEPT !.acl = held.acl]
    [] IsApprovalGate(step) ->
         [step EXCEPT !.handler = IF held.handler = Nothing THEN @ ELSE held.handler,
                      !.policy  = IF held.policy = Nothing THEN @ ELSE held.policy]
    [] OTHER -> step

\* The values of the constants.
Switches == {"true", "false", "unset", "junk"}
PolicyRules == [pattern : DOMAIN Specificity \cup {Nothing}, requires : Switches,
                destructive : Switches, unknown : BOOLEAN]
Documents == [rules : Seq(PolicyRules), gate : Switches, strict : Switches, unknown : BOOLEAN]
Annotations == [requires : BOOLEAN, destructive : BOOLEAN]
AclAnswers == [access : {"allow", "deny"}, approval : BOOLEAN]

HandlerClasses == {"AutoApprove", "AlwaysDeny", "Callback"}
AclSlots     == DOMAIN Says \cup {Nothing}
HandlerSlots == HandlerClasses \cup {Nothing}
PolicySlots  == Policies \cup {Nothing}

AclSteps      == [type : {"acl"}, name : {"acl_check"}, acl : AclSlots]
ApprovalSteps == [type : {"approval"}, name : {"approval_gate"},
                  handler : HandlerSlots, policy : PolicySlots]
CustomSteps   == [type : {"custom"}, name : {"acl_check"}]
GateRecords     == AclSteps \cup ApprovalSteps \cup CustomSteps

ASSUME GovernanceAssumption ==
  /\ PolicyDocuments \subseteq Documents
  /\ Specificity \in [DOMAIN Specificity -> Nat]
  /\ PatternCovers \in [DOMAIN Specificity -> SUBSET Modules]
  /\ Own \in [Modules -> Annotations] /\ Metadata \in [Modules -> Annotations]
  /\ Control \subseteq Modules
  /\ Says \in [DOMAIN Says -> AclAnswers] /\ Acls \subseteq DOMAIN Says
  /\ Handlers \subseteq HandlerClasses
  /\ Grants \subseteq [acl : AclSlots, handler : HandlerSlots, policy : PolicySlots]
  /\ Prebuilt \subseteq Seq(GateRecords)
  /\ Nothing \notin DOMAIN Specificity /\ Nothing \notin Strategies
  /\ Executors \cap Shared = {}

Bind(sequence, held) == [i \in DOMAIN sequence |-> Bound(sequence[i], held)]

-----------------------------------------------------------------------------
(* The executor's surface.                                                  *)

GovInit ==
  /\ steps \in [Strategies -> Prebuilt \union {<<>>}]
  /\ \A s \in Strategies : (steps[s] = <<>>) <=> s \in Executors
  /\ named = [n \in StrategyNames |-> Nothing]
  /\ executor = [e \in Executors |-> Absent]
  /\ request = [r \in Requests |-> Absent]
  /\ users = [s \in Strategies |-> {}]
  /\ changes = 0

Installs(e, s, sequence, held) ==
  /\ steps' = [steps EXCEPT ![s] = Bind(sequence, held)]
  /\ executor' = [executor EXCEPT ![e] = [strategy |-> s, acl |-> held.acl,
                                          handler |-> held.handler, policy |-> held.policy]]
  /\ users' = [users EXCEPT ![s] = @ \union {e}]

\* No strategy given: the standard one, less what a `pipeline:` section removes.
ConstructDefault(e, left, held) ==
  /\ executor[e] = Absent
  /\ Installs(e, e, Build(left, held), held)
  /\ UNCHANGED <<named, request, changes>>

\* A name: the registry first, then the presets; an unknown one throws.
ConstructNamed(e, n, held) ==
  /\ executor[e] = Absent
  /\ \/ /\ named[n] # Nothing
        /\ Installs(e, named[n], steps[named[n]], held)
     \/ /\ named[n] = Nothing
        /\ n \in DOMAIN Presets
        /\ Installs(e, e, Build(Presets[n], held), held)
  /\ UNCHANGED <<named, request, changes>>

ConstructOver(e, s, held) ==
  /\ executor[e] = Absent
  /\ Installs(e, s, steps[s], held)
  /\ UNCHANGED <<named, request, changes>>

Change == changes < MaxChanges /\ changes' = changes + 1

RegisterStrategy(n, s) ==
  /\ Change
  /\ named' = [named EXCEPT ![n] = s]
  /\ UNCHANGED <<steps, executor, request, users>>

Write(e, Written(_)) ==
  LET s == executor[e].strategy
  IN /\ steps' = [steps EXCEPT ![s] = [i \in DOMAIN @ |-> Written(@[i])]]
     /\ users' = [users EXCEPT ![s] = @ \union {e}]
     /\ UNCHANGED <<named, request>>

SetAcl(e, acl) ==
  /\ Change /\ executor[e] # Absent
  /\ executor' = [executor EXCEPT ![e].acl = acl]
  /\ Write(e, LAMBDA step : IF IsAclGate(step) THEN [step EXCEPT !.acl = acl] ELSE step)

SetApprovalHandler(e, handler) ==
  /\ Change /\ executor[e] # Absent
  /\ executor' = [executor EXCEPT ![e].handler = handler]
  /\ Write(e, LAMBDA step : IF IsApprovalGate(step) THEN [step EXCEPT !.handler = handler] ELSE step)

\* Unlike the others it may take a provider away.
SetPolicy(e, policy) ==
  /\ Change /\ executor[e] # Absent
  /\ executor' = [executor EXCEPT ![e].policy = policy]
  /\ Write(e, LAMBDA step : IF IsApprovalGate(step) THEN [step EXCEPT !.policy = policy] ELSE step)

-----------------------------------------------------------------------------
(* Calls.  A request is at a step of its strategy, or "at" lies past the    *)
(* last one; "met" is how the approval gate let it pass, "under" the policy *)
(* that gate held.                                                          *)

Running(r) == request[r] # Absent /\ request[r].status = "running"
AtEnd(r)   == Running(r) /\ request[r].at > Len(steps[request[r].strategy])
StepAt(r)      == steps[request[r].strategy][request[r].at]

Start(r, e, s, m, token, dry) ==
  /\ request[r] = Absent /\ executor[e] # Absent
  /\ request' = [request EXCEPT ![r] =
       [executor |-> e, strategy |-> s, module |-> m, token |-> token, dry |-> dry,
        at |-> 1, approval |-> FALSE, met |-> "nothing", under |-> Nothing,
        status |-> "running", denied |-> FALSE, requires |-> FALSE, shown |-> FALSE]]

Call(r, e, m, token) ==
  /\ executor[e] # Absent
  /\ Start(r, e, executor[e].strategy, m, token, FALSE)
  /\ UNCHANGED <<steps, named, executor, users, changes>>

\* A strategy for this call only is bound for it, and stays bound.
CallWithTrace(r, e, s, m) ==
  /\ executor[e] # Absent
  /\ Start(r, e, s, m, Nothing, FALSE)
  /\ IF s = executor[e].strategy
     THEN UNCHANGED <<steps, users>>
     ELSE /\ steps' = [steps EXCEPT ![s] = Bind(@, executor[e])]
          /\ users' = [users EXCEPT ![s] = @ \union {e}]
  /\ UNCHANGED <<named, executor, changes>>

\* The dry run of the executor's strategy: acl_check is pure, approval_gate is not.
Validate(r, e, m) ==
  /\ executor[e] # Absent
  /\ Start(r, e, executor[e].strategy, m, Nothing, TRUE)
  /\ UNCHANGED <<steps, named, executor, users, changes>>

Becomes(r, q) ==
  /\ request' = [request EXCEPT ![r] = q]
  /\ UNCHANGED <<steps, named, executor, users, changes>>
Past(q) == [q EXCEPT !.at = @ + 1]
Ended(q, status) == [q EXCEPT !.status = status]

PlainStep(r) ==
  /\ Running(r) /\ ~AtEnd(r)
  /\ ~IsAclGate(StepAt(r))
  /\ request[r].dry \/ ~IsApprovalGate(StepAt(r))
  /\ Becomes(r, Past(request[r]))

\* The provider is read when the check begins; its answer carries both axes.  A
\* dry run records the denial and goes on.
AclCheck(r) ==
  /\ Running(r) /\ ~AtEnd(r) /\ IsAclGate(StepAt(r))
  /\ LET answer == Says[StepAt(r).acl]
         heard  == [request[r] EXCEPT !.approval = answer.approval]
     IN \/ StepAt(r).acl = Nothing /\ Becomes(r, Past(request[r]))
        \/ /\ StepAt(r).acl # Nothing /\ answer.access = "allow"
           /\ Becomes(r, Past(heard))
        \/ /\ StepAt(r).acl # Nothing /\ answer.access = "deny"
           /\ Becomes(r, IF request[r].dry THEN [Past(heard) EXCEPT !.denied = TRUE]
                         ELSE Ended(heard, "denied"))

Needs(policy, m, asked) == Resolve(policy, m, Union(m)).needs \/ asked

ApprovalGate(r) ==
  /\ Running(r) /\ ~AtEnd(r) /\ IsApprovalGate(StepAt(r)) /\ ~request[r].dry
  /\ LET gate  == StepAt(r)
         q     == request[r]
         met(how) == [Past(q) EXCEPT !.met = how, !.under = gate.policy]
     IN \/ /\ q.token = "junk"                      \* not a string
           /\ Becomes(r, Ended(q, "refused"))
        \/ /\ q.token # "junk" /\ ~Needs(gate.policy, q.module, q.approval)
           /\ Becomes(r, met("unasked"))
        \/ /\ q.token # "junk" /\ Needs(gate.policy, q.module, q.approval)
           /\ gate.handler = Nothing
           /\ Becomes(r, IF StrictPolicy(gate.policy) THEN Ended(q, "rejected") ELSE met("skipped"))
        \/ /\ q.token # "junk" /\ Needs(gate.policy, q.module, q.approval)
           /\ gate.handler # Nothing
           /\ \E answer \in Answers(gate.handler, q.token) :
                Becomes(r, IF answer = "approved" THEN met("approved") ELSE Ended(q, answer))

Finish(r) ==
  /\ AtEnd(r)
  /\ Becomes(r, Ended(request[r], IF request[r].dry THEN "reporting" ELSE "ran"))

ForetoldFromInstance(e, m, asked) ==                \* mutant: the declared annotations are not read
  Resolve(executor[e].policy, m, Own[m]).needs \/ asked
\* validate() after the dry run: the executor's own policy, the same union; the
\* module's preflight() and preview() are run unless the ACL denied the caller.
Foretold(e, m, asked) == Needs(executor[e].policy, m, asked)

Report(r) ==
  /\ request[r] # Absent /\ request[r].status = "reporting"
  /\ LET q == request[r]
     IN Becomes(r, [q EXCEPT !.status   = "reported",
                             !.requires = Foretold(q.executor, q.module, q.approval),
                             !.shown    = ~q.denied])

GovNext ==
  \/ \E e \in Executors, held \in Grants :
       \/ \E left \in StandardLess : ConstructDefault(e, left, held)
       \/ \E n \in StrategyNames : ConstructNamed(e, n, held)
       \/ \E s \in Shared : ConstructOver(e, s, held)
  \/ \E n \in StrategyNames, s \in Shared : RegisterStrategy(n, s)
  \/ \E e \in Executors :
       \/ \E acl \in Acls : SetAcl(e, acl)
       \/ \E handler \in Handlers : SetApprovalHandler(e, handler)
       \/ \E policy \in Policies \union {Nothing} : SetPolicy(e, policy)
  \/ \E r \in Requests, e \in Executors, m \in Modules :
       \/ \E token \in {Nothing, "string", "junk"} : Call(r, e, m, token)
       \/ \E s \in Shared : CallWithTrace(r, e, s, m)
       \/ Validate(r, e, m)
  \/ \E r \in Requests :
       PlainStep(r) \/ AclCheck(r) \/ ApprovalGate(r) \/ Finish(r) \/ Report(r)

GovSpec == GovInit /\ [][GovNext]_govVars

-----------------------------------------------------------------------------
(* governanceState().                                                       *)

StepsOf(e) == Range(steps[executor[e].strategy])
AclGates(e) == {step \in StepsOf(e) : IsAclGate(step)}
ApprovalGates(e) == {step \in StepsOf(e) : IsApprovalGate(step)}

\* What the running gates hold, or what the executor was given when there is none.
AclConfigured(e) ==
  LET gates == AclGates(e)
  IN IF gates = {} THEN executor[e].acl # Nothing ELSE \A gate \in gates : gate.acl # Nothing
HandlerConfigured(e) ==
  LET gates == ApprovalGates(e)
  IN IF gates = {} THEN executor[e].handler # Nothing ELSE \A gate \in gates : gate.handler # Nothing
ExecutorStrict(e) == StrictPolicy(executor[e].policy)     \* mutant: the executor's field is reported
PolicyStrict(e) ==
  LET gates == ApprovalGates(e)
  IN IF gates = {} THEN StrictPolicy(executor[e].policy) ELSE \A gate \in gates : StrictPolicy(gate.policy)

UnprotectedControlSurface(e) ==
  /\ Control # {}
  /\ ~(AclConfigured(e) /\ AclGates(e) # {})
  /\ ~(/\ ApprovalGates(e) # {}
       /\ \A m \in Control : Union(m).requires
       /\ HandlerConfigured(e) \/ PolicyStrict(e))

-----------------------------------------------------------------------------
(* Properties.                                                              *)

\* The most specific rules of a policy for a module.
Foremost(policy, m) ==
  LET matching == {rule \in Range(policy.rules) : m \in PatternCovers[rule.pattern]}
  IN {rule \in matching : \A other \in matching : Specificity[rule.pattern] >= Specificity[other.pattern]}

\* A policy wants an approval, whatever the order of its rules.
Wanted(policy, m) ==
  IF policy = Nothing
  THEN Union(m).requires
  ELSE LET rules == Foremost(policy, m)
           gated == policy.gate = "true"
       IN \/ \E rule \in rules : rule.requires = "true" \/ (gated /\ rule.destructive = "true")
          \/ Union(m).requires /\ \A rule \in rules : rule.requires # "false"
          \/ gated /\ Union(m).destructive /\ \A rule \in rules : rule.destructive # "false"

\* However its strategy arrived, and whatever other strategies it ran for single
\* calls, an executor that has a strategy to itself finds in its gates every
\* provider it holds.
HeldIsEnforced ==
  \A e \in Executors :
    LET held == executor[e]
    IN held # Absent /\ users[held.strategy] = {e} =>
         \A step \in Range(steps[held.strategy]) :
           /\ IsAclGate(step) /\ held.acl # Nothing => step.acl = held.acl
           /\ IsApprovalGate(step) =>
                /\ held.handler # Nothing => step.handler = held.handler
                /\ held.policy # Nothing => step.policy = held.policy

\* No call passes the gate unasked when the ACL's rule, either source of the
\* module's annotations or a most specific rule of the gate's policy demanded
\* an approval that no such rule waives; a policy never clears what the ACL
\* demanded, and the order of equally specific rules never relaxes the verdict.
RequirementStands ==
  \A r \in Requests :
    request[r] # Absent /\ request[r].met = "unasked" =>
      /\ ~request[r].approval
      /\ ~Wanted(request[r].under, request[r].module)

Waives(policy, m) == Union(m).requires /\ ~Resolve(policy, m, Union(m)).needs

\* governanceState() never claims a control surface is protected when a call of
\* the executor could reach a control module with neither an ACL nor anyone to
\* approve it.  A policy rule that waives a declared requirement is left out:
\* the accessor does not read the rules.
NeverOverstates ==
  \A e \in Executors : executor[e] # Absent /\ ~UnprotectedControlSurface(e) =>
    \A m \in Control :
      \/ \E step \in Range(steps[executor[e].strategy]) : step.type = "acl" /\ step.acl # Nothing
      \/ \E step \in Range(steps[executor[e].strategy]) :
           /\ step.type = "approval"
           /\ step.handler # Nothing \/ StrictPolicy(step.policy)
           /\ Needs(step.policy, m, FALSE) \/ Waives(step.policy, m)

Reports(r) == request[r] # Absent /\ request[r].status = "reporting" /\ request'[r].status = "reported"
GatePolicies(s) == {step.policy : step \in {t \in Range(steps[s]) : t.type = "approval"}}

\* The preflight announces every approval that a most specific rule, the module's
\* annotations or the ACL demand, and none that the approval gate will not ask of
\* the same call, if nothing changes, whenever that gate holds the executor's own
\* policy; and code of the module is run for it only if the ACL that was asked
\* allows the call.
PreflightTells ==
  [][\A r \in Requests : Reports(r) =>
       LET q == request[r]
       IN \A policy \in GatePolicies(q.strategy) :
            policy = executor[q.executor].policy =>
              /\ Wanted(policy, q.module) \/ q.approval => request'[r].requires
              /\ request'[r].requires => Needs(policy, q.module, q.approval)
              /\ request'[r].shown => ~q.denied]_govVars

\* The same without the condition: a gate built with a policy of its own.
PreflightBinding ==
  [][\A r \in Requests : Reports(r) =>
       LET q == request[r]
       IN \A policy \in GatePolicies(q.strategy) :
            request'[r].requires = (Wanted(policy, q.module) \/ q.approval)]_govVars

\* The gates hold what the executor was given, and let nothing past that had
\* to be approved.
GatesBind == HeldIsEnforced /\ RequirementStands
=============================================================================
