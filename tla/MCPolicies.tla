----------------------------- MODULE MCPolicies -----------------------------
(***************************************************************************)
(* Instances for TLC of what decides about calls and of where its settings  *)
(* come from: the circuit breaker, the rules of an ACL and its file, the    *)
(* configuration, the control modules' overrides, and the providers an      *)
(* executor binds into its gates.  A behaviour chooses one part and runs it *)
(* alone: the parts share no state, and one run explores each in full.      *)
(***************************************************************************)
EXTENDS MCGovernance, CircuitBreaker, ACLRules, Config, RuntimeControl

CONSTANT Parts     \* the parts explored
VARIABLE part      \* the one that runs

----------------------------------------------------------------------------
(* ACL documents: each fault at each door, and arrays that read alike.      *)

F(items) == [list |-> TRUE, items |-> items]
NotAList == [list |-> FALSE, items |-> <<>>]
Rule(callers, targets, effect, approval, conditions) ==
  [keys |-> "ok", callers |-> callers, targets |-> targets, effect |-> effect,
   approval |-> approval, conditions |-> conditions]
Anyone == F(<<"*">>)
Deny(targets) == Rule(Anyone, targets, "deny", "absent", "none")
Guard(target) == Rule(Anyone, F(<<target>>), "deny", "absent", "known")
AllButOne == Rule(F(<<"@external">>), F(<<"$not", "m">>), "allow", "absent", "none")
Document(def, audit, rs) == [default |-> def, audit |-> audit, rules |-> rs]

Docs == {
  Document("allow", "no_denials", <<Guard("n"), Guard("m")>>),
  Document("deny", "on", <<Rule(F(<<"@external">>), F(<<"$or", "m", "n">>), "allow", "required", "unknown"),
                           Rule(F(<<"@system">>), F(<<"n">>), "deny", "absent", "none"), AllButOne>>),
  Document("deny", "none", <<Rule(Anyone, F(<<"$not", "m", "n">>), "allow", "absent", "none"), Deny(F(<<"m?">>))>>),
  Document("Deny", "none", <<Rule(Anyone, F(<<>>), "deny", "absent", "none")>>),
  Document("allow", "none", <<Deny(F(<<"$or">>)), Rule(Anyone, Anyone, "Deny", "required", "none")>>),
  Document("allow", "bad", <<Deny(F(<<"m", "$not">>))>>),
  Document("allow", "none", <<Rule(Anyone, Anyone, "allow", "other", "scalar"), Rule(NotAList, Anyone, "deny", "required", "none")>>)}
Added == {Rule(F(<<"$not", "*">>), F(<<"@external">>), "deny", "not_required", "none"),
          Rule(Anyone, F(<<"">>), "allow", "absent", "none"),
          Rule(F(<<"m", "$or">>), Anyone, "deny", "required", "none")}
Assigned == {F(<<"$not", "m", "n">>), F(<<"m", "num">>)}
SomeCalls == {[caller |-> "@external", target |-> "n", context |-> FALSE, system |-> FALSE, yes |-> TRUE],
              [caller |-> "m", target |-> "n", context |-> TRUE, system |-> TRUE, yes |-> TRUE]}

----------------------------------------------------------------------------
(* Configuration: two namespaces that want one prefix, variables that are   *)
(* mapped twice, keys with underscores, files that parse and that do not.   *)

K(a) == <<a>>
Acl == <<K("acl"), K("root")>>
Effect == <<K("acl"), K("effect")>>
Version == <<K("version")>>
MaxSize == <<"max", "size">>

FrameworkDefaults == Acl :> "./acl" @@ Effect :> "deny"
NsReg(name, prefix, style, defaults, envMap, schema) ==
  [name |-> name, envPrefix |-> prefix, envStyle |-> style, maxDepth |-> 3,
   defaults |-> defaults, envMap |-> envMap, schema |-> schema]

Observability == NsReg(K("observability"), <<"apcore", "observability">>, "auto",
  (<<K("tracing"), K("exporter")>> :> "stdout"), Empty, Empty)
Plugin == NsReg(K("plugin"), <<"plugin">>, "auto",
  (<<MaxSize>> :> "1" @@ <<K("max"), <<"idle", "time">>>> :> "2"),
  (<<"home">> :> <<K("home")>>), (<<MaxSize>> :> {"1", "9"}))
Rival == NsReg(K("rival"), <<"plugin">>, "nested", Empty, Empty, Empty)
Vendor == NsReg(K("vendor"), <<"vendor">>, "flat", Empty, (<<"home">> :> <<K("dir")>>), Empty)

BuiltinRegs == {Observability}
PackageRegs == {Plugin, Rival, Vendor}
PackageMaps == {<<[var |-> <<"home">>, path |-> Acl]>>}

Doc(doc) == [kind |-> "mapping", doc |-> doc]
Ns(path) == <<Apcore>> \o path
SomeFiles == {
  [kind |-> "broken", doc |-> Empty],
  Doc(Version :> "v" @@ Acl :> "./a"),
  Doc(Effect :> "maybe"),
  Doc(Ns(Acl) :> "./a" @@ Ns(Endpoint) :> "e" @@ <<K("vendor"), K("dir")>> :> "d" @@ <<Meta, <<"allow", "unknown">>>> :> FALSE),
  Doc(Ns(Effect) :> "allow" @@ <<K("plugin"), MaxSize>> :> "7" @@ <<Meta, <<"strict">>>> :> TRUE)}
SomeEnvs == {<<>>,
  <<[var |-> <<"apcore", "acl", "root">>, value |-> ""], [var |-> <<"home">>, value |-> ""],
    [var |-> <<"plugin", "max", "size">>, value |-> "9"]>>,
  <<[var |-> <<"apcore", "acl", "effect">>, value |-> "maybe"],
    [var |-> <<"plugin", "max", "idle", "time">>, value |-> "3"]>>}
SomeMounts == {
  [name |-> K("plugin"), readable |-> TRUE, doc |-> (<<K("home")>> :> "h")],
  [name |-> K("acl"), readable |-> TRUE, doc |-> (<<K("effect")>> :> "maybe")],
  [name |-> K("plugin"), readable |-> TRUE, doc |-> (<<MaxSize>> :> "7")],
  [name |-> Meta, readable |-> TRUE, doc |-> (<<K("strict")>> :> TRUE)]}
SomeKeys == {Version, Effect}
PathKeys == {Acl}
Rules == Effect :> {"allow", "deny"}
DeclarableKeys == {Version, Acl, Effect}
RequiredKeys == {Version}
NoSegments == {<<"constructor">>}

----------------------------------------------------------------------------
(* Overrides                                                                *)

Settings0 == [plane |-> "on", timeout |-> "t1", enabled |-> "on"]
LegalValues == [timeout |-> {"t1", "t2"}]
ConfigSections == [executor |-> "timeout", sys_modules |-> "enabled"]
Beside == (<<"toggle", "m2">> :> Off) @@ (<<"config", "timeout">> :> "t2")

----------------------------------------------------------------------------

\* The executors are alike, and only safety is checked.
ExecutorsAlike == Permutations(Executors)

\* A part that does not run starts in one state.
RulesRest == part # "rules" => file = CHOOSE d \in AclDocuments : TRUE
GovernanceRests == part # "governance" => \A s \in Shared : steps[s] = CHOOSE b \in Prebuilt : TRUE

PoliciesInit ==
  /\ part \in Parts
  /\ Init
  /\ RulesInit /\ RulesRest
  /\ ConfigInit /\ ControlInit
  /\ GovInit /\ GovernanceRests

PoliciesNext ==
  /\ UNCHANGED part
  /\ \/ part = "breaker" /\ Next
        /\ UNCHANGED <<ruleVars, configVars, controlVars, govVars>>
     \/ part = "rules" /\ RulesNext
        /\ UNCHANGED <<vars, configVars, controlVars, govVars>>
     \/ part = "config" /\ ConfigNext
        /\ UNCHANGED <<vars, ruleVars, controlVars, govVars>>
     \/ part = "control" /\ ControlNext
        /\ UNCHANGED <<vars, ruleVars, configVars, govVars>>
     \/ part = "governance" /\ GovNext
        /\ UNCHANGED <<vars, ruleVars, configVars, controlVars>>
=============================================================================
