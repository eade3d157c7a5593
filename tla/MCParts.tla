------------------------------- MODULE MCParts -------------------------------
(***************************************************************************)
(* Instances of the parts of a call's path for TLC: the order a batch of      *)
(* modules loads in, the pipeline engine, the stream, the cancellation tree, *)
(* the ACL's evaluations, the watching middlewares and the stores behind     *)
(* them.  A behaviour chooses one part and runs it alone: the parts share no *)
(* state, and one run explores each of them in full.                         *)
(***************************************************************************)
EXTENDS MCACL, MCLoadOrder, Pipeline, Stream, SubscriberCircuit, CancelTree, SpanBatch, ErrorHistory,
        Observers, Usage

\* What the theorems about ACL assume.
ASSUME PartsAssumption == ArgumentsFirst

CONSTANT Parts     \* the parts explored
VARIABLE part      \* the one that runs

Seed == {}
Step(name, requires, provides, gate, pure) ==
  [name |-> name, requires |-> requires, provides |-> provides, gate |-> gate,
   pure |-> pure, removable |-> gate # "no", replaceable |-> gate # "no" \/ name = "execute",
   matchModules |-> "all", ignoreErrors |-> FALSE, timeoutMs |-> 0]

BuiltinSteps == <<
  Step("context_creation", {}, {"context"}, "no", TRUE),
  Step("module_lookup", {}, {"module"}, "no", TRUE),
  Step("acl_check", {"context", "module"}, {}, "pure", TRUE),
  Step("approval_gate", {"context", "module"}, {}, "approval", FALSE),
  Step("execute", {"module"}, {"output"}, "no", FALSE),
  Step("return_result", {"output"}, {}, "no", TRUE)>>

Audit == [Step("audit", {"output"}, {"audited"}, "no", TRUE) EXCEPT !.ignoreErrors = TRUE]
Tenant == Step("tenant", {"module"}, {"output"}, "no", TRUE)
WeakGate == [Step("acl_check", {"context", "module"}, {}, "pure", TRUE) EXCEPT !.ignoreErrors = TRUE]

Entry(name, type, handler, after, before, fields) ==
  [name |-> name, type |-> type, handler |-> handler, after |-> after, before |-> before, fields |-> fields]
Section(remove, configure, items) == [remove |-> remove, configure |-> configure, steps |-> items]

Types == "tenant" :> Tenant
Paths == "./audit:make" :> Audit

DeployedSections == {
  Section(<<>>, <<>>, <<>>),
  Section(<<"approval_gate">>, <<[step |-> "execute", fields |-> ("ignore_errors" :> TRUE)]>>, <<>>),
  Section(<<>>, <<[step |-> "module_lookup", fields |-> ("matchModules" :> "miss")]>>,
          <<Entry("", "tenant", "", "module_lookup", "", "timeoutMs" :> 9)>>),
  Section(<<>>, <<[step |-> "acl_check", fields |-> ("ignore_errors" :> TRUE)]>>, <<>>),
  Section(<<>>, <<>>, <<Entry("quota", "tenant", "", "", "acl_check", "ignore_errors" :> TRUE),
                        Entry("audit", "", "./audit:make", "quota", "", <<>>)>>),
  Section(<<"execute">>, <<>>, <<>>),
  Section(<<>>, <<>>, <<Entry("x", "tenant", "", "", "", <<>>)>>),
  Section(<<>>, <<>>, <<Entry("x", "lost", "", "", "acl_check", "tiemout_ms" :> 5)>>),
  Section(<<>>, <<[step |-> "execute", fields |-> ("timeout_ms" :> 9)]>>, <<>>),
  Section(<<>>, <<>>, <<Entry("tenant_quota", "tenant", "", "", "acl_check", <<>>)>>)}
Inserts == {Audit, WeakGate}

ErrorsOf == [f1 |-> "m1", f2 |-> "m1", f3 |-> "m1", f4 |-> "m2"]

\* Chunks whose paths meet at every depth, and one that replaces an object.
ChunkOf(path, v) == path :> v
Chunks == {ChunkOf(<<"a", "b", "x">>, 1), ChunkOf(<<"a", "b", "y">>, 2), ChunkOf(<<"a">>, 3),
           ChunkOf(<<"a", "c">>, 4) @@ ChunkOf(<<"z">>, 5)}
RecoveryOf == ChunkOf(<<"recovered">>, 0)

WatcherChains == {<<"tracing", "app">>, <<"app", "notify", "metrics">>, <<"usage", "app">>}
TwoCallers == {[caller |-> "x", ok |-> TRUE], [caller |-> "y", ok |-> FALSE]}

\* A part that does not run starts in one state.
PartsRest ==
  /\ IF part = "acl" THEN TRUE ELSE defaultEffect = "deny"
  /\ IF part = "order" THEN TRUE ELSE batch = CHOOSE b \in Batches : TRUE
  /\ IF part = "observers" THEN TRUE ELSE watchers = <<"tracing", "app">>
  /\ IF part = "usage" THEN TRUE ELSE usageClock = 0
  /\ IF part = "stream" THEN TRUE ELSE configured = 1 /\ hasStream = TRUE /\ hooks = TRUE /\ derived = TRUE

PartsInit ==
  /\ part \in Parts /\ PartsRest
  /\ Init
  /\ OrderInit
  /\ PipelineInit
  /\ StreamInit
  /\ CircuitInit /\ CancelInit /\ SpanInit /\ HistoryInit
  /\ ObserversInit /\ UsageInit

PartsNext ==
  /\ UNCHANGED part
  /\ \/ part = "acl" /\ Next
        /\ UNCHANGED <<orderVars, pipelineVars, streamVars, circuitVars, cancelVars,
                        spanVars, historyVars, observerVars, usageVars>>
     \/ part = "order" /\ OrderNext
        /\ UNCHANGED <<vars, pipelineVars, streamVars, circuitVars, cancelVars,
                        spanVars, historyVars, observerVars, usageVars>>
     \/ part = "pipeline" /\ PipelineNext
        /\ UNCHANGED <<vars, orderVars, streamVars, circuitVars, cancelVars,
                        spanVars, historyVars, observerVars, usageVars>>
     \/ part = "stream" /\ StreamNext
        /\ UNCHANGED <<vars, orderVars, pipelineVars, circuitVars, cancelVars,
                        spanVars, historyVars, observerVars, usageVars>>
     \/ part = "circuit" /\ CircuitNext
        /\ UNCHANGED <<vars, orderVars, pipelineVars, streamVars, cancelVars,
                        spanVars, historyVars, observerVars, usageVars>>
     \/ part = "cancel" /\ CancelNext
        /\ UNCHANGED <<vars, orderVars, pipelineVars, streamVars, circuitVars,
                        spanVars, historyVars, observerVars, usageVars>>
     \/ part = "spans" /\ SpanNext
        /\ UNCHANGED <<vars, orderVars, pipelineVars, streamVars, circuitVars,
                        cancelVars, historyVars, observerVars, usageVars>>
     \/ part = "history" /\ HistoryNext
        /\ UNCHANGED <<vars, orderVars, pipelineVars, streamVars, circuitVars,
                        cancelVars, spanVars, observerVars, usageVars>>
     \/ part = "observers" /\ ObserversNext
        /\ UNCHANGED <<vars, orderVars, pipelineVars, streamVars, circuitVars,
                        cancelVars, spanVars, historyVars, usageVars>>
     \/ part = "usage" /\ UsageNext
        /\ UNCHANGED <<vars, orderVars, pipelineVars, streamVars, circuitVars,
                        cancelVars, spanVars, historyVars, observerVars>>
=============================================================================
