# A TLA+ verification project for apcore-typescript

apcore is a governed runtime for modules that agents call. A module is found or
registered in a registry. An executor calls it through a pipeline of gates (module
lookup, call chain guard, access control, approval), middlewares and schema
validation. Around that core stand an event bus, an async task manager, system modules
that reload and toggle other modules at run time, a configuration bus and
observability.

This directory models the parts of that program whose correctness depends on order:
promises that interleave at every `await`, retries, deadlines, cancellations, callbacks
that call back, restarts, and configuration that is read, checked and put in force in
several steps. TLC checks each module on small instances, and TLAPS proves what matters
most of twelve of them for every value of their constants. `PROJECT.json` lists the
components, the runs, a mutant per property, the source lines of every definition, the
hazards, the findings and the theorems.

Contents: 1 inventory, 2 how the code is modelled, 3 the modules, 4 the runs, 5 fairness,
6 proofs, 7 disagreements with the code's own documentation, 8 what is not modelled,
9 plan.

## 1. Inventory

Paths are below `src/src/`. JavaScript has one thread: a synchronous part runs to its end,
so everything hard comes from what happens between two awaits, from callbacks inside a
synchronous part, and from calls that outlive the caller's interest in them.

### The call path

**Executor** (`executor.ts`, `builtin-steps.ts`, `pipeline.ts`).
*State:* per call a `PipelineContext` (inputs, output, executed middlewares, approval
token), a `Context` with its cancel token, deadline and `data` map; on the executor the
strategy, the middleware manager, and the ACL, policy and approval handler set on the gates.
*Operations:* `call`, `stream`, `callWithTrace`, `validate`, `use`/`remove`, `setAcl`,
`setPolicy`, `setApprovalHandler`.
*Hard:* the operator changes the toggle, the ACL, the policy and the chain while calls are
suspended; the deadline races the module body and its abort listeners; a retry runs the
pipeline again over the same context; errors arrive wrapped.
*Correct when:* no attempt runs the body without facing every gate in that attempt, what
the ACL demands no policy lifts, the deadline owns the outcome, a cancellation is neither
recovered nor retried, hooks that were opened are closed, and every call settles.

**Middleware manager and retry middleware** (`middleware/manager.ts`, `middleware/retry.ts`).
*State:* the chain; the retry counter in `context.data`. *Operations:* `add`, `remove`,
`executeBefore`, `executeAfter`, `executeOnError`. *Hard:* the chain may change during a
call; a hook may fail half way. *Correct when:* the hooks form an onion, and a call is
tried at most `maxRetries + 1` times.

**Circuit breaker middleware** (`middleware/circuit-breaker.ts`).
*State:* per (module, caller) a `CircuitRecord` with a ring buffer of outcomes, the state,
`openedAt`, `probeInFlight`. *Operations:* `before`, `after`, `onError`, `getState`,
`reset`. *Hard:* outcomes arrive late and from calls of an earlier epoch, or never;
the error count is incremental. *Correct when:* the window is exact, one probe at a time,
no trip is missed, no call before the cool-down is over.

**Access control** (`acl.ts`, `acl-handlers.ts`, `acl-file.ts`).
*State:* the rule list, the default effect, the registered condition handlers, and one
static `_currentFrame` that carries the arguments and the captured errors of an evaluation.
*Operations:* `checkAccess`, `asyncCheckAccess`, `addRule`, `removeRule`, `reload`, `load`.
*Hard:* two evaluators kept in step by hand; asynchronous evaluations interleave over the
static; conditions have three outcomes. *Correct when:* both evaluators decide alike,
what could not be evaluated never helps a call through, and no evaluation sees another.

**Pipeline engine and execution strategy** (`pipeline.ts`, `pipeline-config.ts`).
*State:* the ordered steps and their index; per run the index it is at and the step
middlewares that entered. *Operations:* `run`, `insertAfter`, `insertBefore`, `replace`,
`remove`, `configureStep`, and two builders that apply the `pipeline` section of a
configuration file. *Hard:* insertion changes the list before it validates it; a strategy
may be edited while it runs; `skip_to`, ignored errors and step recoveries change what has
run before a step; a gate may come in switched off. *Correct when:* a run passes by a step
only for a reason the strategy gives, every step middleware that heard of a step hears how
it went, and no door lets a weakened gate in.

**Approval, policy and the executor's accessors** (`approval.ts`, `policy.ts`, and of
`executor.ts` the constructor, the setters, `callWithTrace`, `validate`,
`governanceState`). *State:* the providers an executor was given and the copies its gates
hold. *Hard:* a strategy is an object that executors may share, and each binds its own
providers into it; the preflight reads the requirement from other places than the gate.
*Correct when:* a gate enforces what its executor was given, the report never claims
protection that is not there, the preflight foretells the gate.

**Streaming** (`streaming.ts`, `Executor.stream`). *State:* the generator, the merged
output, what was delivered. *Hard:* after the first chunk nothing can be taken back: the
module may fail, the deadline pass, the merge cap change, the consumer leave. *Correct
when:* consumer, hooks and output steps are told one story.

**Cancellation** (`cancel.ts`, `execution-lifetime.ts`).
*State:* a flag, an `AbortSignal` and a parent per token; the executions each scope owns.
*Operations:* `cancel`, `reset`, `check`, `dispose`, `drain`. *Hard:* `reset()` cannot
un-abort a signal; work is registered while `drain()` waits; the link of the signals exists
in two builds. *Correct when:* the flag and the signal agree as far as they promise to, and
`drain()` returns to an empty house.

**Watching middlewares** (`observability/tracing.ts`, `metrics.ts`, `usage.ts`,
`middleware/platform-notify.ts`). *State:* one stack each in `context.data`, which all
contexts of a trace share; the alert latch. *Hard:* calls nest, overlap, are retried and
are cut short, and whoever ends first pops. *Correct when:* what a watcher notes of a call
is that call's, nothing is noted twice, and alert and recovery come by turns.

**Schemas** (`schema/`), **context** (`context.ts`, `context-key.ts`, `trace-context.ts`),
**errors** (`errors.ts`, `error-formatter.ts`): verdicts, translations and values; no
control of their own.

### Around the calls

**Async task manager** (`async-task.ts`).
*State:* the task store, the internal handles, `_runningCount` and `_waitQueue`, the
admission chain, the reaper. *Operations:* `submit`, `cancel`, `cleanup`, `startReaper`,
`shutdown`, `getStatus`, `getResult`, `listTasks`. *Hard:* the store is asynchronous, may
be shared and may fail; a slot must survive retries, timeouts, cancels and early returns.
*Correct when:* the cap on active tasks holds, slots are neither leaked nor counted twice,
no waiter is forgotten, an outcome is final, and `shutdown()` returns with its tasks
settled.

**Event emitter** (`events/emitter.ts`, `events/retry.ts`) with the **subscriber circuit**
(`events/circuit-breaker.ts`) and **subscribers** (`events/subscribers.ts`).
*State:* subscriptions, the bounded list `_pending`, the shutdown flag; per subscriber a
circuit. *Operations:* `subscribe`, `unsubscribe`, `emit`, `flush`, `shutdown`. *Hard:*
handlers emit, flush and shut down from inside `emit()`; `flush()` takes the list over
while deliveries splice themselves out of it. *Correct when:* every accepted event is
delivered or announced lost, each delivery is waited for by one party, shutdown drains.

**Registry** (`registry/registry.ts`, `registry/conflicts.ts`) with scanning, metadata,
dependency order and versions (`registry/`).
*State:* modules, metadata, a lower-case index, ids in flight, reference counts, drains,
registry callbacks. *Operations:* `register`, `registerInternal`, `discover`,
`unregister`, `safeUnregister`, `acquire`/`release`, `watch`, queries. *Hard:* `onLoad`
may be asynchronous, fail, or register something itself; four doors check different
things; a drain waits for holders that may outlive the module. *Correct when:* a module is
live exactly while registered, its id is reserved while it loads, a rollback takes back
its own entries only, a drain waits for somebody.

**Dependency order and versions** (`registry/dependencies.ts`, `registry/version.ts`): a
sort by levels, a search for the cycle it could not get past, and constraints on versions.
*Correct when:* the order respects every dependency, a refusal is justified by the batch,
a batch that can be ordered is.

**Runtime control** (`sys-modules/control.ts`, `toggle.ts`, `overrides.ts`,
`overrides-file.ts`, `registration.ts`). *State:* toggles, settings, override stores.
*Operations:* `reload_module`, `update_config`, `toggle_feature`, and the restoring at
start-up. *Hard:* a reload unloads before it discovers; asynchronous override stores are
read, modified and written without a lock; a file may be unreadable when the next override
is saved; the process restarts. *Correct when:* what a control call was told is what a
restart finds.

**Configuration** (`config.ts`, `config-defaults.ts`). *State:* the process-wide namespaces
and environment maps; per `Config` the data, the mounts and the mode. *Operations:*
`registerNamespace`, `envMap`, `load`, `set`, `mount`, `reload`. *Hard:* files, defaults,
mounts and variables are laid over each other in an order that differs by mode; a reload
that throws half way leaves new data behind. *Correct when:* what is declared is what
`get()` finds, and no state holds what a call should have refused.

**Observability stores** (`observability/error-history.ts`, `batch-span-processor.ts`,
`usage.ts`, `sys-modules/usage.ts`): an error history with an eviction heap beside its
index, span batches, usage in hourly buckets that expire. *Correct when:* the parts of each
agree, and what is gone was counted or was due to go.

### Who calls whom

The executor asks the registry for the module, the ACL for a decision
(`BuiltinACLCheck` calls `asyncCheckAccess`, so two concurrent calls share
`_currentFrame`), the approval handler for an answer, and walks the middleware chain, of
which the circuit breaker and the retry middleware are members. The task manager calls the
executor with a token of its own and drains it. Toggle and reload act on the registry and
the executor's lookup step while calls are under way. A discovery and a reload order their
modules with `resolveDependencies`. `registerSysModules` reads the override store and the
configuration when the process starts. Audit, governance, circuit and alert events go to
the emitter, whose subscribers may call back into any of them.

## 2. How the code is modelled

* An action is the code between two suspension points: from a call, or the resumption
  after an `await`, to the next `await` or the end. A step field names the `await`. A
  synchronous function is one action; where user code runs inside one and may call back
  (`emit()`, `onLoad`), a stack holds the synchronous calls under way.
* A promise callback is an action of its own, so any number of other turns may come
  before it. This allows more interleavings than the microtask queue of one runtime, which
  is what code that awaits foreign promises has to cope with.
* Timers may fire at any time after they were armed. Durations are not modelled, except
  where a comparison depends on them: the recovery windows of the two circuits, the hours
  of usage.
* Data is reduced to what decides: an input to whether it holds an approval token, an
  event to whom it matches, a rule to its scope, a predicate to its answer, a document to
  the paths of its leaves.
* A crash is a restart: memory goes, the override store and its file stay.
* History variables (marked `history` in the modules) record what a property talks about
  and the code forgets. No guard reads them.
* Definitions marked `mutant` are plausible bugs, one per checked property. Replacing the
  definition they stand before must make TLC find that property violated.

## 3. The modules

### AsyncTask, TaskSlots (async-task.ts)

One task per `submit()`. `pc[t]` is the await at which its submit or its runner is
suspended; `status` and `stored` are the record; `internal` and `cancelled` the handle;
`admitChain` the promise chain that serialises admissions; `runningCount` and `waitQueue`
the limiter; `cancels`, `cleaning`, `sweep` and the `shut` variables the other operations
at their awaits. `LiveStore` chooses between a store that returns the stored object
(`InMemoryTaskStore`) and one that returns copies; `FlakyStore` lets any call to it
reject; the call "peer" is another process that cancels in a shared store. Times are left
out, so that any terminal record may be old enough to be deleted.

`TaskSlots` is the abstract limiter: who holds a slot, and a queue. Its actions are taking
a free slot, waiting when there is none, freeing one, and handing one over to the longest
waiter. AsyncTask implements it with `holders` mapped to the runners suspended where the
code owns a slot and `queue` to `_waitQueue`.

### CircuitBreaker (middleware/circuit-breaker.ts)

One `CircuitRecord`, since keys share nothing: ring buffer, head, length and error count as
in the code, the state, the age of `openedAt` up to the recovery window, and
`probeInFlight`. Callers come any number of times. Which hook follows `before()` is decided
by the executor and the manager: `Bypasses` names the ways a call ends without the breaker
hearing of it.

### Executor (executor.ts, builtin-steps.ts, pipeline.ts, manager.ts, retry.ts)

One record per call with its phase (a step, the approval handler's answer, a hook of a
chain, the race of the body, the error path, the retry's sleep), and one per Context of the
retry counter with a history of how often an `after()` deleted it too early. The strategy is a
constant sequence of step names, so that a step removed from a preset is removed here.
`Faults` names the places that may throw besides the module, `Changes` what happens
meanwhile: cancellation, toggles, new gate providers, `use()`, `remove()`, recoveries.

### EventEmitter (events/emitter.ts)

One delivery per event and subscriber with its phase, attempts and dead-letter audience;
`stack` holds nested `emit()` calls; `pending` and the `left` set of each `flush()` say who
waits for what. Lists whose order no property depends on are sets, and each subscriber is
subscribed at most once.

### Registry (registry/registry.ts, sys-modules/control.ts)

The tables, `inFlight`, drains and reference counts; a call is any public operation with
its own position, on a stack when it runs inside another. The module a call brings always
has an `onLoad`, which may return at once; files share one object among all imports; a
custom discoverer offers one module. `Exclusive` is an assumption on the host: it awaits
`discover()` and reloads before it registers more (see 7 for what happens if it does not).
The initial state is that after a start-up discovery.

### The pipeline: Strategy, PipelineConfig, Pipeline (pipeline.ts, pipeline-config.ts)

`Strategy` has the five edits as functions from a list to the list they leave behind and
the error they throw: the two are independent, because some edits change the list before
they validate it. `PipelineConfig` applies a section of the configuration file to the
standard strategy through both builders; loops over the section are recursive functions.
`Pipeline` is one `run()` over that strategy while operators edit it: `run` holds the phase
(an await: a hook of a step middleware or a body), the index, the step copied at that index,
what was provided, and which middlewares entered. A body decides freely how it ends.
`unchecked` and `run.shifted` are histories: an edit that skipped validation, and an edit at
or before the running index, after which the exactness of the trace is not claimed.

### Governance (executor.ts, policy.ts, approval.ts, builtin-steps.ts)

Executors, what each was given (ACL, handler, policy), and strategies as sequences of
steps with what their gates hold. Construction, the setters and `callWithTrace` bind; a
request passes the gates one by one while binding goes on; `GovernanceState` and the
preflight read. A policy is a list of rules over two modules with the specificity of their
patterns given; `BestSoFar` is the loop that picks one. `PreflightTells` says that what is
announced lies between what some foremost rule demands (`Wanted`) and what the gate will ask
(`Needs`): the two differ when equally specific rules disagree and a stricter one leaves the
approval to the annotations.

### Stream (executor.ts, streaming.ts)

One `stream()`: before the generator, between two chunks, and the steps behind the body, for
a module with a `stream()` and for one without, which runs all its steps first and yields once.
`raised` tells a cancellation that a step or the body threw from one that a step middleware's
hook threw, as the code does. A chunk is a function from leaf paths to values, so that the
merge to a depth, the part that decides what the output steps validate, is modelled by what it
does.

### CancelTree (cancel.ts, execution-lifetime.ts)

Tokens with owners, flag, signal and link; bodies that register with a scope; one
`drain()`. `hasAny` says in which of the two builds the process runs.

### SubscriberCircuit, SpanBatch, ErrorHistory (events/circuit-breaker.ts, observability/)

`SubscriberCircuit` is one wrapped subscriber and its overlapping deliveries, with a clock
that stops at the recovery window. `SpanBatch` has the queue, the batch being exported and
an exporter that may throw or produce spans; a flush never awaits, and so nothing else
comes in between but what the exporter itself does. `ErrorHistory` names an entry by its
place among all ever made; heap items stay when their entry changes or goes, as in
the code, and the bound `MaxErrors` is on the errors recorded.

### Observers (tracing.ts, metrics.ts, usage.ts, platform-notify.ts)

The calls of one trace through one chain of watchers, one hook a step. `data` is the shared
map with a stack per kind of watcher; an entry is named by the call and the attempt that
pushed it; `noted` is what was reported of whom. Around the watchers an application
middleware may throw, answer or retry, and a body may be cancelled (`MaxMishaps` times).
All calls are of one module, which only the error rate is about.

### Usage (observability/usage.ts, sys-modules/usage.ts)

The hourly buckets of one module, their limit and their expiry, in ticks. Reports are
operators: they change nothing. The last step pads to the hours shown.

### Config (config.ts)

A document is a function from leaf paths to values, a path a sequence of keys and a key the
sequence of its atoms, so that the several ways an environment variable is split into keys
are modelled by what they do. The process-wide registry and one `Config` with its mounts;
`load`, `set`, `mount` and `reload` are one action each, as they are synchronous, including
the branches where they throw and what they leave behind then.

### RuntimeControl (control.ts, toggle.ts, overrides.ts, overrides-file.ts, registration.ts)

`live` is what the process goes by, `kept` what the store holds. A write to an asynchronous
store is two steps, read and save; the synchronous and the file store write in one. A
restart drops `live` and runs the restoring part of `registerSysModules`, for which each store
may be unreadable; a save under way may still arrive after it. `wiring` chooses the mode and
the kind of store once. A key has a name of its own and may also be reached by `Sections`: a
section that contains it, or its name spelled from `apcore`, neither of which the lookups of
the constraints know.

### ACL (acl.ts, acl-handlers.ts)

The synchronous path is a function (`Decide`, `Reported`), because it runs to its end; the
asynchronous path is a machine with one step per resumed await: a handler's answer, a
nested branch's, a `$or`'s or `$not`'s, a rule's. `current` is the static `_currentFrame`,
saved, restored and re-armed where the code does it; each evaluation also keeps the frames
its condition loops were entered under. A rule is its effect, its approval flag, whether it
is about the target, and its conditions, nested one level. The generic entry for an operator
whose operand has already been reported under another frame is left out of `handler_error`.

### ACLRules (acl.ts, acl-file.ts)

How rules get in: a file, the constructor, `addRule()`, an assignment to a rule somebody
holds; the shapes `callers` and `targets` may have; `validateRules()`; the marks of rules
skipped for want of a context; `reload()`; the sink of audit records. A condition is
absent, known, unknown or not a mapping: ACL evaluates conditions, this module the rest.

### LoadOrder (registry/dependencies.ts, registry/version.ts)

`resolveDependencies` with one step per iteration of its three loops; of the search, one action
per way an iteration can end. An id is its rank in
the sort order, a version three numbers, a constraint its operator, target and the number
of parts written, or one that cannot be read. `Batches` are the calls.

### The MC modules

`MCAsyncTask`, `MCEventEmitter`, `MCExecutor`, `MCRegistry`, `MCACL`, `MCGovernance` and
`MCLoadOrder` give one module its rules, chains, policies or batches. `MCRaces`, `MCParts`
and `MCPolicies` are portfolios: each extends several modules, a behaviour chooses one part
in its initial state and runs it alone, and the others rest in one state. The parts share
no variables, so a portfolio explores exactly the union of the state graphs, and a property
is about the part that runs. Constants are in `races.cfg`, `parts.cfg` and `policies.cfg`.

## 4. The runs

A property that is a conjunction of named ones is listed with them.

| run | asks | outcome |
|---|---|---|
| `races`, tasks | `AdmissionSound` (`AdmissionCap`, `LiveWorkHasHandle`, `BodiesHoldSlots`), `OutcomesStay`: cancel, cleanup and the reaper against two submits and a cap of one | holds |
| `races`, modules | `TablesAgree` (`RegistryTypeOK`, `LiveWhilePublished`, `ReservedWhileLoading`, `IdsIndexed`, `WaitersAwaitHolders`), `ReloadGivesBack`: three calls of any kind on two ids | holds |
| `async_remote` | `SlotsConserved`, `NoLostWakeup`, `SlotsImplemented`: retries over a shared store that rejects, a peer, one caller who cancels, cleans up or shuts down | holds |
| `async_shutdown` | `ShutdownSettles` (with `NoOrphan`), `Terminates` (`EveryTaskEnds`, `ShutdownReturnsEventually`) under fairness | holds |
| `async_requeue` | `CancelledNotRequeued` | violated (7) |
| `emitter` | `EventsAccounted` (`Accounted`, `NeverLost`, `ShutdownDrains`), `FlushEnds` under fairness | holds |
| `exec` | `GatesHold` (`EveryAttemptGated`, `AclApprovalHonoured`), `CatchSound` (`CancelBypassesOnError`, `ClosesOnion`, `RetryBudget`), `DeadlineOwnsError`, `EveryCallEnds` under fairness | holds |
| `parts`, acl | `PathsAgree`, `GrantsAccounted` (`NoSilentGrant`, `AuditOwnsErrors`) when conditions ask for the arguments first | holds |
| `parts`, pipeline | `RunSound` (`StepsAccounted`, `OnionCloses`, `DryRunSound`), `StrategySound` | holds |
| `parts`, stream | `StreamHonest` (`ValidatesWhatWasDelivered`, `EndsHonestly`) | holds |
| `parts`, cancel | `SignalsFollow` (`FailsClosed`, `ChannelsAgree`), `DrainComplete` | holds |
| `parts`, circuit | `CircuitHonest` | holds |
| `parts`, spans and history | `SpanFate`, `Evictable` | holds |
| `parts`, observers | `ObserversHonest` (`OwnWhenNested`, `NothingLost`, `SampledWhole`, `AlertsAlternate`) | holds |
| `parts`, usage | `UsageTold` (`CountsExact`, `TrendExact`, `AddsUp`) | holds |
| `parts`, order | `OrderSound` (`OrderFollows`, `CyclesClose`, `RefusalsJust`, `OrderFound`, `ConstraintsExact`) | holds |
| `policies`, breaker | `WindowExact`, `OneProbe`, `ClosedIsHealthy`, `CoolsDown` | holds |
| `policies`, rules | `RulesMeanOneThing` (`DoorsAgree`, `GrantsAsWritten`), `FaultsTold` (`AuditSpeaks`, `FindingsMatch`) | holds |
| `policies`, config | `DeclarationsResolve` (`DeclaredInForce`, `EmptyDiscarded`, `EnvReaches`), `RefusalsHold` (`ClaimsOwned`, `NotSilentlyInvalid`) | holds |
| `policies`, control | `OverridesDurable` (`OverridesKept`, `ConstraintsKept`) | holds |
| `policies`, governance | `GatesBind` (`HeldIsEnforced`, `RequirementStands`), `NeverOverstates`, `PreflightTells` | holds |
| `breaker_wedge` | `ProbeSettles` under fairness | violated (7) |
| `acl_arguments` | `OwnArguments` when another key is asked before the arguments | violated (7) |
| `preflight_binding` | `PreflightBinding` when a gate holds another policy than the executor's | violated (7) |
| `load_order` | `StallsExplained` | violated (7) |

Why the bounds are enough to be worth something:

* *Tasks.* Two tasks and one slot are the least with a waiter and a hand-over, a second
  submit between count and save, and a cleanup between one task's end and another's
  start. The limiter's properties are also proved for every number of tasks.
  `async_shutdown` has no retries because the defect of `async_requeue` would break
  `ShutdownSettles`; retries are in `async_remote`, without fairness. Its state constraint
  `NoLateReaper` leaves out a reaper started after `shutdown()` has stopped the first one; it
  cuts `StartReaper` alone, which no fairness obliges. `OneCallAtATime`, the
  state constraint of `async_remote`, cuts what overlaps there: a user's `cancel()` and
  `cleanup()` follow one another, and a behaviour with a `shutdown()` has neither. Several at
  once are in `races`, whose `OneDeleter` only keeps `cleanup()` and a sweep apart, and the
  theorems have no such bound.
* *Registry.* Three calls on two ids give a reload, a registration and a holder at once, and
  an `onLoad` that calls a third operation from inside the second.
* *Emitter.* `maxPending` 1 with two events overflows; nested emits, one `flush()` and
  `shutdown()` overlap in every order; two attempts and a dead-letter listener reach every
  way a delivery ends.
* *Executor.* Calls share nothing except the counters of a shared context, so one call
  and an operator who may act at every await are enough for the gates. `Environments` are
  two: in one the operator changes every setting, and steps, hooks and body fail or cancel,
  over two attempts, the least in which a verdict can be stale; in the other middlewares are
  removed and a bound of three attempts leaves room for one more than the budget allows, which
  an `after()` that fails outside of the RetryMiddleware takes. Two middlewares, one of which retries, and a
  third that is added during the call give an inside and an outside of the failing hook.
* *ACL.* Two evaluations are what `_currentFrame` can confuse; the rules hold a gate that
  needs approval, a nested `$or`, a `$not`, an unknown key and a rule without conditions, and
  the questions include a missing projection, a missing context and a handler that rejects.
* *Pipeline.* Ten sections, one with a name over the limit, put every key, both kinds of handler and every refusal through
  the builders. Two step middlewares have one inside the other; one edit can come at any
  await, and one is enough to move the steps under the index.
* *Stream.* Two chunks of four shapes whose paths meet at every depth below the largest cap,
  one chunk that replaces an object and one that is no object.
* *Cancellation.* Three tokens make a chain and a fork; a body registers with any of them;
  one `reset()`. Two bodies are the least with one that starts, under a scope made meanwhile,
  while `drain()` waits for the other. Any number of bodies and tokens is in the proofs.
* *Circuit, spans, history.* Five deliveries against a threshold of two leave three to end
  late. Seven spans fill a queue of three while batches of two leave it. Four errors, three of
  one module and one of another, at most two of each module and two in all, evict from both
  sides.
* *Observers.* Three calls are the least with two siblings under one parent. One mishap
  disturbs a stack once. The three chains have an application middleware inside and outside of a
  watcher, and the alert outside the metrics as the code installs them; a threshold of 3/4
  over three calls raises and clears.
* *Usage.* Hours of two ticks have a cutoff in the middle of one; retention, the hours shown
  and the periods are of two or three hours, and four records fill a bucket and leave it.
* *Order.* Every assignment of fifteen lists of dependencies (required, optional,
  versioned, twice the same, on a registered module, on an unknown one, with a constraint that
  cannot be read behind one that holds and behind one that does not) to three modules, as
  a discovery and as a reload. `ConstraintsExact` is about every constraint over small
  versions.
* *Breaker.* A window of three wraps round with outcomes of both kinds in it, three callers
  give a probe, a refused call and a late outcome, and `MinSamples` above the window
  exercises the clamp. Everything it checks is proved for all values.
* *Rules, configuration, control, governance.* One evaluation with one edit at any of its
  awaits, seven documents that hold every fault at every door; two namespaces that want one
  prefix, four calls after the load; three control calls or restarts over each kind of store,
  the least in which two writes race and a restart follows;
  two executors that share one strategy, one change and one request.

Runs switch off the deadlock check where the system really stops: all submits, calls,
events or other bounded inputs of the instance are over. `breaker_wedge` keeps it, as
callers return for ever. The portfolios switch it off for all their parts.

## 5. Fairness

* *Async (`async_shutdown`).* Promise callbacks run, executor calls settle, module bodies
  end. The last is an assumption on modules: `CancelToken.drain` documents that a body which
  ignores its token keeps drain waiting, and then `shutdown()` too. Submits, cancels,
  cleanups are free never to happen.
* *Executor (`exec`).* The steps of the engine and the timers of deadlines and retries are
  fair. The module body is not: with the default, nonzero timeout `EveryCallEnds` has to hold
  without it. Approval handlers and hooks are assumed to answer, since the code waits for
  them without a limit.
* *Emitter (`emitter`).* Only the emitter's own turns and timers are fair. Handlers never
  have to answer, which is why `FlushEnds` speaks of flushes with a timeout and nothing
  promises that every delivery settles.
* *Breaker (`breaker_wedge`).* Time passes, callers keep coming, and calls let in end. Even
  so the probe may never settle, which is the point of the run.
* *The others.* Safety only.

## 6. Proofs

Eight modules hold the theorems, each beside the modules it is about: `CallProofs` beside
`Executor`, `CancelTree` and `Stream`, `EventProofs` beside `EventEmitter` and
`SubscriberCircuit`, `ObservabilityProofs` beside `SpanBatch`, `ErrorHistory`, `Observers` and `Usage`,
`PolicyProofs` beside `CircuitBreaker`, `RuntimeControl` and `ACLRules`, `PipelineProofs` beside `Strategy`,
`PipelineConfig` and `Pipeline`, `GovernanceProofs` beside `Governance` and `ACL`,
`RegistryProofs` beside `Registry` and `LoadOrder`, the others beside the module of that name. A theorem is about
the module's own specification (`Spec`, `CancelSpec`, `StreamSpec`, `CircuitSpec`, `SpanSpec`,
`HistorySpec`, `ObserversSpec`, `UsageSpec`, `RegistrySpec`, `GovSpec`, `ControlSpec`, `RulesSpec`, `PipelineSpec`,
`OrderSpec`) and holds for every value
of its constants that satisfies the module's named ASSUME; further hypotheses are stated in
the theorem and explained here. All follow one shape: an invariant that is inductive, one
lemma per kind of step, and a theorem per property that follows from the invariant.

| module | theorem | states |
|---|---|---|
| AsyncTaskProofs | `TypeCorrect` | types and the retry budget |
| | `SlotsNeverLeak` | `SlotsConserved` |
| | `WakeupsNeverLost` | `NoLostWakeup` |
| | `LimiterImplements` | `SlotsImplemented` |
| | `BodiesOwnSlots` | `BodiesHoldSlots`, a part of `AdmissionSound` |
| | `AdmissionHolds` | `AdmissionSound`, live store and no retries |
| | `OutcomesAreFinal` | `OutcomesStay`, live store and no retries |
| | `ShutdownIsSound` | `ShutdownSettles`, live store and no retries |
| CallProofs | `NoBodyUngated` | `GatesHold`, gates in the built-in order |
| | `TimeoutIsFinal` | `DeadlineOwnsError` |
| | `ChannelsTellTheSame` | `SignalsFollow` |
| | `DrainMissesNothing` | `DrainComplete` |
| | `StreamsAreHonest` | `StreamHonest` |
| EventProofs | `NothingUnaccounted` | `EventsAccounted` |
| | `CircuitIsHonest` | `CircuitHonest` |
| ObservabilityProofs | `NoSpanUnaccounted` | `SpanFate` |
| | `EvictionNeverStarves` | `Evictable` |
| | `WatchersAreHonest` | `ObserversHonest`, each watcher installed once |
| | `UsageIsTold` | `UsageTold` |
| RegistryProofs | `TablesNeverDisagree` | `TablesAgree`, the host awaits what it starts |
| | `ReloadsGiveBack` | `ReloadGivesBack`, the same |
| | `OrdersAreSound` | `OrderSound` |
| GovernanceProofs | `GatesAreBinding` | `GatesBind`, strategies in order |
| | `HeldIsAlwaysEnforced` | `HeldIsEnforced`, its first part, any strategies |
| | `ReportNeverOverstates` | `NeverOverstates` |
| | `PreflightForetells` | `PreflightTells` |
| | `EvaluationsAgree` | `PathsAgree`, rules that ask for the arguments first |
| | `NothingSilentlyGranted` | `NoSilentGrant`, a part of `GrantsAccounted`, the same |
| | `ArgumentsAreOwn` | `OwnArguments`, the same |
| PolicyProofs | `TypeCorrect`, `WindowIsExact`, `SingleProbe`, `ThresholdRespected`, `CoolDownRespected` | the breaker's properties |
| | `OverridesAreKept` | `OverridesKept`, its part about the store |
| | `OverridesAreDurable` | `OverridesDurable`, from a start that obeys the constraints |
| | `RulesReadAsWritten` | `RulesMeanOneThing` |
| | `FaultsAreTold` | `AuditSpeaks` and `FindingsFair`, parts of `FaultsTold` |
| PipelineProofs | `StrategiesStaySound` | `StrategySound` |
| | `RunsAreSound` | `RunSound` |

**AsyncTask, the limiter.** `SlotsConserved` is not inductive: when a slot is released the
code decides by `_waitQueue`, so the invariant must also say that the queue holds exactly
the waiting runners, each once, and only while every slot is taken. The argument divides the
suspension points into those that own a slot, the waiting one and the others. Every
action then acquires a slot, releases one (freeing it or handing it to the head of the
queue), or moves a task inside a class and leaves the limiter alone. `AcquireStep`,
`ReleaseStep` and `QuietStep` treat the three once and every action is sorted into one of
them (`TaskStepKind`). The same three lemmas map the steps to those of `TaskSlots` or to
stutters. `TypeOK` has its own chain of lemmas, where the retry budget needs that a task
is in its backoff only if it had a retry left. `BodiesOwnSlots` adds that a body starts only
in a runner that owns a slot and that every way to the release drains it.

**AsyncTask, the records.** `AdmissionHolds`, `OutcomesAreFinal` and `ShutdownIsSound` assume `LiveStore` and
`MaxRetries = 0`. Both are needed, and both are findings about the code rather than about the
proof: with retries a cancelled record is requeued (`async_requeue`), and a store that hands
out copies lets a runner write an old status back. The invariant `RecInv` follows a record
from its admission. `FreshRecords`: a task that was never saved has no record and is on
nobody's list. `KeptRecords`: an active record is in the store, so nothing has deleted one.
`SweptRecords`: what cleanup() or the reaper has listed for deletion is terminal, and is so
still when the delete comes. `WrittenOnce`: COMPLETED and FAILED are a runner's last write.
`CountTaken`: what `_countActiveTasks` has read for the admission under way includes every
active task, because admissions are chained and nothing else makes a task active. `Moves`
collects the steps that write no record. `ShutInv` adds what shutdown() is answerable for: a
runner leaves its record active only if it was flagged; only shutdown() flags a task without
writing CANCELLED in the same turn; and what it has flagged, or found active when it was
called, is first in its list, then among the cancels it waits for, and then settled.

**CircuitBreaker.** The invariant has three independent parts. `WindowInv`: the head stays
at 0 until the buffer is full, and the i-th oldest outcome is in the cell `Cell(i)` past
the head; recording an outcome keeps this in two cases, growing and wrapping, and the
error count follows from how `Failures` changes under `Append` and `Tail`. `Clocks` and
`Probe`: `openedAt` is null exactly while CLOSED, a HALF_OPEN circuit has cooled down, and
`probeInFlight` says whether the one admission has happened. `ClosedIsHealthy` is inductive
by itself once the window is exact.

**Executor.** `NoBodyUngated` assumes `BuiltInOrder`: every gate of the strategy comes before
"execute", and "acl_check" before "approval_gate". It is what every preset satisfies; the
strategy builder lets an operator break it, and then the property is not the executor's to
keep. The invariant says of each call (`Fits`) at which steps each phase may be, that the
gates it has cleared are exactly those behind its position (`Passed`), so that a retry, which
starts at the first step, has cleared none, and that once the approval gate is among them a
conditional allow it carries has been approved or skipped. `Around` types the rest.
`TimeoutIsFinal` needs no order.

**EventEmitter.** No hypotheses. `Frames`: nested `emit()` calls are of different events, each
calls a subscriber of its own, and has started nothing of what it still has to dispatch.
`Told`: per phase of a delivery, its attempts and who has been told. `Kept`: no two of the
frames, `_pending`, the flush() calls and the abandoned share a delivery, and one of them has
each that is under way. `Drains`: from the moment shutdown() closes the emitter, what is
dispatched is of events that were being emitted then.

**CancelTree and SubscriberCircuit.** The first invariant says that the owners of a token
form a chain, that a flag is only raised with its signal, that without `AbortSignal.any` an
abort has reached everything still attached below it, and that a running body is registered
with all owners of its scope. The second, that the failure counter is the length of the
streak of failures at the end of the outcomes, in every state of the circuit: with
overlapping deliveries no single transition shows that.

**Stream.** The invariant is `StreamHonest` and, per stage, who has been told and what was
raised, and that only a module without a `stream()` may have been told `after()` before it
fails. The work is in `Accumulate`, a fold that is a recursive function: `MergesExist` says
that there is such a function for every list of chunks, `MergesAgree` that the merges of a
list and of a longer one agree where both are defined, and so one chunk more is one merge more
(`AccumulateMore`). Both go by the least position at which they would fail.

**SpanBatch and ErrorHistory.** A span's number is larger than those of all spans before it,
so that "each in one place" and "in order" follow from one fact about the concatenation of
what was exported, the batch and the queue, which moving a batch or a span leaves as it is.
For the history, every fingerprint in the index leads to an entry of that fingerprint, in the
list of its module, with an item of the entry's last time in the heap (`Found`); `_popOldest`
keeps this although it recognises items by fingerprint and time, because two fingerprints
never share an entry. That there is an oldest item at all is well-foundedness of the naturals.

**Observers.** `ObserversAssumption` has each watcher once in the chain, which the manager warns
about and does not enforce. The property is not inductive; `ObsInv` has three layers, each with
less history than the one before. Always (`OnePlace`): an entry was made by an attempt that has
passed the watcher (`Made`), is on the stack or in one note, and is nowhere twice. While no hook
was called too often or left out (`Balanced`): a stack has as many entries as there are calls
that hold the watcher, so that a hook never finds its stack empty, and a call that holds or was
told is one whose entry is on the stack or noted; which entry it took may differ. While the
calls nest besides: the calls under way form a line, each made by the one before it, which waits
in its body (`CallsNest`), and a stack lists its holders in that order (`StackNests`). Who is not
in its body is the last of the line (`OnlyBodiesCall`), so that its entry is on top
(`OwnOnTop`) and what it pushes is pushed upon its caller's (`ParentOnTop`). That a body without
an overlapping call has nobody after it is shown from the least call above it
(`FirstAboveIsChild`). Most steps write to no stack (`QuietStep`); the others push or take one entry.

**Usage.** No hypotheses: `UsageAssumption` says that lengths of time are whole ticks and that a
call succeeds or does not. `UsageInv` says where every record is: one that its bucket did not
refuse is in the bucket of its hour unless that hour is expired (and an hour that is expired
stays so, as time does not go back), and the places in the buckets are named one for one by
the records they hold (`Names`). The naming is what carries counts from buckets to history:
`NamedAlike` makes it a bijection between what is collected and what was made, since a
period that is retained reaches only hours that are not expired (`MadeAreStored`), which is
where `Expired` must compare with the hour of the cutoff and not with the cutoff. That the
breakdowns add up holds for any finite set counted by any value (`SumOfShares`, from the fold's
own definition, by a smallest set on which it would fail). For the hours, `LatestAre` shows that
the padding always shows the same `ShownHours` hours, so that a period as long as them reaches one hour
more at most, the one it has cut into.

**Registry.** Both theorems assume `Exclusive`: the host awaits discover() and a reload before
it registers more, and registers nothing from a callback of theirs. Without it `TablesAgree`
is false, as 7 tells. None of the parts of `TablesAgree` is inductive. `Shapes` says what a
call may be loading at each of its stages: its own object, the next file of the order, or
the object a reload has kept. `Excluded` carries `Exclusive` from the start of a call to its
end. With the two, `Reserved` adds to the reservations that an id being loaded is not
registered and says what is already in `meta` for it, which is what a rollback removes.
`AheadFree`: the ids a discovery still has before it are not registered, although it looked
once, before its first `await`. `Homes`: an object is known under one id only, to the table,
to a reload that kept it or to the call that brings it, so that "live once" and "registered
somewhere" are the same. `Counted`: a count never exceeds the holders that will release, and
a module with waiters drains and is held. `Debts` follows what a reload has unloaded. The
steps fall into a few kinds (a call moves on, reserves, publishes, gives up, withdraws a
module, starts to wait), each with a lemma of its own, from `QuietStep` to `DrainStep`, and
every action is sorted into one of them.

**LoadOrder.** `LoadOrderAssumption` says that no module of a batch is listed twice (the modules
are keys of a map, or ids of the registry), that what is known is finite, and which type a
declared dependency has; the theorem has no other hypothesis. Of the edges the invariant says
what has been read so far (`EdgesRead`), by the place of every dependency in the flattened list
of declarations (`DeclarationsAll`; that `FlattenSeq` keeps all and mixes nothing up is shown
from the least length at which it would fail). Of the sort (`DegreesCount`, `LineHolds`): a
degree is at least the number of modules still awaited, and more only for a repeated dependency;
order and queue together are the modules that wait for nothing, each once, and a module in the
order is behind all it waited for. That a batch of its own without a cycle is ordered follows by
the least place in an order of it that holds a stalled module (`StallsOnCycles`). Of the search:
the path is the nodes of the frames that were entered (`Entered`), each went on to the one above
it (`GoneOn`), and what it went on to before is left for good. So a cycle that is reported goes
along declared dependencies and closes. What is left for good has a rank that goes down along
every dependency among the remaining modules (`Ranked`), and so has what earlier starts have
covered (`Covers`); a search that found nothing has ranked all that remains, and the remaining
modules by rank behind the order so far are an order of the batch (`RankedAcyclic`).
A refusal is of the dependency at hand, and a batch that had one to refuse never came to the
sort (`RefusalsJust`), be it for what is missing, what does not match or a constraint that cannot
be read. `ConstraintsExact` speaks of no state: it is arithmetic over the three numbers, operator
by operator, and that a highest matching version exists; `CaretZero` are the two constraints for
which the code and the reading of npm and Cargo part (section 7).

**Governance.** The invariant has two halves. `Hosts`: an executor runs a shared strategy or
the one it built, is among those who wrote to its gates, and, if it is the only one, finds in
them what it holds; that the gates of a strategy in use keep their kinds (`KindsStay`) is what
lets a request go on while setters write. `AllFair` follows each request (`Fair`): what it has
met on its way is true of the policy that the gate held then, and a request that has passed an
approval gate has no ACL gate ahead of it. That last part needs `GatesInOrder`, that no strategy
an executor is given asks the ACL behind an approval gate: every preset is so, a strategy built
by hand need not be, and then a demand of the ACL comes too late. `HeldIsAlwaysEnforced` and
the other two theorems have no hypothesis. What a policy's rules demand is decided by a loop
(`BestSoFar`, a recursive function): that the rule it leaves is among the foremost, and that
no tied rule that demands is lost, is shown from the least position at which it would fail
(`LeastNumber`, `ScanExists`), since induction over data is not at hand. `WantedIsNeeded` is
what the rest uses of it. `NeverOverstates` holds in every state, reachable or not: it
compares two readings of one state, and the work is in the quantifiers over several gates.

**ACL.** The three theorems assume `ArgumentsFirst`: a rule that reads the arguments does so
before it awaits anything. Other rules are the finding `acl_arguments`, and the rules of
`parts` satisfy it (`PartsAssumption`, which TLC evaluates). The invariant says of an
evaluation at each of its awaits that no rule before the one at hand decides and what
approval those rules left pending (`InList`), that no clause of the rule before the one at
hand said no (`InRule`), and the same of branches and keys (`InTree`, `InConjunction`), each
by the operators of the synchronous copy and the evaluation's own arguments; and that the
outcome awaited is the one that copy computes there (`AtRule` to `AtLeaf`). Three fold lemmas
(`ConjFolds`, `BranchesFold`, `ClausesFold`) say when a loop may stop. Whose frame is current
matters at a rule's first key only, and there it is the evaluation's own, because
`_matchesRuleAsync` is entered in the turn that re-arms it; another evaluation may write into
its frame's errors but not into its arguments (`RecordedKeeps`). `GrantsLoudly` then reads
`NoSilentGrant` off the decision.

**RuntimeControl.** What makes `OverridesKept` hold is that only an asynchronous store has
writes under way, that of two such writes each marks the other as disturbed (`Alone`), and
that a write which is about to replace the whole set has therefore seen every entry still
claimed to be kept (`Covered`). In the synchronous stores an entry is what is in force
(`Kept`), which a restart restores entry by entry (`Applied`), unless it could not read the
store (`unread`) or a section with the key was written as well (`reached`): the two histories
name what the property does not claim. `OverridesAreDurable` assumes
`LegalStart`: `_applyOverrides` checks nothing, so a file that breaks a constraint by itself
is adopted as it is. It promises nothing of a key that was written by its section (section 7).

**ACLRules.** No hypotheses; `ACLRulesAssumption` says that rules are objects with the fields of
an `ACLRule`. `DoorsAgree` is about one document: the file door looks for more in each rule,
and the least rule with a fault is found by both (`FaultFound`, `NoneFound`). For
`GrantsAsWritten` the invariant says (`HasRead`, `Undecided`) that an evaluation under way has
read a rule of its snapshot per turn, that none of those decided as they were when read, and
that the objects in the heap still have the effect they were read with, which is why
`asyncCheckAccess()` may look at the object again after its await (`Akin`): callers and targets
are what others assign to. The readings agree because `$not` has one operand (`ReadAsWritten`).
A sink flags, loses and reports a failure together (`Speaks`), also a sink that a reload has
replaced while an evaluation holds it.

**Pipeline.** No hypotheses beyond the module's ASSUMEs, of which one says something of the
code: no step of the standard strategy requires what a removable one provides, which is so in
`builtin-steps.ts`. `StrategySound` needs of the list only that its steps are sound (a weakened
gate is not one of them), its names unique, and its dependencies met while `unchecked` is false
(`SoundList`, `StrategyInv`). Each of the five edits has a lemma about the list it leaves,
thrown error or not: `InsertSound` and `RemoveSound` map the positions of the new list to those
of the old. What a builder makes of a section of any length is followed edit by edit through
the recursive function `AppliedSoFar`: that there is such a function, and that no edit is the
first to spoil the list, is shown from the least position at which it would fail (`LeastPlace`).
A removal checks nothing; while the section removes, its edits keep `Unneeded`, that nobody
requires what a removable step provides. This is where the ASSUME about the standard strategy
is used.

`RunSound` is not inductive. `RunInv` adds to it, for every phase: which middlewares may still
be waiting for news and how far the hook has come (`OnionKept`: after a cleanup, an error or an
after-hook nobody above the hook waits); that only the last entry of a run that has ended may
be a gate that was not passed (`GatesKept`); that the trace has as many entries as steps were
passed, and that the step under way is the one at the index (`TraceKept`); and of a dry run that
each step it has passed either failed or provided what it declares (`DryKept`), because only
then does `DependenciesMet` give what the next one requires. `TraceKept` and `DryKept` are
claimed as long as no edit has touched what the run has passed: an edit at or before the index
raises `run.shifted`, and an edit above it is shown to leave everything up to the index alone.
A jump is the one step that adds more than one entry; `RealJumps` counts them.

**What stays with TLC.** Liveness under fairness and ENABLED are out of the provers' reach:
`Terminates` (that shutdown() returns is a part of it), `EveryCallEnds` and `FlushEnds` are
model-checked only. So is `CatchSound`, which says of a cancellation and of the budget what is
left of them (section 7): what a middleware was told relates the
handlers' chain, taken when the failure is caught, to the hooks of an earlier one, and its
invariant has not been worked out. The run's first environment has a hook that cancels, its
second a failing `after()` over one attempt more than the budget. `Config`
declares a RECURSIVE operator (the search for the key a variable means), which keeps it, and
`MCPolicies`, out of the prover's reach; no other module does. `AuditOwnsErrors`, the other part of
`GrantsAccounted`, is false for some rules: a nested branch after the first binds whatever
frame is current, and what it cannot evaluate is reported there. The last part of `FindingsMatch`,
that a rule validateRules() is silent about can match some call, depends on which patterns
there are and on two arrays not excluding each other (`@system` and its `$not`).

## 7. Disagreements with the code's own documentation

With a run and a counterexample:

* `async_requeue`: the retry path writes PENDING a turn after it looked at the status, so a
  cancel in between is overwritten and the record stays PENDING for ever
  (`async-task.ts`, comment above the requeueing write).
* `breaker_wedge`: a probe that is cancelled, answered by an inner middleware, or that fails
  on another circuit's refusal leaves `probeInFlight` set; the circuit refuses every call
  until `reset()` (`errors.ts` says it closes again after its window).
* `acl_arguments`: `_evaluateConditionsAsync` awaits after every key without making its own
  frame current again, so the `arguments` condition may read the arguments of a concurrent
  call (`acl.ts`, comment of `_currentGovernanceProjection`). For the same reason a nested
  branch records what it cannot evaluate in the frame that is current when it starts.

* `preflight_binding`: `validate()` predicts the approval from the executor's own policy, the
  gate asks for it by the one its step holds, which another executor or the builder of the
  strategy may have put there (`executor.ts:1404` says they agree).
* `load_order`: nothing ever takes away the edge to a module that is registered but not in
  the batch, nor the second of two edges that are the same: the whole batch is refused as
  blocked by a required dependency, also when the dependency is optional
  (`dependencies.ts:93`).

Met while modelling, without a run. The properties that hold name the first five as their
exceptions; take an exception out and TLC refutes the property in its run:

* *Cancellations thrown by a hook.* An `ExecutionCancelledError` thrown by
  `StepMiddleware.beforeStep` leaves the engine inside a `MiddlewareChainError`. `call()` unwraps
  that after both of its cancellation checks: it reaches `onError` and may be retried, against D-20
  (`executor.ts:900`); the models carry it as `hookCancelled` and `CancelBypassesOnError` excepts
  it. Phase 1 of `stream()` offers it to `onError` as well, and phase 3 does not unwrap it and
  swallows it with the failures of the output steps (`executor.ts:1233`); `EndsHonestly` says so.
* *Retry budget.* The `after()` of the RetryMiddleware deletes the counter (`retry.ts:109`); when
  a middleware further out fails the attempt, the next one starts with the whole budget, against
  "after `maxRetries` attempts ... it returns `null`" (`retry.ts:49`). `RetryBudget` counts how
  often that happened.
* *Versions.* `^0` and `^0.0` end at 0.0.1 whatever is written, where npm and Cargo, which
  `version.ts:47` names, have 1.0.0 and 0.1.0 (`CaretZero`, excepted by `ConstraintsExact`).
* *Configuration.* Of the three ways a variable enters in namespace mode only the one by prefix
  discards an empty path; the global and the namespaces' maps blank it (`config.ts:577`;
  excepted by `EmptyDiscarded`). `get()` looks in `apcore` only when nothing stands under the
  first segment of the key, so that a section which is set or mounted beside it hides all that
  `apcore` declares of it, registered namespace or not (`config.ts:1218`); the exception in
  `NotSilentlyInvalid`. `reload()` adopts before it validates and keeps what it refused, against
  its doc comment (`config.ts:1781`): `NotSilentlyInvalid` speaks of calls that came back without
  an error only.
* *Runtime control.* `update_config` looks the restriction and the constraint up by the name it
  is given, so that a value arrives in a constrained key by its section, or by its name spelled
  from `apcore`, and is persisted as well (`control.ts:218`); `ConstraintsKept` leaves out the keys
  that were reached that way.
* *Call path.* `remove()` during a call leaves a middleware without its `after()`,
  against MW-001 (`pipeline.ts:223`). RetryMiddleware hands the next attempt the inputs the
  failed one had rewritten, without the approval token;
  two calls on one Context share a counter. A call let in while the circuit was CLOSED that
  ends while it is HALF_OPEN decides in place of the probe.
* *Pipeline.* `insertAfter` and `insertBefore` keep a step they refused; `remove` and
  `replace` do not validate again; an edit at or before the running index repeats or passes
  by a step; the steps made from a configuration drop `requires`, `provides` and the marker
  of a gate; `validatePipelineLimits` reads `timeout_ms` but not `timeoutMs`; a step that
  throws in a dry run is told to no hook; an `afterStep` that throws ends the run raw; a body
  whose timer fired goes on.
* *Accessors.* `governanceState()` does not read the policy's rules, so a rule that waives an
  approval is not reported (`NeverOverstates` leaves it out). `_match` breaks a tie between
  rules without specificity by restrictiveness, not by order. `callWithTrace` leaves its
  providers bound in the strategy it was given.
* *Stream.* The merge shares nested objects with chunks that were already handed out; a
  consumer that leaves early skips the output steps; a deadline is looked at between
  chunks only; of a module without a `stream()` a middleware may be told `after()` and then
  `onError()`; the sub-strategy behind the stream is constructed outside the `try` and may throw raw after
  chunks were delivered.
* *Watchers.* Concurrent siblings take each other's entries; a cancelled or answered call
  leaves its entry behind, so that the enclosing call reports the wrong one and its own span
  is never exported; an `after()` that throws has the inner watchers told twice.
  `ObserversHonest` says what is left to rely on. The latency alert never clears.
* *Usage.* A record at exactly the cutoff is counted in both periods of a trend. The padding
  drops the oldest hour of a 24h period, which the period has cut into.
* *Tokens.* Without `AbortSignal.any` the signal of a disposed token no longer follows its
  parent's (`cancel.ts:64`); with it, it does.
* *Emitter and its circuit.* `_pending` can outgrow `maxPending` (`emitter.ts:219`); of two
  concurrent flushes the second may return while the first still waits. A wrapped subscriber's
  failures are swallowed by the wrapper, so the emitter neither retries nor dead-letters them.
* *Spans, errors.* Spans that end after `shutdown()` are queued and never exported; an exporter
  that throws loses the rest of its batch uncounted. An error can be listed twice after an
  eviction.
* *Registry.* Without `Exclusive`, stage 8 of `discover()` publishes over a module that was
  registered, or is loading, since stage 7 looked; the module it replaces never has its
  `onUnload`. A holder that outlives a forced unload releases the next module of that id
  (`registry.ts:2090`). `registerInternal` ignores the promise of an asynchronous `onLoad`
  (`registry.ts:1953`). The executor never calls `acquire()`, so drains do not wait for its
  calls. A bulk reload stops restoring at the first `onLoad` that throws (`control.ts:479`).
  The watcher takes the first id that ends like the file's name.
* *Order.* An error of a cycle may name one over optional edges that were passed by. A
  constraint that cannot be read throws out of the whole resolution, also when the dependency is
  optional, and only if every constraint before it in its list holds.
* *Configuration.* A mount may be overridden or lost by a reload; `mount()` overrides the
  environment until the next reload; what `allow_unknown` drops comes back with a reload's
  environment, and stays declared until then (`Dropped`). The defaults of a registered
  namespace stand beside `apcore`, where `get()` stops although `apcore` declares the key
  (`Seeded`). `set()` and `mount()` are checked by no call. In namespace mode constraints are
  checked below `apcore` only, and the check of the OTLP endpoint reads through `get()`, which
  stops at the registered `observability` namespace and does not see one below `apcore`.
* *Control.* A failed `update_config` leaves its key declared. In namespace mode restored
  `sys_modules.*` keys do not reach the flags of `registerSysModules`, and an override of
  `control.enabled` can lock the control plane out at the next restart. A toggle whose audit
  fails is not persisted. `FileOverridesStore.load` of an unreadable file returns nothing, and
  the next save drops all others; at a restart it restores nothing, as does a store whose
  `load()` throws. A configuration key that starts with `toggle.` is taken for
  a toggle.
* *Rules.* An invalid `approval` passes the constructor and `addRule()`; a list with a number is
  judged otherwise in YAML than the comment near `acl.ts:803` says; a rule list edited while an
  asynchronous evaluation is suspended lets it mark a rule under an index that is another's by
  then (`acl.ts:2192`).

## 8. What is not modelled

`PROJECT.json` gives the reason for every component. In short: schemas, bindings,
decorators, metadata and scanning are pure translations or file access, whose results are
inputs of the models; subscribers, exporters, logs and reports are input and output; errors,
versions and tables have no behaviour; reference resolution and the call chain guard are pure
functions over documents and lists of any shape. Of the modelled components, left out are the
describing queries of the registry, the YAML and JSON text of configurations and ACL files,
the coercion of values, all wording, and the length of backoffs.

Every hazard listed in `PROJECT.json` has a property. Three points of 7 are hazards without
one: deliveries beyond `maxPending` that wait for a slow dead-letter listener, the bulk reload
that stops restoring, and `release()` by id.

## 9. Plan

Of the models: `SubscriberCircuit` composed with `EventEmitter`; several requests in
Governance; the latency alert; reference resolution and the call chain as operators
against a reference definition.
