------------------------------ MODULE Executor ------------------------------
(***************************************************************************)
(* Executor.call of src/executor.ts over the built-in steps of              *)
(* src/builtin-steps.ts: one call() per member of Calls, through its gates, *)
(* the before() chain, the module body with its deadline and cancellation,  *)
(* the after() chain, and on a failure the onError() chain, a recovery or a *)
(* retry that runs the whole pipeline again.                                *)
(*                                                                          *)
(* A step without an await is one action; a step that awaits others (the    *)
(* approval handler, a middleware hook, the module) is one action per       *)
(* resumption, with the other calls, the timers and the operator's setters  *)
(* in between.  Inputs are kept as which approval token they hold, and  *)
(* how often a before() has rewritten them; an output, as having one.       *)
(* A body that outlives its deadline is left running and no longer looked   *)
(* at, as in the code.                                                      *)
(***************************************************************************)
EXTENDS Integers, Sequences, FiniteSets

CONSTANTS
  Calls,             \* concurrent call() invocations of one module
  Mws,               \* all middlewares
  Chain,             \* those registered at the start, by priority
  Retriers,          \* the RetryMiddleware instances among them
  MaxRetries,        \* RetryConfig.maxRetries
  Strategy,          \* the steps of the executor's strategy, by name
  RequiresApproval,  \* the governance union of the module's annotations
  SharedContext,     \* TRUE: the calls were given one Context
  Environments,      \* what may happen around the calls: records of
                     \*   faults    the places other than the module that may throw
                     \*   changes   what the caller, the hooks and the operator do
                     \*   attempts  bound: attempts of one call
  RewriteBound       \* bound: rewrites of the inputs by before()

GateSteps == {"module_lookup", "acl_check", "approval_gate"}
StepNames == GateSteps \cup
  {"context_creation", "call_chain_guard", "middleware_before",
   "input_validation", "execute", "output_validation", "middleware_after",
   "return_result"}

ASSUME ExecutorAssumption ==
  /\ Chain \in Seq(Mws) /\ Retriers \subseteq Mws
  /\ MaxRetries \in Nat /\ RewriteBound \in Nat
  /\ \A e \in Environments : e.attempts \in Nat \ {0}
  /\ Strategy \in Seq(StepNames)
  /\ Strategy # <<>> /\ Strategy[Len(Strategy)] = "return_result"
  /\ RequiresApproval \in BOOLEAN /\ SharedContext \in BOOLEAN

VARIABLES
  call,      \* [Calls -> what the call and its PipelineContext hold]
  counter,   \* the retry counters in context.data; history: how often each
             \*   lost retries to an after()
  mws,       \* MiddlewareManager._middlewares
  enabled,   \* the module's ToggleState
  acl,       \* an ACL is set on the gate
  handler,   \* an approval handler is set on the gate
  policy,    \* its ExecutionPolicy: "none", "lenient" or "strict"
  env        \* the environment of this behaviour

settings == <<enabled, acl, handler, policy, env>>
vars == <<call, counter, mws, settings>>

----------------------------------------------------------------------------
(* Vocabulary *)

Errors == {"cancelled", "timeout", "retryable", "fatal", "refused"}
RetryableErrors == {"cancelled", "timeout", "retryable"}
\* No _approval_token in the inputs, a string, or something else.
TokenKinds == {"none", "string", "other"}
Phases == {"idle", "step", "asking", "before", "racing", "after", "caught",
           "onError", "sleeping", "done"}

\* The context whose data holds the counter of a call.
ContextOf(c) == IF SharedContext THEN "shared" ELSE c
Contexts == {ContextOf(c) : c \in Calls}

Fresh ==
  [phase |-> "idle", step |-> 1, pos |-> 0,
   inputs |-> [token |-> "none", rewrites |-> 0],
   chain |-> <<>>,       \* the snapshot a hook chain walks over
   executed |-> <<>>,    \* executedMiddlewares
   error |-> "fatal", viaHook |-> FALSE,
   cancelled |-> FALSE,  \* the caller's token
   aborted |-> FALSE,    \* the token derived for this attempt
   timedOut |-> FALSE,   \* _awaitExecution's flag
   raced |-> "none",     \* how the race between body and interruption settled
   attempts |-> 0, result |-> "none",
   asks |-> FALSE,       \* aclApprovalRequired
   cleared |-> {},       \* history: the gates this attempt has passed
   approval |-> "none",  \* history: how it passed the approval gate
   open |-> {}]          \* history: middlewares with a before() not closed

Step(c) == Strategy[call[c].step]
At(c, s) == call[c].phase = "step" /\ Step(c) = s
Put(c, r) == call' = [call EXCEPT ![c] = r]

Continue(r)   == [r EXCEPT !.phase = "step", !.step = @ + 1]
Clear(r, g)   == [Continue(r) EXCEPT !.cleared = @ \cup {g}]
Throw(r, e)   == [r EXCEPT !.phase = "caught", !.error = e]
End(r, how)   == [r EXCEPT !.phase = "done", !.result = how]

Init ==
  /\ call = [c \in Calls |-> Fresh]
  /\ counter = [x \in Contexts |-> [count |-> 0, lost |-> 0]]
  /\ mws = Chain
  /\ enabled = TRUE
  /\ acl \in BOOLEAN /\ handler \in BOOLEAN
  /\ policy \in {"none", "lenient", "strict"}
  /\ env \in Environments

----------------------------------------------------------------------------
(* The caller *)

Call(c) ==
  /\ call[c].phase = "idle"
  /\ \E token \in TokenKinds :
       Put(c, [call[c] EXCEPT !.phase = "step", !.attempts = 1,
                              !.inputs.token = token])
  /\ UNCHANGED <<counter, mws, settings>>

\* The caller's token aborts the derived one.  Of the abort listeners the
\* body's own may run first: it can settle before onAbort rejects the race.
CallerCancels(c) ==
  /\ "cancel" \in env.changes
  /\ call[c].phase # "done" /\ ~call[c].cancelled
  /\ \E how \in {"cancelled", "fatal", "output"} :
       Put(c, [call[c] EXCEPT !.cancelled = TRUE, !.aborted = TRUE,
                 !.raced = IF call[c].phase = "racing" /\ @ = "none"
                           THEN how ELSE @])
  /\ UNCHANGED <<counter, mws, settings>>

----------------------------------------------------------------------------
(* Steps up to the middleware chain *)

\* A StepMiddleware.beforeStep hook throws: the step body does not run and
\* the engine throws a MiddlewareChainError.
HookFault(c) ==
  /\ call[c].phase = "step"
  /\ \E e \in Errors :
       /\ \/ e = "fatal" /\ "hook" \in env.faults
          \/ e = "cancelled" /\ "hookCancelled" \in env.faults /\ call[c].aborted
       /\ Put(c, [Throw(call[c], e) EXCEPT !.viaHook = TRUE])
  /\ UNCHANGED <<counter, mws, settings>>

\* The derived context's token is a child of the caller's.
ContextCreation(c) ==
  /\ At(c, "context_creation")
  /\ Put(c, [Continue(call[c]) EXCEPT !.aborted = call[c].cancelled])
  /\ UNCHANGED <<counter, mws, settings>>

CallChainGuard(c) ==
  /\ At(c, "call_chain_guard")
  /\ IF call[c].aborted
       THEN Put(c, Throw(call[c], "cancelled"))
       ELSE \/ Put(c, Continue(call[c]))
            \/ "depth" \in env.faults /\ Put(c, Throw(call[c], "refused"))
  /\ UNCHANGED <<counter, mws, settings>>

ModuleLookup(c) ==
  /\ At(c, "module_lookup")
  /\ IF enabled
       THEN Put(c, Clear(call[c], "module_lookup"))
       ELSE Put(c, Throw(call[c], "refused"))
  /\ UNCHANGED <<counter, mws, settings>>

\* The ACL allows, allows on condition of an approval, or denies.
AclCheck(c) ==
  /\ At(c, "acl_check")
  /\ IF ~acl
       THEN Put(c, Clear(call[c], "acl_check"))
       ELSE \/ \E asks \in BOOLEAN :
                 Put(c, [Clear(call[c], "acl_check") EXCEPT !.asks = asks])
            \/ Put(c, Throw(call[c], "refused"))
  /\ UNCHANGED <<counter, mws, settings>>

\* Whether approval is needed, given what the policy decides for the module.
Needs(c, p) ==
  (IF policy = "none" THEN RequiresApproval ELSE p) \/ call[c].asks

\* A token that is no string is refused before anything else, and stays
\* where it is; another one is taken out of the inputs.
ApprovalGate(c) ==
  /\ At(c, "approval_gate")
  /\ call[c].inputs.token # "other"
  /\ \E p \in BOOLEAN :
       LET r == [call[c] EXCEPT !.inputs.token = "none"] IN
       \/ /\ ~Needs(c, p)
          /\ Put(c, [Clear(r, "approval_gate") EXCEPT !.approval = "unneeded"])
       \/ /\ Needs(c, p) /\ handler
          /\ Put(c, [r EXCEPT !.phase = "asking"])
       \/ /\ Needs(c, p) /\ ~handler /\ policy = "strict"
          /\ Put(c, Throw(r, "refused"))
       \/ /\ Needs(c, p) /\ ~handler /\ policy # "strict"
          /\ Put(c, [Clear(r, "approval_gate") EXCEPT !.approval = "skipped"])
  /\ UNCHANGED <<counter, mws, settings>>

BadToken(c) ==
  /\ At(c, "approval_gate") /\ call[c].inputs.token = "other"
  /\ Put(c, Throw(call[c], "refused"))
  /\ UNCHANGED <<counter, mws, settings>>

\* The handler's requestApproval or checkApproval resolves.
ApprovalAnswer(c) ==
  /\ call[c].phase = "asking"
  /\ \/ Put(c, [Clear(call[c], "approval_gate") EXCEPT !.approval = "approved"])
     \/ Put(c, Throw(call[c], "refused"))
  /\ UNCHANGED <<counter, mws, settings>>

----------------------------------------------------------------------------
(* The before() chain: MiddlewareManager.executeBefore *)

BeforeStarts(c) ==
  /\ At(c, "middleware_before")
  /\ Put(c, [call[c] EXCEPT !.phase = "before", !.chain = mws, !.pos = 1])
  /\ UNCHANGED <<counter, mws, settings>>

\* The hook at pos: it counts as executed even when it throws.
BeforeHook(c) ==
  /\ call[c].phase = "before" /\ call[c].pos <= Len(call[c].chain)
  /\ LET m == call[c].chain[call[c].pos]
         r == [call[c] EXCEPT !.open = @ \cup {m}] IN
     \/ Put(c, [r EXCEPT !.pos = @ + 1])
     \/ /\ m \notin Retriers /\ call[c].inputs.rewrites < RewriteBound
        /\ Put(c, [r EXCEPT !.pos = @ + 1, !.inputs.rewrites = @ + 1])
     \/ /\ m \notin Retriers /\ "before" \in env.faults
        /\ \E e \in {"retryable", "cancelled"} :
             Put(c, [Throw(r, e) EXCEPT
                       !.executed = SubSeq(call[c].chain, 1, call[c].pos)])
  /\ UNCHANGED <<counter, mws, settings>>

BeforeEnds(c) ==
  /\ call[c].phase = "before" /\ call[c].pos > Len(call[c].chain)
  /\ Put(c, [Continue(call[c]) EXCEPT !.executed = call[c].chain])
  /\ UNCHANGED <<counter, mws, settings>>

InputValidation(c) ==
  /\ At(c, "input_validation")
  /\ \/ Put(c, Continue(call[c]))
     \/ "input" \in env.faults /\ Put(c, Throw(call[c], "fatal"))
  /\ UNCHANGED <<counter, mws, settings>>

----------------------------------------------------------------------------
(* The module body: BuiltinExecute *)

\* The token and the global deadline are checked, then the body starts.
Execute(c) ==
  /\ At(c, "execute")
  /\ LET r == [call[c] EXCEPT !.phase = "racing", !.raced = "none",
                              !.timedOut = FALSE] IN
     \/ call[c].aborted /\ Put(c, Throw(call[c], "cancelled"))
     \/ /\ ~call[c].aborted
        /\ \/ Put(c, [Throw(call[c], "timeout") EXCEPT !.aborted = TRUE])
           \/ Put(c, r)
  /\ UNCHANGED <<counter, mws, settings>>

BodySettles(c) ==
  /\ call[c].phase = "racing" /\ call[c].raced = "none"
  /\ \E how \in {"output", "retryable", "fatal", "cancelled"} :
       Put(c, [call[c] EXCEPT !.raced = how])
  /\ UNCHANGED <<counter, mws, settings>>

\* The timer cancels the token before it rejects the race, so a body that
\* listens may settle first: with its output, its own error, or a
\* cancellation.
FirstAttemptTimed(c) ==                                            \* mutant
  call[c].phase = "racing" /\ call[c].raced = "none" /\ call[c].attempts = 1
TimerArmed(c) == call[c].phase = "racing" /\ call[c].raced = "none"

TimerFires(c) ==
  /\ TimerArmed(c)
  /\ \E how \in {"timeout", "output", "fatal", "cancelled"} :
       Put(c, [call[c] EXCEPT !.timedOut = TRUE, !.aborted = TRUE,
                              !.raced = how])
  /\ UNCHANGED <<counter, mws, settings>>

\* What the await of the race leaves with: timedOut owns the error.
RaceWins(c) == call[c].raced                                       \* mutant
Outcome(c) == IF call[c].timedOut THEN "timeout" ELSE call[c].raced

ExecuteResumes(c) ==
  /\ call[c].phase = "racing" /\ call[c].raced # "none"
  /\ IF Outcome(c) = "output"
       THEN Put(c, Continue(call[c]))
       ELSE Put(c, Throw(call[c], Outcome(c)))
  /\ UNCHANGED <<counter, mws, settings>>

OutputValidation(c) ==
  /\ At(c, "output_validation")
  /\ \/ Put(c, Continue(call[c]))
     \/ "output" \in env.faults /\ Put(c, Throw(call[c], "fatal"))
  /\ UNCHANGED <<counter, mws, settings>>

----------------------------------------------------------------------------
(* The after() chain: MiddlewareManager.executeAfter *)

SkipsInnermost(c) == Len(mws) - 1                                  \* mutant
Innermost(c) == Len(mws)

AfterStarts(c) ==
  /\ At(c, "middleware_after")
  /\ Put(c, [call[c] EXCEPT !.phase = "after", !.chain = mws,
                            !.pos = Innermost(c)])
  /\ UNCHANGED <<counter, mws, settings>>

\* In reverse order; the first that throws ends the chain.  That of a
\* RetryMiddleware deletes its counter.
AfterHook(c) ==
  /\ call[c].phase = "after" /\ call[c].pos > 0
  /\ LET m == call[c].chain[call[c].pos] IN
     /\ counter' = IF m \in Retriers /\ counter[ContextOf(c)].count > 0
                   THEN [counter EXCEPT ![ContextOf(c)] =
                           [count |-> 0, lost |-> @.lost + 1]]
                   ELSE counter
     /\ \/ Put(c, [call[c] EXCEPT !.pos = @ - 1, !.open = @ \ {m}])
        \/ /\ m \notin Retriers /\ "after" \in env.faults
           /\ Put(c, Throw(call[c], "retryable"))
  /\ UNCHANGED <<mws, settings>>

AfterEnds(c) ==
  /\ call[c].phase = "after" /\ call[c].pos = 0
  /\ Put(c, Continue(call[c]))
  /\ UNCHANGED <<counter, mws, settings>>

ReturnResult(c) ==
  /\ At(c, "return_result")
  /\ Put(c, End(call[c], "output"))
  /\ UNCHANGED <<counter, mws, settings>>

----------------------------------------------------------------------------
(* The catch of call(): onError, recovery, retry *)

\* A cancellation of the engine or of a step bypasses onError.  One inside
\* a MiddlewareChainError of the engine is not looked at until later.
Bypassed(c) == call[c].error = "cancelled" /\ ~call[c].viaHook

Caught(c) ==
  /\ call[c].phase = "caught"
  /\ IF Bypassed(c) \/ call[c].executed = <<>>
       THEN Put(c, End(call[c], call[c].error))
       ELSE Put(c, [call[c] EXCEPT !.phase = "onError",
                                   !.pos = Len(call[c].executed)])
  /\ UNCHANGED <<counter, mws, settings>>

Handling(c) == call[c].executed[call[c].pos]
RetryLeft(c) == counter[ContextOf(c)].count < MaxRetries

\* RetryMiddleware.onError, up to its sleep.
OnErrorRetries(c) ==
  /\ call[c].phase = "onError" /\ call[c].pos > 0
  /\ Handling(c) \in Retriers
  /\ call[c].error \in RetryableErrors /\ RetryLeft(c)
  /\ call[c].attempts < env.attempts
  /\ counter' = [counter EXCEPT ![ContextOf(c)].count = @ + 1]
  /\ Put(c, [call[c] EXCEPT !.phase = "sleeping", !.open = @ \ {Handling(c)}])
  /\ UNCHANGED <<mws, settings>>

\* A handler that returns null, or throws: the next one is asked.
NextHandler(c) == call[c].pos > 0

OnErrorPasses(c) ==
  /\ call[c].phase = "onError" /\ NextHandler(c)
  /\ ~ (/\ Handling(c) \in Retriers
        /\ call[c].error \in RetryableErrors /\ RetryLeft(c))
  /\ Put(c, [call[c] EXCEPT !.pos = @ - 1, !.open = @ \ {Handling(c)}])
  /\ UNCHANGED <<counter, mws, settings>>

\* A handler that returns an object: that is what call() returns.
OnErrorRecovers(c) ==
  /\ "recovery" \in env.changes
  /\ call[c].phase = "onError" /\ call[c].pos > 0
  /\ Handling(c) \notin Retriers
  /\ Put(c, End(call[c], "recovered"))
  /\ UNCHANGED <<counter, mws, settings>>

OnErrorEnds(c) ==
  /\ call[c].phase = "onError" /\ ~NextHandler(c)
  /\ Put(c, End(call[c], call[c].error))
  /\ UNCHANGED <<counter, mws, settings>>

\* The backoff ends: _resetPipeCtxForRetry, and the pipeline runs again from
\* its first step on the inputs the failed attempt ended with.
ResumeAtChain(r) ==                                                \* mutant
  [r EXCEPT !.phase = "step",
     !.step = CHOOSE i \in DOMAIN Strategy : Strategy[i] = "middleware_before",
     !.executed = <<>>, !.viaHook = FALSE, !.attempts = @ + 1,
     !.cleared = {}, !.approval = "none", !.open = {}]
Restart(r) ==
  [r EXCEPT !.phase = "step", !.step = 1, !.executed = <<>>,
            !.viaHook = FALSE, !.attempts = @ + 1,
            !.cleared = {}, !.approval = "none", !.open = {}]

Retry(c) ==
  /\ call[c].phase = "sleeping"
  /\ Put(c, Restart(call[c]))
  /\ UNCHANGED <<counter, mws, settings>>

----------------------------------------------------------------------------
(* The operator, while calls are in flight *)

\* Executor.remove(); Executor.use() of a middleware of lower priority.
RemoveMiddleware ==
  /\ "remove" \in env.changes
  /\ \E i \in DOMAIN mws :
       mws' = SubSeq(mws, 1, i - 1) \o SubSeq(mws, i + 1, Len(mws))
  /\ UNCHANGED <<call, counter, settings>>
Use ==
  /\ "use" \in env.changes
  /\ \E m \in Mws : m \notin {mws[i] : i \in DOMAIN mws}
                    /\ mws' = Append(mws, m)
  /\ UNCHANGED <<call, counter, settings>>

Toggle ==
  /\ "toggle" \in env.changes
  /\ enabled' = ~enabled
  /\ UNCHANGED <<call, counter, mws, acl, handler, policy, env>>

\* setAcl, setApprovalHandler and setPolicy reach the running gates.
SetProviders ==
  /\ "providers" \in env.changes
  /\ \/ acl' = TRUE /\ UNCHANGED <<handler, policy>>
     \/ handler' = TRUE /\ UNCHANGED <<acl, policy>>
     \/ policy' \in {"none", "lenient", "strict"} /\ UNCHANGED <<acl, handler>>
  /\ UNCHANGED <<call, counter, mws, enabled, env>>

----------------------------------------------------------------------------

\* What call() itself, its timers and the hooks it awaits do.  The module is
\* not among them: its body may never settle.
Progress(c) ==
  \/ HookFault(c) \/ ContextCreation(c) \/ CallChainGuard(c)
  \/ ModuleLookup(c) \/ AclCheck(c) \/ ApprovalGate(c) \/ BadToken(c)
  \/ ApprovalAnswer(c) \/ BeforeStarts(c) \/ BeforeHook(c) \/ BeforeEnds(c) \/ InputValidation(c)
  \/ Execute(c) \/ TimerFires(c) \/ ExecuteResumes(c)
  \/ OutputValidation(c) \/ AfterStarts(c) \/ AfterHook(c) \/ AfterEnds(c)
  \/ ReturnResult(c)
  \/ Caught(c) \/ OnErrorRetries(c) \/ OnErrorPasses(c) \/ OnErrorRecovers(c)
  \/ OnErrorEnds(c) \/ Retry(c)

Next ==
  \/ \E c \in Calls :
       Call(c) \/ CallerCancels(c) \/ BodySettles(c) \/ Progress(c)
  \/ RemoveMiddleware \/ Use \/ Toggle \/ SetProviders

Spec == Init /\ [][Next]_vars

\* Promise callbacks and timers run; hooks and the approval handler answer,
\* for nothing in the code bounds how long they take.
FairSpec == Spec /\ \A c \in Calls : WF_vars(Progress(c))

----------------------------------------------------------------------------
(* Properties *)

Inputs == [token : TokenKinds, rewrites : 0 .. RewriteBound]

TypeOK ==
  /\ call \in [Calls ->
       [phase : Phases, step : 1 .. Len(Strategy), pos : Nat,
        inputs : Inputs,
        chain : Seq(Mws), executed : Seq(Mws),
        error : Errors, viaHook : BOOLEAN,
        cancelled : BOOLEAN, aborted : BOOLEAN, timedOut : BOOLEAN,
        raced : Errors \cup {"none", "output"},
        attempts : 0 .. env.attempts,
        result : Errors \cup {"none", "output", "recovered"},
        asks : BOOLEAN, cleared : SUBSET GateSteps,
        approval : {"none", "unneeded", "skipped", "approved"},
        open : SUBSET Mws]]
  /\ counter \in [Contexts -> [count : Nat, lost : Nat]]
  /\ mws \in Seq(Mws)
  /\ enabled \in BOOLEAN /\ acl \in BOOLEAN /\ handler \in BOOLEAN
  /\ policy \in {"none", "lenient", "strict"} /\ env \in Environments

Gates == {Strategy[i] : i \in DOMAIN Strategy} \cap GateSteps

\* Every attempt faces every gate of the strategy: the module body never
\* runs on the clearance of an earlier attempt of the same call.
EveryAttemptGated ==
  \A c \in Calls : call[c].phase = "racing" => call[c].cleared = Gates

\* When the ACL allowed the call on condition of an approval, no policy
\* lifts that condition: the body runs on the handler's approval, or, with no
\* handler to ask, because the gate is documented to be skipped.
AclApprovalHonoured ==
  \A c \in Calls :
    (call[c].phase = "racing" /\ call[c].asks /\ "approval_gate" \in Gates)
      => call[c].approval \in {"approved", "skipped"}

\* D-20: a cancellation is offered to no onError handler, hence neither
\* recovered nor retried, from wherever in the pipeline it is thrown: unless
\* a step middleware's hook threw it, for the engine hands that one over
\* inside a MiddlewareChainError.
CancelBypassesOnError ==
  \A c \in Calls :
    (call[c].phase \in {"onError", "sleeping"} /\ call[c].error = "cancelled")
      => call[c].viaHook

\* D-133: once the timer has fired the deadline owns the outcome, whatever
\* the body or the abort listeners did first.
DeadlineOwnsError ==
  [][\A c \in Calls :
       (call[c].phase = "racing" /\ call[c].timedOut
          /\ call'[c].phase # "racing")
         => call'[c].phase = "caught" /\ call'[c].error = "timeout"]_vars

\* MW-001: a middleware that acquired state in before() is told how the last
\* attempt went, by after() or by onError(), however the call ends other than
\* by a cancellation that bypassed the handlers: unless the middleware was
\* removed while the call was on its way.
ClosesOnion ==
  \A c \in Calls :
    (call[c].phase = "done" /\ call[c].result # "recovered" /\ ~Bypassed(c))
      => call[c].open \cap {mws[i] : i \in DOMAIN mws} = {}

\* A call is retried maxRetries times, over all the calls that share its
\* Context, and that often again each time an after() of the RetryMiddleware
\* deleted the counter before a middleware further out failed the attempt.
RetryBudget ==
  \A c \in Calls :
    call[c].attempts <= MaxRetries * (counter[ContextOf(c)].lost + 1) + 1

\* Every call() settles, in as many attempts as the bound leaves it.
OutOfBound(c) ==
  /\ call[c].phase = "onError" /\ call[c].attempts = env.attempts
  /\ call[c].pos > 0 /\ Handling(c) \in Retriers /\ RetryLeft(c)
EveryCallEnds ==
  \A c \in Calls : call[c].phase # "idle" ~> call[c].phase = "done" \/ OutOfBound(c)

\* The body runs only through the gates of its own attempt.
GatesHold == TypeOK /\ EveryAttemptGated /\ AclApprovalHonoured

\* How call() deals with a failure: whom it tells, whom it does not, how often.
CatchSound == CancelBypassesOnError /\ ClosesOnion /\ RetryBudget
=============================================================================
