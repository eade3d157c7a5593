------------------------------ MODULE Pipeline ------------------------------
(***************************************************************************)
(* PipelineEngine.run of src/pipeline.ts over a strategy that was built     *)
(* from a configuration and that operators go on editing: the engine reads  *)
(* the live list, so an edit between two of its awaits moves the steps      *)
(* under its index.                                                         *)
(*                                                                          *)
(* One run.  The engine awaits every hook of a StepMiddleware and every     *)
(* body; from one await to the next it moves on in phase "scan", during     *)
(* which nothing else happens.  Of ctx only what the control reads is kept; *)
(* a body decides freely how it ends.                                       *)
(***************************************************************************)
EXTENDS PipelineConfig

CONSTANTS
  Sections,     \* the pipeline sections a deployment may configure
  NewSteps,     \* the steps an operator may insert or put in
  StepMws,      \* the number of registered StepMiddlewares
  MaxRewrites      \* bound: rewrites of the strategy

IsASection(s) ==
  /\ s.remove \in Seq(Range(s.remove)) /\ s.configure \in Seq(Range(s.configure))
  /\ s.steps \in Seq(Range(s.steps))
  /\ \A i \in DOMAIN s.steps : s.steps[i] = [k \in DOMAIN s.steps[i] |-> s.steps[i][k]]

ASSUME PipelineAssumption ==
  /\ \A s \in Sections : IsASection(s)
  /\ \A s \in NewSteps : IsAStep(s)
  /\ StepMws \in Nat /\ MaxRewrites \in Nat

VARIABLES
  steps,        \* ExecutionStrategy._steps, read live by the engine
  run,          \* the state of the run
  rewrites,        \* bound: rewrites so far
  unchecked     \* history: the list has changed without a passed validation

pipelineVars == <<steps, run, rewrites, unchecked>>

NoStep == Standard[1]

NoRun ==
  [phase |-> "idle", idx |-> 1, cur |-> NoStep,
   dry |-> FALSE,      \* ctx.dryRun
   hook |-> 0,         \* the hook that is awaited
   entered |-> 0,      \* executedStepMws: the first so many middlewares
   result |-> "continue", target |-> "",
   trace |-> <<>>,     \* trace.steps: the names, and how the gates went
   aborts |-> FALSE,   \* a step of the trace ended with action abort
   failed |-> {},      \* failedProvides
   outcome |-> "none",
   open |-> {},        \* history: middlewares entered and told nothing since
   provided |-> {},    \* history: what completed steps of a dry run provided
   shifted |-> FALSE]  \* history: an edit moved what the run has passed

PipelineInit ==
  /\ steps = <<>> /\ run = NoRun /\ rewrites = 0 /\ unchecked = FALSE

TraceEntry(s, how) ==
  [name |-> s.name, gate |-> s.gate # "no", how |-> IF s.gate = "no" THEN "" ELSE how]
Traced(r, how) ==
  [r EXCEPT !.trace = Append(@, TraceEntry(r.cur, how)),
            !.aborts = @ \/ how \in {"abort", "threw"}]
\* What the engine holds of a step is gone with it.
Leaves(r)     == [r EXCEPT !.phase = "scan", !.cur = NoStep, !.hook = 0,
                           !.entered = 0, !.result = "continue", !.target = ""]
Onwards(r)    == [Leaves(r) EXCEPT !.idx = @ + 1]
RunStops(r, how)  == [Leaves(r) EXCEPT !.phase = "done", !.outcome = how]
Told(r)       == [r EXCEPT !.open = @ \ {r.hook}, !.hook = IF @ = 0 THEN 0 ELSE @ - 1]
Running       == run.phase \notin {"idle", "done"}
Keeps         == UNCHANGED <<steps, rewrites, unchecked>>

----------------------------------------------------------------------------
(* The deployment and the caller *)

\* Either builder makes the strategy; one that throws makes none.
BuildStrategy ==
  /\ steps = <<>>
  /\ \E s \in Sections : \E b \in {BuildSync(s), BuildAsync(s)} :
       b.error = "none" /\ steps' = b.list
  /\ UNCHANGED <<run, rewrites, unchecked>>

StartRun ==
  /\ run.phase = "idle" /\ steps # <<>>
  /\ \E dry \in BOOLEAN : run' = [run EXCEPT !.phase = "scan", !.dry = dry]
  /\ Keeps

----------------------------------------------------------------------------
(* One step of the run, up to its first await *)

RunEnds ==
  /\ run.phase = "scan" /\ run.idx > Len(steps)
  /\ run' = RunStops(run, IF run.aborts THEN "failedChecks" ELSE "success")
  /\ Keeps

\* Why the engine passes a step by, or "".
SkipReason(s) ==
  IF s.matchModules = "miss" THEN "no_match"
  ELSE IF run.dry /\ ~s.pure THEN "dry_run"
  ELSE IF run.dry /\ s.requires \cap run.failed # {} THEN "missing_dependency"
  ELSE ""

SkipStep ==
  /\ run.phase = "scan" /\ run.idx <= Len(steps)
  /\ LET s == steps[run.idx] IN
       /\ SkipReason(s) # ""
       /\ run' = Onwards(Traced([run EXCEPT !.cur = s, !.open = {}, !.result = "continue",
                    !.failed = IF run.dry THEN @ \cup s.provides ELSE @],
                    SkipReason(s)))
  /\ Keeps

EnterStep ==
  /\ run.phase = "scan" /\ run.idx <= Len(steps)
  /\ SkipReason(steps[run.idx]) = ""
  /\ run' = [run EXCEPT !.cur = steps[run.idx], !.entered = 0, !.open = {},
                        !.hook = 1, !.result = "continue",
                        !.phase = IF StepMws = 0 THEN "body" ELSE "before"]
  /\ Keeps

----------------------------------------------------------------------------
(* beforeStep *)

\* The hook counts as entered before it is called, so one that throws is
\* among those told of it.
BeforeStep ==
  /\ run.phase = "before"
  /\ \E throws \in BOOLEAN :
       run' = [run EXCEPT !.entered = run.hook, !.open = @ \cup {run.hook},
                 !.hook  = IF throws THEN @ ELSE @ + 1,
                 !.phase = CASE throws -> "cleanup"
                             [] ~throws /\ run.hook = StepMws -> "body"
                             [] OTHER -> "before"]
  /\ Keeps

MoreToTell(r) == r.hook > 1

\* _runStepCleanupHooks: every entered middleware hears of the failure, what
\* it returns or throws is discarded, and the chain error ends the run.
CleanupStep ==
  /\ run.phase = "cleanup"
  /\ run' = IF MoreToTell(run) THEN Told(run)
                               ELSE RunStops(Traced(Told(run), "chain"), "chainError")
  /\ Keeps

----------------------------------------------------------------------------
(* The body *)

BodyReturns ==
  /\ run.phase = "body"
  /\ \E how \in {"continue", "skip_to", "abort", "unknown"} :
     \E target \in {""} \cup (IF how = "skip_to" THEN {steps[i].name : i \in DOMAIN steps}
                                                 ELSE {}) :
       run' = [run EXCEPT !.phase = "after", !.hook = run.entered,
                          !.result = how, !.target = target]
  /\ Keeps

\* It throws, or its timer does.  A dry run records that and tells no hook.
BodyThrows ==
  /\ run.phase = "body"
  /\ run' = IF run.dry
       THEN [Onwards(Traced([run EXCEPT !.failed = @ \cup run.cur.provides], "threw"))
               EXCEPT !.result = "threw"]
       ELSE [run EXCEPT !.phase = "error", !.hook = run.entered]
  /\ Keeps

----------------------------------------------------------------------------
(* onStepError, first recovery wins *)

Unrecovered(r) ==
  IF r.cur.ignoreErrors THEN Onwards(Traced(r, "ignored"))
                      ELSE RunStops(Traced(r, "error"), "stepError")

\* A handler that throws counts as one that returned null.
StepErrorPasses ==
  /\ run.phase = "error"
  /\ LET told == Told(run) IN
       run' = IF run.hook > 1 THEN told ELSE Unrecovered(told)
  /\ Keeps

\* The recovery becomes the output, and afterStep closes every middleware.
StepErrorRecovers ==
  /\ run.phase = "error" /\ run.hook > 0
  /\ run' = Traced([run EXCEPT !.phase = "after", !.hook = run.entered,
                               !.result = "recovered"], "recovered")
  /\ Keeps

----------------------------------------------------------------------------
(* afterStep, then the step's action *)

Completed(r) == [r EXCEPT !.provided = IF r.dry THEN @ \cup r.cur.provides ELSE @]

\* mutant: skip_to resumes right after the step it was asked to go to.
JumpsTooFar(r) ==
  [Leaves(r) EXCEPT !.idx = StepIndex(steps, r.target) + 1]

\* skip_to looks the target up in the live strategy; the steps in between
\* are marked in the trace.
JumpTo(r) ==
  LET to == StepIndex(steps, r.target) IN
  [Leaves(r) EXCEPT !.idx = to,
            !.trace = @ \o [k \in 1..(to - r.idx - 1) |->
                               TraceEntry(steps[r.idx + k], "jumped")]]

\* What run() does once the hooks of a step are through; a runUntil
\* predicate, which any caller may pass, may end it after a continue.
SettlesStep(r) ==
  LET done == Completed(Traced(r, "continue")) IN
  IF r.result = "recovered" THEN {Onwards(r)}
  ELSE IF r.dry /\ r.result = "abort"
    THEN {Onwards(Traced([r EXCEPT !.failed = @ \cup r.cur.provides], "abort"))}
  ELSE IF r.dry
    THEN {Onwards(Traced(Completed([r EXCEPT !.failed = @ \ r.cur.provides]), "continue"))}
  ELSE IF r.result = "continue" THEN {Onwards(done), RunStops(done, "success")}
  ELSE IF r.result = "abort" THEN {RunStops(Traced(r, "abort"), "aborted")}
  ELSE IF r.result = "skip_to" /\ Has(steps, r.target) /\ StepIndex(steps, r.target) > r.idx
    THEN {JumpTo(done)}
  ELSE {RunStops(done, IF r.result = "skip_to" THEN "noTarget" ELSE "unknownAction")}

\* An afterStep that throws ends the run with its own error, untraced.
AfterStep ==
  /\ run.phase = "after"
  /\ \/ run.hook > 1 /\ run' = Told(run)
     \/ run.hook <= 1 /\ run' \in SettlesStep(Told(run))
     \/ run.hook > 0 /\ run' = RunStops(run, "hookError")
  /\ Keeps

----------------------------------------------------------------------------
(* Operators edit the strategy *)

Upto(list, n) == SubSeq(list, 1, IF n > Len(list) THEN Len(list) ELSE n)

EditStrategy ==
  /\ steps # <<>> /\ rewrites < MaxRewrites /\ run.phase \notin {"scan", "done"}
  /\ \E r \in {Inserted(steps, steps[i].name, s, o) :
                   i \in DOMAIN steps, s \in NewSteps, o \in {0, 1}}
              \cup {Removed(steps, steps[i].name) : i \in DOMAIN steps}
              \cup {Replaced(steps, steps[i].name, s) : i \in DOMAIN steps, s \in NewSteps} :
       /\ r.list # steps
       /\ steps' = r.list
       /\ unchecked' = (unchecked \/ r.error # "none" \/ Len(r.list) <= Len(steps))
       /\ run' = [run EXCEPT !.shifted =
                    @ \/ (Running /\ Upto(r.list, run.idx) # Upto(steps, run.idx))]
  /\ rewrites' = rewrites + 1

----------------------------------------------------------------------------

PipelineNext ==
  \/ BuildStrategy \/ StartRun \/ RunEnds \/ SkipStep \/ EnterStep \/ BeforeStep
  \/ CleanupStep \/ BodyReturns \/ BodyThrows \/ StepErrorPasses
  \/ StepErrorRecovers \/ AfterStep \/ EditStrategy

PipelineSpec == PipelineInit /\ [][PipelineNext]_pipelineVars

----------------------------------------------------------------------------
(* Properties *)

\* The trace names the steps of the strategy in their order, one entry per
\* step and none left out, whatever the run skipped, jumped over, recovered
\* or ignored, as long as no edit moved what it had already passed.
TraceExact ==
  Running /\ ~run.shifted =>
    LET passed == run.idx - (IF run.phase = "after" /\ run.result = "recovered" THEN 0 ELSE 1)
    IN [i \in DOMAIN run.trace |-> run.trace[i].name] = Names(SubSeq(steps, 1, passed))

\* A real run never gets past a governance gate that did not complete, was
\* not recovered by a step middleware and was not jumped over by a step: a
\* failed beforeStep, an ignored error or a match filter never lets it by,
\* through whichever door the gate entered the strategy.
GatesFaced ==
  \A i \in DOMAIN run.trace :
    ~run.dry /\ run.trace[i].gate =>
      \/ run.trace[i].how \in {"continue", "recovered", "jumped"}
      \/ i = Len(run.trace) /\ run.phase = "done"

StepsAccounted == TraceExact /\ GatesFaced

\* Before the engine moves on or ends, every middleware that entered a step
\* has heard how the step went.  Two ways out leave the rest open: a dry run
\* whose step throws, and an afterStep that throws.
OnionCloses ==
  /\ run.phase \in {"scan", "done"} =>
       \/ run.open = {}
       \/ run.dry /\ (run.result = "threw" \/ run.outcome = "failedChecks")
       \/ run.outcome = "hookError"
  /\ run.phase = "before" => run.open = 1..run.entered

\* A dry run checks a step only on what earlier steps of this run really
\* provided, while the strategy is one that its validation accepted.
DryRunSound ==
  run.dry /\ run.phase \in {"before", "body", "after"} /\ ~run.shifted /\ ~unchecked =>
    run.cur.requires \subseteq SeedProvides \cup run.provided

NoHandler(s) == \A i \in DOMAIN s.steps : s.steps[i].handler = ""
Buildable(a, b) ==
  (a.error = "none" <=> b.error = "none") /\ (a.error = "none" => a.list = b.list)
BuildersAgree == \A s \in Sections : NoHandler(s) => Buildable(BuildSync(s), BuildAsync(s))

\* Validation at construction and on every insertion keeps the order of
\* dependencies: only a removal, a replacement or a refused insertion, which
\* the strategy keeps, breaks it.  Names stay unique, and no door lets a
\* weakened gate in.  The two builders accept the same sections and build
\* the same strategies from those that import nothing.
StrategySound ==
  /\ IsInjective(Names(steps))
  /\ ~unchecked /\ steps # <<>> => DependenciesMet(steps)
  /\ \A i \in DOMAIN steps : ~GateWeakened(steps[i])
  /\ BuildersAgree

\* A run does what the strategy says, tells every middleware it told of the
\* step how the step went, and dry-runs what it can.
RunSound == StepsAccounted /\ OnionCloses /\ DryRunSound
=============================================================================
