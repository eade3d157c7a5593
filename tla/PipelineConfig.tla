--------------------------- MODULE PipelineConfig ---------------------------
(***************************************************************************)
(* buildStrategyFromConfig and buildStrategyFromConfigSync of               *)
(* src/pipeline-config.ts: the pipeline section of a configuration file,    *)
(* applied to the standard strategy.  A section is a record                 *)
(*   remove     a sequence of step names,                                   *)
(*   configure  a sequence of [step, fields],                               *)
(*   steps      a sequence of [name, type, handler, after, before, fields], *)
(* where fields maps keys, as they are spelled in the file, to values, and  *)
(* "" stands for a key that is not there.                                   *)
(***************************************************************************)
EXTENDS Strategy

CONSTANTS
  Standard,    \* buildStandardStrategy(): a sequence of steps
  StepTypes,   \* the registered step types: [type -> step its factory makes]
  Handlers,    \* the handler paths that import: [path -> step]
  TimeoutMax,  \* validation.pipeline.timeout_ms_max, or -1: not set
  LongNames    \* the names over validation.pipeline.step_name_max_length, if it is set

\* The constructor takes the standard strategy, and what a removable step of
\* it provides no other step of it requires (builtin-steps.ts).
ASSUME PipelineConfigAssumption ==
  /\ IsAList(Standard) /\ Constructed(Standard).error = "none"
  /\ \A i, j \in DOMAIN Standard :
       Standard[i].removable => Standard[i].provides \cap Standard[j].requires = {}
  /\ \A type \in DOMAIN StepTypes : IsAStep(StepTypes[type])
  /\ \A path \in DOMAIN Handlers : IsAStep(Handlers[path])
  /\ TimeoutMax \in {-1} \cup Nat

----------------------------------------------------------------------------
(* Keys *)

\* CONFIGURABLE_STEP_FIELDS: canonical spellings and the aliases of this SDK.
ConfigurableFields ==
  [match_modules |-> "matchModules", ignore_errors |-> "ignoreErrors",
   pure |-> "pure", timeout_ms |-> "timeoutMs",
   matchModules |-> "matchModules", ignoreErrors |-> "ignoreErrors", timeoutMs |-> "timeoutMs"]

Unknown(fields) == DOMAIN fields \ DOMAIN ConfigurableFields

\* The fields under the names that Step spells them with.
Normalized(fields) ==
  [p \in {ConfigurableFields[k] : k \in DOMAIN fields} |->
     fields[CHOOSE k \in DOMAIN fields : ConfigurableFields[k] = p]]

\* The step with the fields written over its own.
Written(fields, step) ==
  [k \in DOMAIN fields \cup DOMAIN step |-> IF k \in DOMAIN fields THEN fields[k] ELSE step[k]]

\* validation.pipeline.timeout_ms_max is set and a limit.
Limited == TimeoutMax >= 0

\* validatePipelineLimits reads the canonical spelling only.
OverLimit(fields) ==
  /\ Limited /\ "timeout_ms" \in DOMAIN fields
  /\ fields["timeout_ms"] > TimeoutMax

LimitsExceeded(section) ==
  \/ \E i \in DOMAIN section.configure : OverLimit(section.configure[i].fields)
  \/ \E i \in DOMAIN section.steps :
       section.steps[i].name \in LongNames \/ OverLimit(section.steps[i].fields)

----------------------------------------------------------------------------
(* Steps of the file *)

\* ConfiguredStep copies name, description, removable and replaceable and the
\* four configurable fields of the step it wraps: the wrapper declares neither
\* requires nor provides, and carries no gate marker.
ConfiguredStep(inner, entry) ==
  Written(Normalized(entry.fields),
    Written([name |-> IF entry.name = "" THEN inner.name ELSE entry.name,
             requires |-> {}, provides |-> {}, gate |-> "no"], inner))

\* registerStepType() and _importStep(): what there is to make a step with.
TypeRegistered(type) == type \in DOMAIN StepTypes
Importable(path) == path \in DOMAIN Handlers

Made(step)  == [error |-> "none", step |-> step]
NotMade(why) == [error |-> why, step |-> <<>>]

\* _resolveStep: a registered type first, then a handler, or an error.
Resolved(entry) ==
  IF Unknown(entry.fields) # {} THEN NotMade("unknownField")
  ELSE IF TypeRegistered(entry.type) THEN Made(ConfiguredStep(StepTypes[entry.type], entry))
  ELSE IF Importable(entry.handler) THEN Made(ConfiguredStep(Handlers[entry.handler], entry))
  ELSE NotMade("unresolved")

\* _resolveStepSyncOrNull: a handler cannot be imported here; it is deferred.
ResolvedSync(entry) ==
  IF /\ Unknown(entry.fields) = {} /\ ~TypeRegistered(entry.type)
     /\ entry.handler # ""
    THEN NotMade("deferred")
    ELSE Resolved([entry EXCEPT !.handler = ""])

----------------------------------------------------------------------------
(* applyPipelineConfigImpl *)

RemoveStep(st, n) == IF st.error = "none" THEN Removed(st.list, n) ELSE st

\* mutant: the fields of a gate are written as any other step's.
ConfigureAny(st, c) ==
  IF st.error # "none" \/ ~Has(st.list, c.step) THEN st
  ELSE ListNow([st.list EXCEPT ![StepIndex(st.list, c.step)] = Written(Normalized(c.fields), @)])

\* The fields are written into the step itself, all of them or none.
ConfigureStep(st, c) ==
  LET step == st.list[StepIndex(st.list, c.step)] IN
  IF st.error # "none" THEN st
  ELSE IF ~Has(st.list, c.step) THEN Thrown("notFound", st.list)
  ELSE IF Unknown(c.fields) # {} THEN Thrown("unknownField", st.list)
  ELSE IF step.gate # "no" /\ Weakening(Normalized(c.fields), step.gate) # {}
    THEN Thrown("weakened", st.list)
  ELSE ListNow([st.list EXCEPT ![StepIndex(st.list, c.step)] = Written(Normalized(c.fields), @)])

\* made is the step that was resolved for the entry, or why there is none.
InsertStep(st, e) ==
  IF st.error # "none" \/ e.made.error = "deferred" THEN st
  ELSE IF e.made.error # "none" THEN Thrown(e.made.error, st.list)
  ELSE IF e.entry.after # "" THEN Inserted(st.list, e.entry.after, e.made.step, 1)
  ELSE IF e.entry.before # "" THEN Inserted(st.list, e.entry.before, e.made.step, 0)
  ELSE Thrown("unanchored", st.list)

\* buildStandardStrategy()
StandardStrategy == ListNow(Standard)

\* Every name to remove, then every step to configure, then every entry.
Edited(st, section, entries, n) ==
  LET removals == Len(section.remove)
      settled == removals + Len(section.configure)
  IN IF n <= removals THEN RemoveStep(st, section.remove[n])
     ELSE IF n <= settled THEN ConfigureStep(st, section.configure[n - removals])
     ELSE InsertStep(st, entries[n - settled])

EditsOf(section, entries) == Len(section.remove) + Len(section.configure) + Len(entries)

AppliedSoFar(section, entries) ==
  LET after[n \in 0 .. EditsOf(section, entries)] ==
        IF n = 0 THEN StandardStrategy ELSE Edited(after[n - 1], section, entries, n)
  IN after

ApplyConfig(section, entries) ==
  IF LimitsExceeded(section) THEN Thrown("overLimit", <<>>)
  ELSE AppliedSoFar(section, entries)[EditsOf(section, entries)]

BuildSync(section) ==
  ApplyConfig(section,
    [i \in DOMAIN section.steps |->
       [entry |-> section.steps[i], made |-> ResolvedSync(section.steps[i])]])

\* The asynchronous builder resolves every entry before it builds anything.
BuildAsync(section) ==
  LET entries == [i \in DOMAIN section.steps |->
                    [entry |-> section.steps[i], made |-> Resolved(section.steps[i])]]
      failed  == {i \in DOMAIN entries : entries[i].made.error # "none"}
  IN IF failed # {} THEN Thrown(entries[Min(failed)].made.error, <<>>)
                    ELSE ApplyConfig(section, entries)
=============================================================================
