------------------------------ MODULE Strategy ------------------------------
(***************************************************************************)
(* ExecutionStrategy of src/pipeline.ts: an ordered list of steps, and the  *)
(* five operations that edit it.  A step is a record of what the engine and *)
(* the strategy read of it:                                                 *)
(*   name, removable, replaceable, requires, provides,                      *)
(*   gate          "no", "approval", or "pure" for a gate whose own pure    *)
(*                 field is TRUE (GovernanceGateMarker.pureIsDefault),      *)
(*   matchModules  "all" (null), "hit" or "miss" for the module of the run, *)
(*   ignoreErrors, pure, timeoutMs (0: none).                               *)
(* An operation returns the list it leaves behind and the error it throws:  *)
(* the two are independent, an operation that throws may have changed it.   *)
(***************************************************************************)
EXTENDS Integers, Sequences, FiniteSets, SequencesExt

CONSTANT SeedProvides   \* ExecutionStrategyOptions.seedProvides

StepFields ==
  {"name", "removable", "replaceable", "requires", "provides", "gate",
   "matchModules", "ignoreErrors", "pure", "timeoutMs"}

IsAStep(s)    == s = [k \in StepFields |-> s[k]]
IsAList(list) == list \in Seq(Range(list)) /\ \A i \in DOMAIN list : IsAStep(list[i])

ListNow(list)      == [error |-> "none", list |-> list]
Thrown(e, list) == [error |-> e, list |-> list]

Names(list)  == [i \in DOMAIN list |-> list[i].name]
Has(list, n) == \E i \in DOMAIN list : list[i].name = n

\* The entry of _nameToIdx: a later step of the same name takes it over.
StepIndex(list, n) ==
  CHOOSE i \in DOMAIN list :
    /\ list[i].name = n
    /\ \A j \in DOMAIN list : list[j].name = n => j <= i

\* What of the given fields would switch a gate off for some calls.
Weakening(fields, gate) ==
  {k \in DOMAIN fields :
     \/ k = "matchModules" /\ fields[k] # "all"
     \/ k = "ignoreErrors" /\ fields[k]
     \/ k = "pure" /\ fields[k] /\ gate # "pure"}

GateWeakened(s) == s.gate # "no" /\ Weakening(s, s.gate) # {}

DependenciesMet(list) ==
  \A i \in DOMAIN list :
    list[i].requires \subseteq
      SeedProvides \cup UNION {list[j].provides : j \in 1..(i - 1)}

Constructed(list) ==
  IF \E i \in DOMAIN list : GateWeakened(list[i]) THEN Thrown("weakened", <<>>)
  ELSE IF ~IsInjective(Names(list)) THEN Thrown("duplicate", <<>>)
  ELSE IF ~DependenciesMet(list) THEN Thrown("dependency", <<>>)
  ELSE ListNow(list)

\* insertAfter (offset 1) and insertBefore (offset 0): the step is in the
\* list, and stays there, when the dependencies turn out unmet.
Inserted(list, anchor, s, offset) ==
  IF GateWeakened(s) THEN Thrown("weakened", list)
  ELSE IF Has(list, s.name) THEN Thrown("duplicate", list)
  ELSE IF ~Has(list, anchor) THEN Thrown("notFound", list)
  ELSE LET spliced == InsertAt(list, StepIndex(list, anchor) + offset, s)
       IN IF DependenciesMet(spliced) THEN ListNow(spliced)
                                      ELSE Thrown("dependency", spliced)

Removed(list, n) ==
  IF ~Has(list, n) THEN Thrown("notFound", list)
  ELSE IF ~list[StepIndex(list, n)].removable THEN Thrown("notRemovable", list)
  ELSE ListNow(RemoveAt(list, StepIndex(list, n)))

\* replace and configureStep, which differ in the class of one error only.
Replaced(list, n, s) ==
  IF GateWeakened(s) THEN Thrown("weakened", list)
  ELSE IF ~Has(list, n) THEN Thrown("notFound", list)
  ELSE IF ~list[StepIndex(list, n)].replaceable THEN Thrown("notReplaceable", list)
  ELSE IF s.name # n /\ Has(list, s.name) THEN Thrown("duplicate", list)
  ELSE ListNow([list EXCEPT ![StepIndex(list, n)] = s])
=============================================================================
