------------------------------ MODULE Observers ------------------------------
(***************************************************************************)
(* The middlewares that watch the calls of one trace: tracing               *)
(* (src/observability/tracing.ts), metrics (metrics.ts), usage (usage.ts)   *)
(* and PlatformNotifyMiddleware (src/middleware/platform-notify.ts).  Each   *)
(* of the first three keeps a stack in context.data, which all contexts of  *)
(* a trace share: before() pushes, after() and onError() pop, whoever's     *)
(* entry is on top.  ObsLoggingMiddleware keeps one as metrics does.        *)
(*                                                                         *)
(* The manager awaits every hook.  Around the watchers the calls do what    *)
(* executor.ts and manager.ts let them: a middleware of the application     *)
(* ("app") may throw in before() or after(), answer or retry in onError().  *)
(* All calls are of one module.  An entry is named by the call and the      *)
(* attempt that pushed it.                                                  *)
(***************************************************************************)
EXTENDS Integers, Sequences, FiniteSets, SequencesExt

CONSTANTS
  Watched,             \* bound: the calls of the trace, 1..Watched in their order
  MaxMishaps,          \* bound: what the application's hooks and cancellations disturb
  Chains,              \* the middleware chains there may be, sequences of kinds
  Samplings,           \* what TracingMiddleware may be constructed with
  AlertNum, AlertDen,  \* errorRateThreshold
  NoCall

Stacked == {"tracing", "metrics", "usage"}

\* A watcher is installed once.
IsChain(chain) ==
  /\ chain \in Seq(Stacked \cup {"notify", "app"}) /\ chain # <<>>
  /\ \A i, j \in DOMAIN chain : chain[i] = chain[j] /\ chain[i] \in Stacked => i = j

ASSUME ObserversAssumption ==
  /\ Watched \in Nat /\ MaxMishaps \in Nat /\ NoCall \notin 1 .. Watched
  /\ \A chain \in Chains : IsChain(chain)
  /\ AlertNum \in Nat /\ AlertDen \in Nat \ {0} /\ AlertNum <= AlertDen

WatchedCalls == 1 .. Watched

VARIABLES
  watchers,     \* the chain of the executor
  sampling,     \* _samplingStrategy
  calls,        \* each call: [stage, at, attempt, by]
  data,         \* context.data: [stacks, sampled]
  noted,        \* what each watcher recorded: [kind -> set of [told, of, ok]]
  alerted,      \* _alerted of the module has error_rate
  rateEvents,   \* history: the events about its error rate, in order
  overlapped,   \* history: two calls that are not nested were under way together
  cut,          \* history: a hook was called too often, or not at all
  mishaps       \* bound: how many there were

observerVars == <<watchers, sampling, calls, data, noted, alerted, rateEvents, overlapped, cut, mishaps>>

ObserversInit ==
  /\ watchers \in Chains /\ sampling \in Samplings
  /\ calls = [c \in WatchedCalls |-> [stage |-> "new", at |-> 0, attempt |-> 0, by |-> NoCall]]
  /\ data = [stacks |-> [k \in Stacked |-> <<>>], sampled |-> "undecided"]
  /\ noted = [k \in Stacked |-> {}]
  /\ alerted = FALSE /\ rateEvents = <<>>
  /\ overlapped = FALSE /\ cut = FALSE /\ mishaps = 0

UnderWay(c) == calls[c].stage \notin {"new", "ended"}
Stacks(places) == {watchers[i] : i \in places} \cap Stacked    \* who of these has one
Mishap == mishaps < MaxMishaps /\ mishaps' = mishaps + 1
Moves(c, stage, at) == calls' = [calls EXCEPT ![c].stage = stage, ![c].at = at]

----------------------------------------------------------------------------
(* Hooks of the watchers                                                    *)

TopCall(stack) == IF stack = <<>> THEN NoCall ELSE Last(stack).call

\* Only a span knows its parent, the entry it is pushed upon.
StackEntry(k, c) ==
  [call |-> c, attempt |-> calls[c].attempt,
   parent |-> IF k = "tracing" THEN TopCall(data.stacks[k]) ELSE NoCall]

PushedOn(k, c) == [data.stacks EXCEPT ![k] = Append(@, StackEntry(k, c))]

\* _shouldSample: decided once for all contexts of the trace.
ShouldSample ==
  IF data.sampled # "undecided" THEN {data.sampled}
  ELSE CASE sampling = "full" -> {"yes"}
         [] sampling = "off"  -> {"no"}
         [] OTHER             -> {"yes", "no"}

WatcherBefore(k, c) ==
  CASE k = "tracing" -> \E s \in ShouldSample : data' = [stacks |-> PushedOn(k, c), sampled |-> s]
    [] k \in {"metrics", "usage"} -> data' = [data EXCEPT !.stacks = PushedOn(k, c)]
    [] OTHER -> UNCHANGED data

Exported(ok) == data.sampled = "yes" \/ (sampling = "error_first" /\ ~ok)

\* mutant: the oldest entry is taken.
OldestAt(stack) == 1

\* Where the entry is that pop() takes.
PopsAt(stack) == Len(stack)

\* A usage record is made even when there is nothing to pop.
WatcherTold(k, c, ok) ==
  LET stack == data.stacks[k]
      note(entry) == [told |-> c, of |-> entry, ok |-> ok]
  IN IF stack = <<>>
       THEN /\ noted' = IF k = "usage" THEN [noted EXCEPT ![k] = @ \cup {note(<<>>)}] ELSE noted
            /\ UNCHANGED data
       ELSE /\ noted' = IF k = "tracing" /\ ~Exported(ok) THEN noted
                        ELSE [noted EXCEPT ![k] = @ \cup {note(stack[PopsAt(stack)])}]
            /\ data' = [data EXCEPT !.stacks[k] = RemoveAt(@, PopsAt(stack))]

----------------------------------------------------------------------------
(* PlatformNotifyMiddleware                                                 *)

MetricsTotal == Cardinality(noted["metrics"])
MetricsErrors == Cardinality({n \in noted["metrics"] : ~n.ok})

\* computeModuleErrorRate: errorRate >= threshold, errorRate < threshold * 0.5
RateReached ==
  IF MetricsTotal = 0 THEN AlertNum = 0 ELSE MetricsErrors * AlertDen >= AlertNum * MetricsTotal
RateHalved ==
  IF MetricsTotal = 0 THEN AlertNum > 0
                      ELSE 2 * MetricsErrors * AlertDen < AlertNum * MetricsTotal

CheckErrorRateThreshold == ~alerted /\ RateReached
CheckErrorRecovery(standing) == standing /\ RateHalved

NotifyAfter ==
  /\ alerted' = (alerted /\ ~CheckErrorRecovery(alerted))
  /\ rateEvents' = IF CheckErrorRecovery(alerted) THEN Append(rateEvents, "recovered") ELSE rateEvents

NotifyOnError ==
  LET standing == alerted \/ RateReached
      raised == IF CheckErrorRateThreshold THEN Append(rateEvents, "exceeded") ELSE rateEvents
  IN /\ alerted' = (standing /\ ~CheckErrorRecovery(standing))
     /\ rateEvents' = IF CheckErrorRecovery(standing) THEN Append(raised, "recovered") ELSE raised

----------------------------------------------------------------------------
(* The calls                                                                *)

\* A call made by a module's body, or the first of the trace.
CallStarts(c) ==
  /\ calls[c].stage = "new" /\ \A d \in 1 .. (c - 1) : calls[d].stage # "new"
  /\ \E p \in {p \in WatchedCalls : calls[p].stage = "body"} \cup {NoCall} :
       /\ p = NoCall => \A d \in WatchedCalls : calls[d].stage = "new"
       /\ calls' = [calls EXCEPT ![c] = [stage |-> "before", at |-> 1, attempt |-> 1, by |-> p]]
       /\ overlapped' = (overlapped \/ \E d \in WatchedCalls : UnderWay(d) /\ calls[d].by = p /\ p # NoCall)
  /\ UNCHANGED <<watchers, sampling, data, noted, alerted, rateEvents, cut, mishaps>>

BeforeHook(c) ==
  /\ calls[c].stage = "before"
  /\ WatcherBefore(watchers[calls[c].at], c)
  /\ IF calls[c].at = Len(watchers) THEN Moves(c, "body", 0)
                                    ELSE Moves(c, "before", calls[c].at + 1)
  /\ UNCHANGED <<watchers, sampling, noted, alerted, rateEvents, overlapped, cut, mishaps>>

\* The hook that throws is told as well: it is of executedMiddlewares.
BeforeThrows(c) ==
  /\ Mishap
  /\ calls[c].stage = "before" /\ watchers[calls[c].at] = "app"
  /\ Moves(c, "onError", calls[c].at)
  /\ UNCHANGED <<watchers, sampling, data, noted, alerted, rateEvents, overlapped, cut>>

ModuleEnds(c) ==
  /\ calls[c].stage = "body"
  /\ \E stage \in {"after", "onError"} : Moves(c, stage, Len(watchers))
  /\ overlapped' = (overlapped \/ \E d \in WatchedCalls : UnderWay(d) /\ calls[d].by = c)
  /\ UNCHANGED <<watchers, sampling, data, noted, alerted, rateEvents, cut, mishaps>>

\* A cancellation is rethrown before anybody is told.
ModuleCancelled(c) ==
  /\ Mishap
  /\ calls[c].stage = "body"
  /\ Moves(c, "ended", 0)
  /\ cut' = TRUE
  /\ UNCHANGED <<watchers, sampling, data, noted, alerted, rateEvents, overlapped>>

HookTold(c, ok) ==
  LET k == watchers[calls[c].at] IN
  CASE k \in Stacked  -> WatcherTold(k, c, ok) /\ UNCHANGED <<alerted, rateEvents>>
    [] k = "notify"   -> (IF ok THEN NotifyAfter ELSE NotifyOnError) /\ UNCHANGED <<data, noted>>
    [] OTHER          -> UNCHANGED <<data, noted, alerted, rateEvents>>

Inwards(c) ==
  IF calls[c].at = 1 THEN Moves(c, "ended", 0) ELSE Moves(c, calls[c].stage, calls[c].at - 1)

HookReturns(c) ==
  /\ calls[c].stage \in {"after", "onError"}
  /\ HookTold(c, calls[c].stage = "after")
  /\ Inwards(c)
  /\ UNCHANGED <<watchers, sampling, overlapped, cut, mishaps>>

\* Everybody is told of the failure, those who had their after() again.
AfterThrows(c) ==
  /\ Mishap
  /\ calls[c].stage = "after" /\ watchers[calls[c].at] = "app"
  /\ Moves(c, "onError", Len(watchers))
  /\ cut' = (cut \/ Stacks((calls[c].at + 1) .. Len(watchers)) # {})
  /\ UNCHANGED <<watchers, sampling, data, noted, alerted, rateEvents, overlapped>>

\* An answer or a RetrySignal ends the chain: the outer ones hear nothing.
OnErrorAnswers(c) ==
  /\ Mishap
  /\ calls[c].stage = "onError" /\ watchers[calls[c].at] = "app"
  /\ \/ Moves(c, "ended", 0)
     \/ /\ calls[c].attempt = 1
        /\ calls' = [calls EXCEPT ![c].stage = "before", ![c].at = 1, ![c].attempt = 2]
  /\ cut' = (cut \/ Stacks(1 .. (calls[c].at - 1)) # {})
  /\ UNCHANGED <<watchers, sampling, data, noted, alerted, rateEvents, overlapped>>

ObserversNext ==
  \E c \in WatchedCalls :
    \/ CallStarts(c) \/ BeforeHook(c) \/ BeforeThrows(c) \/ ModuleEnds(c) \/ ModuleCancelled(c)
    \/ HookReturns(c) \/ AfterThrows(c) \/ OnErrorAnswers(c)

ObserversSpec == ObserversInit /\ [][ObserversNext]_observerVars

----------------------------------------------------------------------------
(* Properties                                                               *)

\* While calls only nest and every hook that was opened is told once, each
\* span and duration is of the call that reports it, and a span's parent is
\* the span of the call that made the call.
OwnWhenNested ==
  ~overlapped /\ ~cut =>
    \A k \in Stacked : \A n \in noted[k] :
      /\ n.of # <<>> /\ n.of.call = n.told
      /\ k = "tracing" => n.of.parent = calls[n.told].by

\* Calls that overlap mix up whose entry is whose, and no more: when the
\* trace is over nothing is left on a stack, every call that was watched is
\* noted, and no entry is noted twice.
NothingLost ==
  /\ \A k \in Stacked : \A m, n \in noted[k] : m.of = n.of /\ m.of # <<>> => m = n
  /\ ~cut /\ (\A c \in WatchedCalls : calls[c].stage \in {"new", "ended"}) =>
       \A k \in Stacked :
         /\ data.stacks[k] = <<>>
         /\ k # "tracing" => {n.told : n \in noted[k]} = {n.of.call : n \in noted[k]}

\* The trace is exported whole or not at all, errors under error_first apart.
SampledWhole ==
  \A n \in noted["tracing"] : data.sampled = "yes" \/ (sampling = "error_first" /\ ~n.ok)

\* Subscribers hear of an error rate and of its recovery by turns, and what
\* they heard last is what the middleware holds.
AlertsAlternate ==
  /\ \A i \in DOMAIN rateEvents : rateEvents[i] = IF i % 2 = 1 THEN "exceeded" ELSE "recovered"
  /\ alerted <=> Len(rateEvents) % 2 = 1

\* What the watchers say of a trace's calls, and of their error rate.
ObserversHonest == OwnWhenNested /\ NothingLost /\ SampledWhole /\ AlertsAlternate
=============================================================================
