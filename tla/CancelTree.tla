----------------------------- MODULE CancelTree -----------------------------
(***************************************************************************)
(* CancelToken of src/cancel.ts with the execution ownership of             *)
(* src/execution-lifetime.ts: a token is a flag, an AbortController and a    *)
(* link to its parent; module bodies register with their token and all its   *)
(* ancestors, and drain() waits for them.  The link of the signals exists    *)
(* in two builds: AbortSignal.any, or a listener where the runtime has none. *)
(***************************************************************************)
EXTENDS Integers, FiniteSets

CONSTANTS
  Tokens,       \* bound: the tokens
  Root,         \* the one that is there first
  Bodies,       \* bound: the executions of module bodies
  MaxResets     \* bound: the calls of reset()

ASSUME CancelAssumption == Root \in Tokens /\ MaxResets \in Nat

VARIABLES
  hasAny,       \* typeof AbortSignal.any === 'function', "" until known
  tokens,       \* the tokens there are: [owners, cancelled, aborted, linked, disposed]
  bodies,       \* each body: [phase, scope]
  pending,      \* pendingExecutions of each token
  drain,        \* one call of drain(): [phase, scope, awaits]
  resets        \* bound: the resets so far

cancelVars == <<hasAny, tokens, bodies, pending, drain, resets>>

\* The owners of a token are itself and the chain of its parents, which the
\* constructor fixes; aborted is its own controller, linked its listener.
FreshToken(owners, aborted, linked) ==
  [owners |-> owners, cancelled |-> FALSE, aborted |-> aborted, linked |-> linked,
   disposed |-> FALSE]

CancelInit ==
  /\ hasAny = ""
  /\ tokens = [t \in {Root} |-> FreshToken({Root}, FALSE, FALSE)]
  /\ bodies = [b \in Bodies |-> [phase |-> "new", scope |-> Root]]
  /\ pending = [t \in Tokens |-> {}]
  /\ drain = [phase |-> "idle", scope |-> Root, awaits |-> {}]
  /\ resets = 0

Owners(t) == tokens[t].owners

Descendants(t) == {u \in DOMAIN tokens : t \in tokens[u].owners}

\* isCancelled, check() and raiseIfCancelled()
IsCancelled(t) == \E u \in Owners(t) : tokens[u].cancelled

\* signal.aborted: with AbortSignal.any the signals above count as well.
SignalAborted(t) ==
  IF hasAny = "yes" THEN \E u \in Owners(t) : tokens[u].aborted ELSE tokens[t].aborted

RuntimeStarts ==
  /\ hasAny = "" /\ hasAny' \in {"yes", "no"}
  /\ UNCHANGED <<tokens, bodies, pending, drain, resets>>

\* Tokens and bodies have no names: the next one takes a fixed unused name.
Unused(names) == CHOOSE n \in names : TRUE

\* The constructor: without AbortSignal.any the listener is attached, unless
\* the parent's signal is aborted already, which aborts the new one.
NewToken(t, parent) ==
  /\ hasAny # "" /\ Tokens \ DOMAIN tokens # {} /\ parent \in DOMAIN tokens
  /\ t = Unused(Tokens \ DOMAIN tokens)
  /\ LET listens == hasAny = "no"
         new == FreshToken({t} \cup Owners(parent), listens /\ SignalAborted(parent),
                           listens /\ ~SignalAborted(parent))
     IN tokens' = [u \in DOMAIN tokens \cup {t} |-> IF u = t THEN new ELSE tokens[u]]
  /\ UNCHANGED <<hasAny, bodies, pending, drain, resets>>

\* mutant: cancelling lets go of the children before it aborts.
ReachesNone(t) == {t}

\* The tokens an abort of t reaches through an unbroken chain of listeners.
AbortReaches(t) ==
  {u \in Descendants(t) :
     \A v \in Descendants(t) : v # t /\ v \in Owners(u) => tokens[v].linked}

\* cancel() by a caller, or by the deadline of an execution of this scope.
Cancel(t) ==
  /\ hasAny # "" /\ t \in DOMAIN tokens
  /\ LET hit == IF tokens[t].aborted THEN {t} ELSE AbortReaches(t) IN
       tokens' = [u \in DOMAIN tokens |->
                    [tokens[u] EXCEPT !.cancelled = @ \/ u = t,
                                      !.aborted = @ \/ u \in hit,
                                      !.linked = @ /\ u \notin hit]]
  /\ UNCHANGED <<hasAny, bodies, pending, drain, resets>>

\* The executor disposes of the scope of an execution that is over for its
\* caller, once; a body that outlives its timer still holds the token.  Nothing
\* happens where the signals are composed.
Dispose(t) ==
  /\ hasAny = "no" /\ t \in DOMAIN tokens \ {Root} /\ ~tokens[t].disposed
  /\ tokens' = [tokens EXCEPT ![t].linked = FALSE, ![t].disposed = TRUE]
  /\ UNCHANGED <<hasAny, bodies, pending, drain, resets>>

\* The flag alone is cleared; where it is not set nothing happens.
Reset(t) ==
  /\ hasAny # "" /\ t \in DOMAIN tokens /\ tokens[t].cancelled /\ resets < MaxResets
  /\ tokens' = [tokens EXCEPT ![t].cancelled = FALSE]
  /\ resets' = resets + 1
  /\ UNCHANGED <<hasAny, bodies, pending, drain>>

----------------------------------------------------------------------------
(* trackExecution and drainExecutions *)

\* The body has been called; it is registered with the scope and its owners.
TrackExecution(b, t) ==
  /\ bodies[b].phase = "new" /\ b = Unused({c \in Bodies : bodies[c].phase = "new"})
  /\ t \in DOMAIN tokens /\ hasAny # ""
  /\ bodies' = [bodies EXCEPT ![b] = [phase |-> "running", scope |-> t]]
  /\ pending' = [u \in Tokens |-> IF u \in DOMAIN tokens /\ u \in Owners(t)
                                    THEN pending[u] \cup {b} ELSE pending[u]]
  /\ UNCHANGED <<hasAny, tokens, drain, resets>>

\* A body ends in its own time: cancelling it need not make it.
BodyEnds(b) ==
  /\ bodies[b].phase = "running"
  /\ bodies' = [bodies EXCEPT ![b].phase = "settled"]
  /\ UNCHANGED <<hasAny, tokens, pending, drain, resets>>

\* The first continuation of the settled promise, before any that drain() has.
Untrack(b) ==
  /\ bodies[b].phase = "settled" /\ \E t \in Tokens : b \in pending[t]
  /\ pending' = [t \in Tokens |-> pending[t] \ {b}]
  /\ UNCHANGED <<hasAny, tokens, bodies, drain, resets>>

\* mutant: what was there at the first look is all that is waited for.
LooksOnce(t) ==
  drain' = [phase |-> IF pending[t] = {} \/ drain.phase = "waits" THEN "returned" ELSE "waits",
            scope |-> t, awaits |-> pending[t]]

\* Looks at the set again whenever everything it saw in it has settled.
DrainLooks(t) ==
  drain' = [phase |-> IF pending[t] = {} THEN "returned" ELSE "waits",
            scope |-> t, awaits |-> pending[t]]

DrainCall(t) ==
  /\ drain.phase = "idle" /\ t \in DOMAIN tokens /\ DrainLooks(t)
  /\ UNCHANGED <<hasAny, tokens, bodies, pending, resets>>

DrainResumes ==
  /\ drain.phase = "waits"
  /\ \A b \in drain.awaits : bodies[b].phase = "settled" /\ b \notin pending[drain.scope]
  /\ DrainLooks(drain.scope)
  /\ UNCHANGED <<hasAny, tokens, bodies, pending, resets>>

CancelNext ==
  \/ RuntimeStarts
  \/ \E t \in Tokens : Cancel(t) \/ Dispose(t) \/ Reset(t) \/ DrainCall(t)
                       \/ \E p \in Tokens : NewToken(t, p)
  \/ \E b \in Bodies : BodyEnds(b) \/ Untrack(b) \/ \E t \in Tokens : TrackExecution(b, t)
  \/ DrainResumes

CancelSpec == CancelInit /\ [][CancelNext]_cancelVars

----------------------------------------------------------------------------
(* Properties *)

\* Whoever composes the signal stops at least when whoever polls the flag
\* does, through resets, late children and detached links: the two may
\* disagree, but only towards cancelling.  Without AbortSignal.any that ends
\* for what still runs under a scope that was disposed of.
Attached(t) == hasAny = "yes" \/ \A u \in Owners(t) : ~tokens[u].disposed

FailsClosed ==
  \A t \in DOMAIN tokens : Attached(t) /\ IsCancelled(t) => SignalAborted(t)

\* As long as nothing is reset, in either build: whoever composes the signal
\* stops only when whoever polls the flag does.
ChannelsAgree ==
  resets = 0 => \A t \in DOMAIN tokens : SignalAborted(t) => IsCancelled(t)

\* At the moment drain() makes up its mind to return, nothing that runs under
\* its token, or under any token derived from it, is left: also not a body
\* that started during the wait, under a scope made during the wait.
DrainComplete ==
  [][drain'.phase = "returned" /\ drain.phase # "returned" =>
       \A b \in Bodies : bodies[b].phase = "running" =>
         bodies[b].scope \notin Descendants(drain'.scope)]_cancelVars

\* The two channels of a cancellation tell the same, as far as they promise to.
SignalsFollow == FailsClosed /\ ChannelsAgree
=============================================================================
