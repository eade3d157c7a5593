-------------------------------- MODULE Stream --------------------------------
(***************************************************************************)
(* Executor.stream() (executor.ts:1073-1275): the pipeline runs up to the  *)
(* module's generator, its chunks are merged and handed to the consumer    *)
(* one by one, and the steps behind the body run on the merged output once *)
(* the chunks are out.  Between two chunks the deadline may pass, the      *)
(* configuration may change and the consumer may walk away.                *)
(*                                                                         *)
(* A chunk is a function from the paths of its leaves to their values, a   *)
(* path being the sequence of keys that leads to the leaf; NotAnObject     *)
(* stands for a chunk that is none.  Chunks are values here: the nested    *)
(* objects that the merge shares with a yielded chunk are told apart from  *)
(* it, and a consumer is taken not to write into what it was given.        *)
(***************************************************************************)
EXTENDS Integers, Sequences, SequencesExt

CONSTANTS
  Objects,       \* chunks a generator may yield
  NotAnObject,   \* ... and one that is refused
  Recovery,      \* what an onError hook may answer in place of the failure
  Caps,          \* values of stream.max_merge_depth
  MaxChunks      \* bound: chunks a generator yields

MaxMergeDepth == 32

VARIABLES
  stage,        \* "called", "chunks", "failing", "post", "ended"
  outcome,      \* how the stream ended, to its consumer
  delivered,    \* what was yielded
  accumulated,  \* the merged output
  mergeDepthCap,  \* the cap of this stream
  configured,   \* the cap in the Config
  hasStream,    \* the module has a stream()
  hooks,        \* middlewares ran before(): there is someone to tell
  told,         \* "after" and "onError", as the middlewares heard them
  expired,      \* the global deadline has passed
  derived,      \* the pipeline gave the context a token of its own
  cancelled, disposed,  \* the token of the context
  raised        \* history: what was thrown last: "error", "cancellation", or
                \*   "hookCancellation", one thrown in a step middleware's hook

streamVars == <<stage, outcome, delivered, accumulated, mergeDepthCap, configured,
                hasStream, hooks, told, expired, derived, cancelled, disposed, raised>>

-----------------------------------------------------------------------------
(* deepMergeChunk: right wins; below the cap an object replaces an object.  *)

Survives(path, overlay, cap) ==
  \A new \in DOMAIN overlay :
    /\ ~IsPrefix(new, path) /\ ~IsPrefix(path, new)
    /\ Len(path) > cap /\ Len(new) > cap =>
         SubSeq(path, 1, cap + 1) # SubSeq(new, 1, cap + 1)

DeepMergeChunk(base, overlay, cap) ==
  overlay @@ [path \in {p \in DOMAIN base : Survives(p, overlay, cap)} |-> base[path]]

\* A value that is no positive integer takes the default: the cap stays.
ResolveMergeDepth(value) == IF value < 1 THEN MaxMergeDepth ELSE value

CapInForce  == mergeDepthCap

\* The merge of the first i chunks, for every i.
MergedSoFar(chunks, cap) ==
  LET merged[i \in 0..Len(chunks)] ==
        IF i = 0 THEN <<>> ELSE DeepMergeChunk(merged[i - 1], chunks[i], cap)
  IN merged

Accumulate(chunks, cap) == MergedSoFar(chunks, cap)[Len(chunks)]

-----------------------------------------------------------------------------

StreamInit ==
  /\ stage = "called" /\ outcome = "none" /\ raised = "nothing"
  /\ delivered = <<>> /\ accumulated = <<>> /\ told = <<>>
  /\ configured \in Caps /\ mergeDepthCap = MaxMergeDepth
  /\ hasStream \in BOOLEAN /\ hooks \in BOOLEAN /\ derived \in BOOLEAN
  /\ expired = FALSE /\ cancelled = FALSE /\ disposed = FALSE

\* The finally: a token derived for this call is let go.
StreamEnds(how) == stage' = "ended" /\ outcome' = how /\ disposed' = derived
Goes(to)  == stage' = to /\ UNCHANGED <<outcome, disposed>>
Tells(what) == told' = IF hooks THEN Append(told, what) ELSE told

Fails == raised' = "error" /\ Goes("failing")
Cancellation == raised' = "cancellation" /\ StreamEnds("cancelled")

\* A beforeStep hook's cancellation comes inside the engine's
\* MiddlewareChainError, which is not unwrapped: a failure like any other.
HookCancellation == raised' = "hookCancellation" /\ Goes("failing")

\* The check of phase 3 runs on the unwrapped error.
PostFailure == StreamEnds("completed")
WrappedCancellation == raised' = "cancellation" /\ StreamEnds("completed")  \* mutant: missed in its wrapping
PostCancellation == Cancellation

\* Some of the after() hooks ran, or none.
MaybeTold == UNCHANGED told \/ Tells("after")

\* Phase 1.  A module without a stream() runs like any other, its after() hooks
\* included, and yields once.
RunPipeline ==
  /\ stage = "called"
  /\ \/ /\ hasStream /\ Goes("chunks")
        /\ mergeDepthCap' = ResolveMergeDepth(configured)
        /\ UNCHANGED <<delivered, told, raised>>
     \/ /\ ~hasStream /\ \E output \in Objects : delivered' = <<output>>
        /\ Tells("after")
        /\ StreamEnds("single")
        /\ UNCHANGED <<mergeDepthCap, raised>>
     \/ /\ Fails \/ Cancellation \/ HookCancellation
        /\ UNCHANGED told \/ (~hasStream /\ Tells("after"))
        /\ UNCHANGED <<delivered, mergeDepthCap>>
  /\ UNCHANGED <<accumulated, configured, hasStream, hooks, expired, derived, cancelled>>

\* Phase 2.  The deadline comes first, then the shape of the chunk.
NextChunk(chunk) ==
  /\ stage = "chunks" /\ Len(delivered) < MaxChunks
  /\ IF expired \/ chunk = NotAnObject
     THEN /\ Fails
          /\ cancelled' = (cancelled \/ expired)
          /\ UNCHANGED <<delivered, accumulated>>
     ELSE /\ accumulated' = DeepMergeChunk(accumulated, chunk, CapInForce)
          /\ delivered' = Append(delivered, chunk)
          /\ UNCHANGED <<stage, outcome, disposed, cancelled, raised>>
  /\ UNCHANGED <<mergeDepthCap, configured, hasStream, hooks, told, expired, derived>>

GeneratorThrows ==
  /\ stage = "chunks"
  /\ Fails \/ Cancellation
  /\ UNCHANGED <<delivered, accumulated, mergeDepthCap, configured, hasStream, hooks, told, expired,
                 derived, cancelled>>

GeneratorEnds ==
  /\ stage = "chunks"
  /\ Goes("post")
  /\ UNCHANGED <<delivered, accumulated, mergeDepthCap, configured, hasStream, hooks, told, expired,
                 derived, cancelled, raised>>

\* The consumer leaves its loop at a chunk: the generators are closed.
ConsumerReturns ==
  /\ stage = "chunks" /\ delivered # <<>>
  /\ StreamEnds("abandoned")
  /\ UNCHANGED <<delivered, accumulated, mergeDepthCap, configured, hasStream, hooks, told, expired,
                 derived, cancelled, raised>>

\* A failure of phase 1 or 2.  A hook may answer with a result, yielded as the
\* last chunk; a retry signal is not honoured here.
Recover ==
  /\ stage = "failing"
  /\ Tells("onError")
  /\ \/ hooks /\ delivered' = Append(delivered, Recovery) /\ StreamEnds("recovered")
     \/ UNCHANGED delivered /\ StreamEnds("failed")
  /\ UNCHANGED <<accumulated, mergeDepthCap, configured, hasStream, hooks, expired, derived, cancelled, raised>>

\* Phase 3: output_validation, middleware_after and return_result on the merged
\* output.  Their failure is reported as an event and goes no further.  A custom
\* step of one of these names may need what only the full strategy provides:
\* the strategy of the three cannot be built then, and that is thrown.
PostSteps ==
  /\ stage = "post"
  /\ \/ Tells("after") /\ StreamEnds("completed") /\ UNCHANGED raised
     \/ MaybeTold /\ raised' \in {"error", "hookCancellation"} /\ PostFailure
     \/ MaybeTold /\ PostCancellation
     \/ UNCHANGED told /\ raised' = "error" /\ StreamEnds("failed")
  /\ UNCHANGED <<delivered, accumulated, mergeDepthCap, configured, hasStream, hooks, expired, derived, cancelled>>

DeadlinePasses ==
  /\ stage # "ended" /\ ~expired
  /\ expired' = TRUE
  /\ UNCHANGED <<stage, outcome, delivered, accumulated, mergeDepthCap, configured, hasStream, hooks, told,
                 derived, cancelled, disposed, raised>>

UpdateConfig ==
  /\ stage = "chunks"
  /\ configured' \in Caps \ {configured}
  /\ UNCHANGED <<stage, outcome, delivered, accumulated, mergeDepthCap, hasStream, hooks, told, expired,
                 derived, cancelled, disposed, raised>>

StreamNext ==
  \/ RunPipeline \/ GeneratorThrows \/ GeneratorEnds \/ ConsumerReturns
  \/ \E chunk \in Objects \union {NotAnObject} : NextChunk(chunk)
  \/ Recover \/ PostSteps
  \/ DeadlinePasses \/ UpdateConfig

StreamSpec == StreamInit /\ [][StreamNext]_streamVars

-----------------------------------------------------------------------------
(* Properties.                                                              *)

\* The output that phase 3 validates and shows to the middlewares is the merge,
\* right wins, of exactly the chunks the consumer was given, under the one cap
\* that was in force when the stream began.
ValidatesWhatWasDelivered ==
  stage \in {"chunks", "post"} => accumulated = Accumulate(delivered, mergeDepthCap)

\* A cancellation reaches the consumer as such, from whatever phase, and no
\* onError hook hears of it, except that one thrown by a step middleware's hook
\* fares like a failure.  onError() is the last thing a middleware is told, and
\* of a module with a stream() the only one: after() comes before it only when a
\* module that ran in phase 1 has an after() hook fail.  Once all the chunks are
\* out no failure reaches anyone, so that nothing is yielded behind the last
\* chunk; and a token derived for the call is disposed, however the stream ends.
EndsHonestly ==
  stage = "ended" =>
    /\ raised = "cancellation" <=> outcome = "cancelled"
    /\ raised = "cancellation" => "onError" \notin Range(told)
    /\ \A i \in 1..(Len(told) - 1) : told[i] = "after"
    /\ Len(told) <= IF hasStream THEN 1 ELSE 2
    /\ outcome = "completed" => delivered = <<>> \/ Accumulate(delivered, mergeDepthCap) = accumulated
    /\ disposed = derived

\* The consumer, the middlewares and the steps behind the body are told one
\* story of the stream.
StreamHonest == ValidatesWhatWasDelivered /\ EndsHonestly
=============================================================================
