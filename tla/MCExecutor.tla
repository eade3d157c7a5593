----------------------------- MODULE MCExecutor -----------------------------
(* Instances of Executor for TLC: the strategy of builtin-steps.ts and a     *)
(* middleware chain with the RetryMiddleware, in two environments: every     *)
(* fault and every setter while the call retries once, and fewer of them,    *)
(* with the one that loses the retry counter, over a third attempt.          *)
EXTENDS Executor

CONSTANTS outer, retry, inner, c1

Three == {outer, retry, inner}
Pair == <<outer, retry>>

Surroundings == {
  [faults   |-> {"before", "depth", "input", "output", "after",
                 "hook", "hookCancelled"},
   changes  |-> {"cancel", "recovery", "toggle", "providers", "use"},
   attempts |-> 2],
  [faults   |-> {"before", "output", "after"},
   changes  |-> {"cancel", "remove"},
   attempts |-> 3]}

Standard == <<"context_creation", "call_chain_guard", "module_lookup",
  "acl_check", "approval_gate", "middleware_before", "input_validation",
  "execute", "output_validation", "middleware_after", "return_result">>
=============================================================================
