------------------------------ MODULE CallProofs ------------------------------
(***************************************************************************)
(* What a call may rely on: the gates before its body and the deadline      *)
(* behind it (Executor), the tokens that cancel it (CancelTree), and the    *)
(* chunks it streams (Stream).                                              *)
(***************************************************************************)
EXTENDS Executor, CancelTree, Stream, WellFoundedInduction, TLAPS

-----------------------------------------------------------------------------
(***************************************************************************)
(* The body of a module never runs but through the gates of its own attempt, *)
(* and a deadline that has fired owns the error: for every number of calls,  *)
(* every middleware chain, every environment and every strategy, as long as  *)
(* the strategy keeps the order that the built-in ones have.                 *)
(*                                                                          *)
(* An action replaces the record of one call, so the invariant is stated of  *)
(* a record (Fits): each action comes down to the record it puts.            *)
(***************************************************************************)

Steps == 1 .. Len(Strategy)

CallRec ==
  [phase : Phases, step : Steps, pos : Nat, inputs : Inputs,
   chain : Seq(Mws), executed : Seq(Mws),
   error : Errors, viaHook : BOOLEAN,
   cancelled : BOOLEAN, aborted : BOOLEAN, timedOut : BOOLEAN,
   raced : Errors \cup {"none", "output"}, attempts : Nat,
   result : Errors \cup {"none", "output", "recovered"},
   asks : BOOLEAN, cleared : SUBSET GateSteps,
   approval : {"none", "unneeded", "skipped", "approved"},
   open : SUBSET Mws]

\* The phases of an attempt that nothing has stopped.
Running == {"idle", "step", "asking", "before", "racing", "after"}

\* The gates among the first k - 1 steps.
Passed(k) == {Strategy[i] : i \in 1 .. (k - 1)} \cap GateSteps

\* The order of the built-in strategies: every gate before the body, the ACL
\* before the approval gate that it may ask for.
BuiltInOrder ==
  \A i, j \in Steps :
    /\ Strategy[i] \in GateSteps /\ Strategy[j] = "execute" => i < j
    /\ Strategy[i] = "acl_check" /\ Strategy[j] = "approval_gate" => i < j

\* What the record of a call promises in environment e.
Fits(r, e) ==
  /\ r.attempts <= e.attempts
  /\ r.phase = "sleeping" => r.attempts < e.attempts
  /\ r.phase = "asking" => Strategy[r.step] = "approval_gate"
  /\ r.phase = "before" => Strategy[r.step] = "middleware_before" /\ r.pos >= 1
  /\ r.phase = "racing" => Strategy[r.step] = "execute"
  /\ r.phase = "after" => Strategy[r.step] = "middleware_after"
  /\ r.phase \in Running => r.cleared = Passed(r.step)
  /\ BuiltInOrder /\ r.phase \in Running /\ r.asks /\ "approval_gate" \in r.cleared
       => r.approval \in {"approved", "skipped"}

CallInv == call \in [Calls -> CallRec] /\ \A c \in Calls : Fits(call[c], env)

Around ==
  /\ counter \in [Contexts -> [count : Nat, lost : Nat]]
  /\ mws \in Seq(Mws)
  /\ enabled \in BOOLEAN /\ acl \in BOOLEAN /\ handler \in BOOLEAN
  /\ policy \in {"none", "lenient", "strict"} /\ env \in Environments

XInv == CallInv /\ Around

----------------------------------------------------------------------------
(* The strategy *)

LEMMA Lengths == Len(Strategy) \in Nat /\ 1 \in Steps /\ Passed(1) = {}
<1>1. Len(Strategy) \in Nat \ {0} BY ExecutorAssumption
<1>2. 1 \in Steps BY <1>1 DEF Steps
<1>3. Passed(1) = {} BY DEF Passed
<1> QED BY <1>1, <1>2, <1>3

\* Only the last step has none after it.
LEMMA StepAfter ==
  ASSUME NEW k \in Steps, Strategy[k] # "return_result"
  PROVE  /\ k + 1 \in Steps
         /\ Passed(k + 1) = Passed(k) \cup ({Strategy[k]} \cap GateSteps)
<1>1. k # Len(Strategy) BY ExecutorAssumption
<1>2. k + 1 \in Steps BY <1>1, Lengths DEF Steps
<1>3. 1 .. ((k + 1) - 1) = (1 .. (k - 1)) \cup {k} BY Lengths DEF Steps
<1>4. Passed(k + 1) = Passed(k) \cup ({Strategy[k]} \cap GateSteps)
  BY <1>3 DEF Passed
<1> QED BY <1>2, <1>4

\* The body comes after every gate, the ACL before the approval.
LEMMA OrderPassed ==
  ASSUME BuiltInOrder, NEW k \in Steps
  PROVE  /\ Strategy[k] = "execute" => Passed(k) = Gates
         /\ Strategy[k] = "acl_check" => "approval_gate" \notin Passed(k)
<1>1. DOMAIN Strategy = Steps /\ \A i \in Steps : i \in Nat
  BY ExecutorAssumption, Lengths DEF Steps
<1>2. \A i \in Steps : i < k => i \in 1 .. (k - 1)
  BY <1>1 DEF Steps
<1>3. \A i \in 1 .. (k - 1) : i \in Steps /\ i < k
  BY <1>1, Lengths DEF Steps
<1>4. ASSUME Strategy[k] = "execute" PROVE Passed(k) = Gates
  BY <1>1, <1>2, <1>3, <1>4 DEF BuiltInOrder, Passed, Gates
<1>5. ASSUME Strategy[k] = "acl_check", "approval_gate" \in Passed(k) PROVE FALSE
  <2>1. PICK i \in 1 .. (k - 1) : Strategy[i] = "approval_gate" BY <1>5 DEF Passed
  <2>2. i \in Steps /\ i < k /\ k < i BY <1>3, <1>5, <2>1 DEF BuiltInOrder
  <2> QED BY <1>1, <2>2
<1> QED BY <1>4, <1>5

----------------------------------------------------------------------------
(* One record *)

LEMMA ContinueFits ==
  ASSUME NEW q \in CallRec, NEW e, Fits(q, e), q.phase \in Running,
         Strategy[q.step] \notin GateSteps \cup {"return_result"}
  PROVE  Continue(q) \in CallRec /\ Fits(Continue(q), e)
<1>1. q.step \in Steps BY DEF CallRec
<1>2. q.step + 1 \in Steps /\ Passed(q.step + 1) = Passed(q.step) BY <1>1, StepAfter
<1>3. Continue(q) \in CallRec BY <1>2 DEF CallRec, Continue, Phases
<1>4. Fits(Continue(q), e) BY <1>2 DEF CallRec, Continue, Fits, Running
<1> QED BY <1>3, <1>4

\* A gate lets the attempt through.
LEMMA ClearFits ==
  ASSUME NEW q \in CallRec, NEW e, Fits(q, e), q.phase \in Running,
         NEW g \in GateSteps \ {"approval_gate"}, Strategy[q.step] = g
  PROVE  Clear(q, g) \in CallRec /\ Fits(Clear(q, g), e)
<1>1. q.step \in Steps /\ g # "return_result" BY DEF CallRec, GateSteps
<1>2. q.step + 1 \in Steps /\ Passed(q.step + 1) = Passed(q.step) \cup {g}
  BY <1>1, StepAfter
<1>3. Clear(q, g) \in CallRec BY <1>2 DEF CallRec, Clear, Continue, Phases
<1>4. Fits(Clear(q, g), e) BY <1>2 DEF CallRec, Clear, Continue, Fits, Running
<1> QED BY <1>3, <1>4

\* The ACL lets it through, perhaps on condition of an approval.
LEMMA AclFits ==
  ASSUME NEW q \in CallRec, NEW e, Fits(q, e), q.phase \in Running,
         Strategy[q.step] = "acl_check", NEW asks \in BOOLEAN
  PROVE  /\ [Clear(q, "acl_check") EXCEPT !.asks = asks] \in CallRec
         /\ Fits([Clear(q, "acl_check") EXCEPT !.asks = asks], e)
<1>1. q.step \in Steps BY DEF CallRec
<1>2. q.step + 1 \in Steps /\ Passed(q.step + 1) = Passed(q.step) \cup {"acl_check"}
  BY <1>1, StepAfter DEF GateSteps
<1>3. [Clear(q, "acl_check") EXCEPT !.asks = asks] \in CallRec
  BY <1>2 DEF CallRec, Clear, Continue, Phases, GateSteps
<1>4. BuiltInOrder => "approval_gate" \notin Passed(q.step + 1)
  BY <1>1, <1>2, OrderPassed
<1>5. Fits([Clear(q, "acl_check") EXCEPT !.asks = asks], e)
  BY <1>2, <1>4 DEF CallRec, Clear, Continue, Fits, Running
<1> QED BY <1>3, <1>5

\* The approval gate lets it through.
LEMMA ApprovalFits ==
  ASSUME NEW q \in CallRec, NEW e, Fits(q, e), q.phase \in Running,
         Strategy[q.step] = "approval_gate",
         NEW how \in {"unneeded", "skipped", "approved"}, how = "unneeded" => ~q.asks
  PROVE  /\ [Clear(q, "approval_gate") EXCEPT !.approval = how] \in CallRec
         /\ Fits([Clear(q, "approval_gate") EXCEPT !.approval = how], e)
<1>1. q.step \in Steps BY DEF CallRec
<1>2. q.step + 1 \in Steps /\ Passed(q.step + 1) = Passed(q.step) \cup {"approval_gate"}
  BY <1>1, StepAfter DEF GateSteps
<1>3. [Clear(q, "approval_gate") EXCEPT !.approval = how] \in CallRec
  BY <1>2 DEF CallRec, Clear, Continue, Phases, GateSteps
<1>4. Fits([Clear(q, "approval_gate") EXCEPT !.approval = how], e)
  BY <1>2 DEF CallRec, Clear, Continue, Fits, Running
<1> QED BY <1>3, <1>4

LEMMA ThrowFits ==
  ASSUME NEW q \in CallRec, NEW e, Fits(q, e), NEW err \in Errors
  PROVE  Throw(q, err) \in CallRec /\ Fits(Throw(q, err), e)
<1>1. Throw(q, err) \in CallRec BY DEF CallRec, Throw, Phases
<1>2. Fits(Throw(q, err), e) BY DEF CallRec, Throw, Fits, Running
<1> QED BY <1>1, <1>2

LEMMA EndFits ==
  ASSUME NEW q \in CallRec, NEW e, Fits(q, e),
         NEW how \in Errors \cup {"output", "recovered"}
  PROVE  End(q, how) \in CallRec /\ Fits(End(q, how), e)
<1>1. End(q, how) \in CallRec BY DEF CallRec, End, Phases
<1>2. Fits(End(q, how), e) BY DEF CallRec, End, Fits, Running
<1> QED BY <1>1, <1>2

\* Fields that Fits does not look at.
LEMMA SideFits ==
  ASSUME NEW q \in CallRec, NEW e, Fits(q, e), NEW b \in BOOLEAN, NEW seq \in Seq(Mws)
  PROVE  /\ [q EXCEPT !.aborted = b] \in CallRec /\ Fits([q EXCEPT !.aborted = b], e)
         /\ [q EXCEPT !.viaHook = b] \in CallRec /\ Fits([q EXCEPT !.viaHook = b], e)
         /\ [q EXCEPT !.executed = seq] \in CallRec /\ Fits([q EXCEPT !.executed = seq], e)
<1>1. [q EXCEPT !.aborted = b] \in CallRec BY DEF CallRec
<1>2. Fits([q EXCEPT !.aborted = b], e) BY DEF CallRec, Fits
<1>3. [q EXCEPT !.viaHook = b] \in CallRec BY DEF CallRec
<1>4. Fits([q EXCEPT !.viaHook = b], e) BY DEF CallRec, Fits
<1>5. [q EXCEPT !.executed = seq] \in CallRec BY DEF CallRec
<1>6. Fits([q EXCEPT !.executed = seq], e) BY DEF CallRec, Fits
<1> QED BY <1>1, <1>2, <1>3, <1>4, <1>5, <1>6

LEMMA TokenFits ==
  ASSUME NEW q \in CallRec, NEW e, Fits(q, e)
  PROVE  /\ [q EXCEPT !.inputs.token = "none"] \in CallRec
         /\ Fits([q EXCEPT !.inputs.token = "none"], e)
<1>1. [q EXCEPT !.inputs.token = "none"] \in CallRec BY DEF CallRec, Inputs, TokenKinds
<1>2. Fits([q EXCEPT !.inputs.token = "none"], e) BY DEF CallRec, Fits
<1> QED BY <1>1, <1>2

\* What the actions make of a record, where they change several fields.
LEMMA CallTyped ==
  ASSUME NEW q \in CallRec, NEW token \in TokenKinds
  PROVE  [q EXCEPT !.phase = "step", !.attempts = 1, !.inputs.token = token] \in CallRec
BY DEF CallRec, Inputs, Phases, TokenKinds

LEMMA CancelTyped ==
  ASSUME NEW q \in CallRec, NEW how \in {"cancelled", "fatal", "output"}
  PROVE  [q EXCEPT !.cancelled = TRUE, !.aborted = TRUE,
            !.raced = IF q.phase = "racing" /\ @ = "none" THEN how ELSE @] \in CallRec
<1> PICK raced \in Errors \cup {"none", "output"} :
      raced = IF q.phase = "racing" /\ q.raced = "none" THEN how ELSE q.raced
  BY DEF CallRec, Errors
<1>1. [q EXCEPT !.cancelled = TRUE, !.aborted = TRUE, !.raced = raced] \in CallRec
  BY DEF CallRec
<1> QED BY <1>1

LEMMA HookTyped ==
  ASSUME NEW q \in CallRec
  PROVE  /\ [q EXCEPT !.phase = "asking"] \in CallRec
         /\ [q EXCEPT !.pos = @ + 1] \in CallRec
         /\ q.inputs.rewrites < RewriteBound =>
              [q EXCEPT !.pos = @ + 1, !.inputs.rewrites = @ + 1] \in CallRec
         /\ \A m : q.pos > 0 => [q EXCEPT !.pos = @ - 1, !.open = @ \ {m}] \in CallRec
<1>1. [q EXCEPT !.phase = "asking"] \in CallRec BY DEF CallRec, Phases
<1>2. [q EXCEPT !.pos = @ + 1] \in CallRec
  <2> PICK pos \in Nat : pos = q.pos + 1 BY DEF CallRec
  <2>1. [q EXCEPT !.pos = pos] \in CallRec BY DEF CallRec
  <2> QED BY <2>1
<1>3. ASSUME q.inputs.rewrites < RewriteBound
      PROVE  [q EXCEPT !.pos = @ + 1, !.inputs.rewrites = @ + 1] \in CallRec
  <2>1. RewriteBound \in Nat BY ExecutorAssumption
  <2> PICK pos \in Nat : pos = q.pos + 1 BY DEF CallRec
  <2> PICK i \in Inputs : i = [q.inputs EXCEPT !.rewrites = @ + 1]
    <3>1. q.inputs \in Inputs BY DEF CallRec
    <3>2. ASSUME NEW i \in Inputs, i.rewrites < RewriteBound
          PROVE  [i EXCEPT !.rewrites = @ + 1] \in Inputs
      BY <2>1, <3>2 DEF Inputs
    <3> QED BY <1>3, <3>1, <3>2
  <2>2. [q EXCEPT !.pos = pos, !.inputs = i] \in CallRec BY DEF CallRec
  <2> QED BY <2>2
<1>4. ASSUME NEW m, q.pos > 0
      PROVE  [q EXCEPT !.pos = @ - 1, !.open = @ \ {m}] \in CallRec
  <2> PICK pos \in Nat : pos = q.pos - 1 BY <1>4 DEF CallRec
  <2>1. [q EXCEPT !.pos = pos, !.open = @ \ {m}] \in CallRec BY DEF CallRec
  <2> QED BY <2>1
<1> QED BY <1>1, <1>2, <1>3, <1>4

LEMMA RaceTyped ==
  ASSUME NEW q \in CallRec, NEW how \in Errors \cup {"none", "output"}
  PROVE  /\ [q EXCEPT !.phase = "racing", !.raced = "none", !.timedOut = FALSE] \in CallRec
         /\ [q EXCEPT !.raced = how] \in CallRec
         /\ [q EXCEPT !.timedOut = TRUE, !.aborted = TRUE, !.raced = how] \in CallRec
<1> PICK none \in Errors \cup {"none", "output"} : none = "none"
  OBVIOUS
<1>1. [q EXCEPT !.phase = "racing", !.raced = none, !.timedOut = FALSE] \in CallRec
  BY DEF CallRec, Phases
<1>2. [q EXCEPT !.raced = how] \in CallRec BY DEF CallRec
<1>3. [q EXCEPT !.timedOut = TRUE, !.aborted = TRUE, !.raced = how] \in CallRec
  BY DEF CallRec
<1> QED BY <1>1, <1>2, <1>3

LEMMA RestartTyped ==
  ASSUME NEW q \in CallRec
  PROVE  Restart(q) \in CallRec
<1> PICK none \in Seq(Mws) : none = <<>>
  <2>1. <<>> \in Seq(Mws) OBVIOUS
  <2> QED BY <2>1
<1> PICK first \in Steps : first = 1
  BY Lengths
<1> PICK attempts \in Nat : attempts = q.attempts + 1
  BY DEF CallRec
<1>1. [q EXCEPT !.phase = "step", !.step = first, !.executed = none, !.viaHook = FALSE,
                !.attempts = attempts, !.cleared = {}, !.approval = "none", !.open = {}]
        \in CallRec
  BY DEF CallRec, Phases
<1> QED BY <1>1 DEF Restart

----------------------------------------------------------------------------
(* The actions of one call *)

LEMMA PutKeeps ==
  ASSUME CallInv, NEW c \in Calls, NEW r \in CallRec, Fits(r, env), Put(c, r), env' = env
  PROVE  CallInv'
BY DEF CallInv, Put

LEMMA CallFacts ==
  ASSUME CallInv, NEW c \in Calls
  PROVE  call[c] \in CallRec /\ Fits(call[c], env)
BY DEF CallInv

\* The call begins, and its caller cancels it.
LEMMA CallerSteps ==
  ASSUME XInv, NEW c \in Calls, Call(c) \/ CallerCancels(c)
  PROVE  CallInv'
<1> USE DEF XInv
<1> PICK q \in CallRec : q = call[c] /\ Fits(q, env)
  BY CallFacts
<1>1. env' = env /\ env.attempts \in Nat \ {0}
  BY ExecutorAssumption DEF Around, Call, CallerCancels, settings
<1>2. CASE Call(c)
  <2>1. PICK token \in TokenKinds :
          Put(c, [q EXCEPT !.phase = "step", !.attempts = 1, !.inputs.token = token])
    BY <1>2 DEF Call
  <2> DEFINE r == [q EXCEPT !.phase = "step", !.attempts = 1, !.inputs.token = token]
  <2>2. q.phase = "idle" BY <1>2 DEF Call
  <2>3. r \in CallRec BY CallTyped
  <2>4. Fits(r, env) BY <1>1, <2>2 DEF CallRec, Fits, Running
  <2> QED BY <1>1, <2>1, <2>3, <2>4, PutKeeps
<1>3. CASE CallerCancels(c)
  <2>1. PICK how \in {"cancelled", "fatal", "output"} :
          Put(c, [q EXCEPT !.cancelled = TRUE, !.aborted = TRUE,
                    !.raced = IF q.phase = "racing" /\ @ = "none" THEN how ELSE @])
    BY <1>3 DEF CallerCancels
  <2> DEFINE r == [q EXCEPT !.cancelled = TRUE, !.aborted = TRUE,
                     !.raced = IF q.phase = "racing" /\ @ = "none" THEN how ELSE @]
  <2>2. r \in CallRec BY CancelTyped
  <2>3. Fits(r, env) BY DEF CallRec, Fits
  <2> QED BY <1>1, <2>1, <2>2, <2>3, PutKeeps
<1> QED BY <1>2, <1>3

\* The steps without an await, and the faults of the hooks around a step.
LEMMA PlainSteps ==
  ASSUME XInv, NEW c \in Calls,
         \/ HookFault(c) \/ ContextCreation(c) \/ CallChainGuard(c) \/ ModuleLookup(c)
         \/ AclCheck(c) \/ InputValidation(c) \/ OutputValidation(c) \/ ReturnResult(c)
  PROVE  CallInv'
<1> USE DEF XInv
<1> PICK q \in CallRec : q = call[c] /\ Fits(q, env)
  BY CallFacts
<1>1. env' = env
  BY DEF HookFault, ContextCreation, CallChainGuard, ModuleLookup, AclCheck,
         InputValidation, OutputValidation, ReturnResult, settings
<1>2. ASSUME NEW r \in CallRec, Fits(r, env), Put(c, r) PROVE CallInv'
  BY <1>1, <1>2, PutKeeps
<1>3. ASSUME NEW err \in Errors, Put(c, Throw(q, err)) PROVE CallInv'
  BY <1>2, <1>3, ThrowFits
<1>4. "fatal" \in Errors /\ "cancelled" \in Errors /\ "refused" \in Errors /\ "timeout" \in Errors
  BY DEF Errors
<1>5. ASSUME q.phase = "step", Strategy[q.step] \notin GateSteps \cup {"return_result"},
             Put(c, Continue(q))
      PROVE  CallInv'
  BY <1>2, <1>5, ContinueFits DEF Running
<1>6. CASE HookFault(c)
  <2>1. PICK err \in Errors : Put(c, [Throw(q, err) EXCEPT !.viaHook = TRUE])
    BY <1>6 DEF HookFault
  <2>2. Throw(q, err) \in CallRec /\ Fits(Throw(q, err), env) BY ThrowFits
  <2>3. <<>> \in Seq(Mws) OBVIOUS
  <2> QED BY <1>2, <2>1, <2>2, <2>3, SideFits
<1>7. CASE ContextCreation(c)
  <2>1. /\ q.phase = "step" /\ Strategy[q.step] = "context_creation"
        /\ Put(c, [Continue(q) EXCEPT !.aborted = q.cancelled])
    BY <1>7 DEF ContextCreation, At, Step
  <2>2. Continue(q) \in CallRec /\ Fits(Continue(q), env)
    BY <2>1, ContinueFits DEF Running, GateSteps
  <2>3. q.cancelled \in BOOLEAN /\ <<>> \in Seq(Mws) BY DEF CallRec
  <2> QED BY <1>2, <2>1, <2>2, <2>3, SideFits
<1>8. CASE CallChainGuard(c)
  BY <1>3, <1>4, <1>5, <1>8 DEF CallChainGuard, At, Step, GateSteps
<1>9. CASE ModuleLookup(c)
  <2>1. q.phase = "step" /\ Strategy[q.step] = "module_lookup"
    BY <1>9 DEF ModuleLookup, At, Step
  <2>2. Clear(q, "module_lookup") \in CallRec /\ Fits(Clear(q, "module_lookup"), env)
    BY <2>1, ClearFits DEF Running, GateSteps
  <2> QED BY <1>2, <1>3, <1>4, <1>9, <2>2 DEF ModuleLookup
<1>10. CASE AclCheck(c)
  <2>1. q.phase = "step" /\ Strategy[q.step] = "acl_check"
    BY <1>10 DEF AclCheck, At, Step
  <2>2. Clear(q, "acl_check") \in CallRec /\ Fits(Clear(q, "acl_check"), env)
    BY <2>1, ClearFits DEF Running, GateSteps
  <2>3. \A asks \in BOOLEAN :
          /\ [Clear(q, "acl_check") EXCEPT !.asks = asks] \in CallRec
          /\ Fits([Clear(q, "acl_check") EXCEPT !.asks = asks], env)
    BY <2>1, AclFits DEF Running
  <2> QED BY <1>2, <1>3, <1>4, <1>10, <2>2, <2>3 DEF AclCheck
<1>11. CASE InputValidation(c)
  BY <1>3, <1>4, <1>5, <1>11 DEF InputValidation, At, Step, GateSteps
<1>12. CASE OutputValidation(c)
  BY <1>3, <1>4, <1>5, <1>12 DEF OutputValidation, At, Step, GateSteps
<1>13. CASE ReturnResult(c)
  BY <1>2, <1>13, EndFits DEF ReturnResult
<1> QED BY <1>6, <1>7, <1>8, <1>9, <1>10, <1>11, <1>12, <1>13

\* The approval gate and its handler's answer.
LEMMA ApprovalSteps ==
  ASSUME XInv, NEW c \in Calls, ApprovalGate(c) \/ BadToken(c) \/ ApprovalAnswer(c)
  PROVE  CallInv'
<1> USE DEF XInv
<1> PICK q \in CallRec : q = call[c] /\ Fits(q, env)
  BY CallFacts
<1>1. env' = env BY DEF ApprovalGate, BadToken, ApprovalAnswer, settings
<1>2. ASSUME NEW r \in CallRec, Fits(r, env), Put(c, r) PROVE CallInv'
  BY <1>1, <1>2, PutKeeps
<1>3. "refused" \in Errors /\ <<>> \in Seq(Mws) BY DEF Errors
<1>4. CASE ApprovalGate(c)
  <2>0. q.phase = "step" /\ Strategy[q.step] = "approval_gate"
    BY <1>4 DEF ApprovalGate, At, Step
  <2> PICK r \in CallRec : r = [q EXCEPT !.inputs.token = "none"] /\ Fits(r, env)
    BY TokenFits
  <2>1. r.phase = "step" /\ r.step = q.step /\ r.asks = q.asks BY <2>0 DEF CallRec
  <2>2. ASSUME NEW how \in {"unneeded", "skipped"}, how = "unneeded" => ~q.asks,
               Put(c, [Clear(r, "approval_gate") EXCEPT !.approval = how])
        PROVE  CallInv'
    BY <1>2, <2>0, <2>1, <2>2, ApprovalFits DEF Running
  <2>3. ASSUME Put(c, [r EXCEPT !.phase = "asking"]) PROVE CallInv'
    <3>1. [r EXCEPT !.phase = "asking"] \in CallRec BY HookTyped
    <3>2. Fits([r EXCEPT !.phase = "asking"], env)
      BY <2>0, <2>1 DEF CallRec, Fits, Running
    <3> QED BY <1>2, <2>3, <3>1, <3>2
  <2>4. ASSUME Put(c, Throw(r, "refused")) PROVE CallInv'
    BY <1>2, <1>3, <2>4, ThrowFits
  <2> QED BY <1>4, <2>2, <2>3, <2>4 DEF ApprovalGate, Needs
<1>9. CASE BadToken(c)
  <2>1. q.phase = "step" /\ Put(c, Throw(q, "refused"))
    BY <1>9 DEF BadToken, At
  <2> QED BY <1>2, <1>3, <2>1, ThrowFits
<1>5. CASE ApprovalAnswer(c)
  <2>1. q.phase = "asking" /\ Strategy[q.step] = "approval_gate"
    BY <1>5 DEF ApprovalAnswer, Fits
  <2>2. CASE Put(c, [Clear(q, "approval_gate") EXCEPT !.approval = "approved"])
    BY <1>2, <2>1, <2>2, ApprovalFits DEF Running
  <2>3. CASE Put(c, Throw(q, "refused"))
    BY <1>2, <1>3, <2>3, ThrowFits
  <2> QED BY <1>5, <2>2, <2>3 DEF ApprovalAnswer
<1> QED BY <1>4, <1>5, <1>9

\* The before() chain.
LEMMA BeforeSteps ==
  ASSUME XInv, NEW c \in Calls, BeforeStarts(c) \/ BeforeHook(c) \/ BeforeEnds(c)
  PROVE  CallInv'
<1> USE DEF XInv
<1> PICK q \in CallRec : q = call[c] /\ Fits(q, env)
  BY CallFacts
<1>1. env' = env /\ mws \in Seq(Mws)
  BY DEF Around, BeforeStarts, BeforeHook, BeforeEnds, settings
<1>2. ASSUME NEW r \in CallRec, Fits(r, env), Put(c, r) PROVE CallInv'
  BY <1>1, <1>2, PutKeeps
<1>3. CASE BeforeStarts(c)
  <2> DEFINE r == [q EXCEPT !.phase = "before", !.chain = mws, !.pos = 1]
  <2>1. q.phase = "step" /\ Strategy[q.step] = "middleware_before" /\ Put(c, r)
    BY <1>3 DEF BeforeStarts, At, Step
  <2>2. r \in CallRec BY <1>1 DEF CallRec, Phases
  <2>3. Fits(r, env) BY <2>1 DEF CallRec, Fits, Running
  <2> QED BY <1>2, <2>1, <2>2, <2>3
<1>4. CASE BeforeHook(c)
  <2>1. q.phase = "before" /\ q.pos <= Len(q.chain) /\ q.pos >= 1 /\ q.pos \in Nat
        /\ q.chain \in Seq(Mws) /\ q.inputs \in Inputs
    BY <1>4 DEF BeforeHook, Fits, CallRec
  <2> PICK m \in Mws : m = q.chain[q.pos]
    BY <2>1
  <2> DEFINE r == [q EXCEPT !.open = @ \cup {m}]
  <2>2. r \in CallRec BY DEF CallRec
  <2>3. Fits(r, env) BY DEF CallRec, Fits
  <2>4. CASE Put(c, [r EXCEPT !.pos = @ + 1])
    <3>1. [r EXCEPT !.pos = @ + 1] \in CallRec BY <2>2, HookTyped
    <3>2. Fits([r EXCEPT !.pos = @ + 1], env) BY <2>1, <2>2, <2>3 DEF CallRec, Fits
    <3> QED BY <1>2, <2>4, <3>1, <3>2
  <2>5. CASE /\ q.inputs.rewrites < RewriteBound
             /\ Put(c, [r EXCEPT !.pos = @ + 1, !.inputs.rewrites = @ + 1])
    <3>1. [r EXCEPT !.pos = @ + 1, !.inputs.rewrites = @ + 1] \in CallRec
      <4>1. r.inputs = q.inputs BY DEF CallRec
      <4> QED BY <2>2, <2>5, <4>1, HookTyped
    <3>2. Fits([r EXCEPT !.pos = @ + 1, !.inputs.rewrites = @ + 1], env)
      BY <2>1, <2>2, <2>3 DEF CallRec, Fits
    <3> QED BY <1>2, <2>5, <3>1, <3>2
  <2>6. ASSUME NEW err \in {"retryable", "cancelled"},
               Put(c, [Throw(r, err) EXCEPT !.executed = SubSeq(q.chain, 1, q.pos)])
        PROVE  CallInv'
    <3>1. SubSeq(q.chain, 1, q.pos) \in Seq(Mws) BY <2>1
    <3>2. err \in Errors BY DEF Errors
    <3>3. Throw(r, err) \in CallRec /\ Fits(Throw(r, err), env) BY <2>2, <2>3, <3>2, ThrowFits
    <3> QED BY <1>2, <2>6, <3>1, <3>3, SideFits
  <2> QED BY <1>4, <2>4, <2>5, <2>6 DEF BeforeHook
<1>5. CASE BeforeEnds(c)
  <2>1. /\ q.phase = "before" /\ Strategy[q.step] = "middleware_before"
        /\ Put(c, [Continue(q) EXCEPT !.executed = q.chain])
    BY <1>5 DEF BeforeEnds, Fits
  <2>2. Continue(q) \in CallRec /\ Fits(Continue(q), env)
    BY <2>1, ContinueFits DEF Running, GateSteps
  <2>3. q.chain \in Seq(Mws) BY DEF CallRec
  <2> QED BY <1>2, <2>1, <2>2, <2>3, SideFits
<1> QED BY <1>3, <1>4, <1>5

\* The race between the body, its deadline and the caller's cancel.
LEMMA BodySteps ==
  ASSUME XInv, NEW c \in Calls,
         Execute(c) \/ BodySettles(c) \/ TimerFires(c) \/ ExecuteResumes(c)
  PROVE  CallInv'
<1> USE DEF XInv
<1> PICK q \in CallRec : q = call[c] /\ Fits(q, env)
  BY CallFacts
<1>1. env' = env BY DEF Execute, BodySettles, TimerFires, ExecuteResumes, settings
<1>2. ASSUME NEW r \in CallRec, Fits(r, env), Put(c, r) PROVE CallInv'
  BY <1>1, <1>2, PutKeeps
<1>3. "cancelled" \in Errors /\ "timeout" \in Errors /\ <<>> \in Seq(Mws) BY DEF Errors
<1>4. CASE Execute(c)
  <2> DEFINE r == [q EXCEPT !.phase = "racing", !.raced = "none", !.timedOut = FALSE]
  <2>1. q.phase = "step" /\ Strategy[q.step] = "execute"
    BY <1>4 DEF Execute, At, Step
  <2>2. r \in CallRec BY RaceTyped
  <2>3. Fits(r, env) BY <2>1 DEF CallRec, Fits, Running
  <2>4. CASE Put(c, Throw(q, "cancelled"))
    BY <1>2, <1>3, <2>4, ThrowFits
  <2>5. CASE Put(c, [Throw(q, "timeout") EXCEPT !.aborted = TRUE])
    <3>1. Throw(q, "timeout") \in CallRec /\ Fits(Throw(q, "timeout"), env)
      BY <1>3, ThrowFits
    <3> QED BY <1>2, <1>3, <2>5, <3>1, SideFits
  <2> QED BY <1>2, <1>4, <2>2, <2>3, <2>4, <2>5 DEF Execute
<1>5. CASE BodySettles(c)
  <2>1. PICK how \in {"output", "retryable", "fatal", "cancelled"} :
          Put(c, [q EXCEPT !.raced = how])
    BY <1>5 DEF BodySettles
  <2>2. [q EXCEPT !.raced = how] \in CallRec BY RaceTyped DEF Errors
  <2>3. Fits([q EXCEPT !.raced = how], env) BY DEF CallRec, Fits
  <2> QED BY <1>2, <2>1, <2>2, <2>3
<1>6. CASE TimerFires(c)
  <2>1. PICK how \in {"timeout", "output", "fatal", "cancelled"} :
          Put(c, [q EXCEPT !.timedOut = TRUE, !.aborted = TRUE, !.raced = how])
    BY <1>6 DEF TimerFires
  <2>2. [q EXCEPT !.timedOut = TRUE, !.aborted = TRUE, !.raced = how] \in CallRec
    BY RaceTyped DEF Errors
  <2>3. Fits([q EXCEPT !.timedOut = TRUE, !.aborted = TRUE, !.raced = how], env)
    BY DEF CallRec, Fits
  <2> QED BY <1>2, <2>1, <2>2, <2>3
<1>7. CASE ExecuteResumes(c)
  <2>1. /\ q.phase = "racing" /\ q.raced # "none" /\ Strategy[q.step] = "execute"
        /\ Outcome(c) \in Errors \cup {"output"}
    BY <1>3, <1>7 DEF ExecuteResumes, Outcome, Fits, CallRec
  <2>2. CASE Put(c, Continue(q))
    BY <1>2, <2>1, <2>2, ContinueFits DEF Running, GateSteps
  <2>3. CASE Outcome(c) # "output" /\ Put(c, Throw(q, Outcome(c)))
    BY <1>2, <2>1, <2>3, ThrowFits
  <2> QED BY <1>7, <2>2, <2>3 DEF ExecuteResumes
<1> QED BY <1>4, <1>5, <1>6, <1>7

\* The after() chain.
LEMMA AfterSteps ==
  ASSUME XInv, NEW c \in Calls, AfterStarts(c) \/ AfterHook(c) \/ AfterEnds(c)
  PROVE  CallInv'
<1> USE DEF XInv
<1> PICK q \in CallRec : q = call[c] /\ Fits(q, env)
  BY CallFacts
<1>1. env' = env /\ mws \in Seq(Mws)
  BY DEF Around, AfterStarts, AfterHook, AfterEnds, settings
<1>2. ASSUME NEW r \in CallRec, Fits(r, env), Put(c, r) PROVE CallInv'
  BY <1>1, <1>2, PutKeeps
<1>3. CASE AfterStarts(c)
  <2> DEFINE r == [q EXCEPT !.phase = "after", !.chain = mws, !.pos = Len(mws)]
  <2>1. q.phase = "step" /\ Strategy[q.step] = "middleware_after" /\ Put(c, r)
    BY <1>3 DEF AfterStarts, Innermost, At, Step
  <2>2. Len(mws) \in Nat BY <1>1
  <2>3. r \in CallRec BY <1>1, <2>2 DEF CallRec, Phases
  <2>4. Fits(r, env) BY <2>1 DEF CallRec, Fits, Running
  <2> QED BY <1>2, <2>1, <2>3, <2>4
<1>4. CASE AfterHook(c)
  <2>1. q.phase = "after" /\ q.pos > 0 BY <1>4 DEF AfterHook
  <2>2. PICK m : m = q.chain[q.pos] OBVIOUS
  <2> DEFINE r == [q EXCEPT !.pos = @ - 1, !.open = @ \ {m}]
  <2>3. r \in CallRec BY <2>1, HookTyped
  <2>4. Fits(r, env) BY <2>1 DEF CallRec, Fits
  <2>5. CASE Put(c, r)
    BY <1>2, <2>3, <2>4, <2>5
  <2>6. CASE Put(c, Throw(q, "retryable"))
    BY <1>2, <2>6, ThrowFits DEF Errors
  <2> QED BY <1>4, <2>2, <2>5, <2>6 DEF AfterHook
<1>5. CASE AfterEnds(c)
  <2>1. q.phase = "after" /\ Strategy[q.step] = "middleware_after" /\ Put(c, Continue(q))
    BY <1>5 DEF AfterEnds, Fits
  <2> QED BY <1>2, <2>1, ContinueFits DEF Running, GateSteps
<1> QED BY <1>3, <1>4, <1>5

\* The catch of call(), and the attempt after it.
LEMMA CatchSteps ==
  ASSUME XInv, NEW c \in Calls,
         \/ Caught(c) \/ OnErrorRetries(c) \/ OnErrorPasses(c) \/ OnErrorRecovers(c)
         \/ OnErrorEnds(c) \/ Retry(c)
  PROVE  CallInv'
<1> USE DEF XInv
<1> PICK q \in CallRec : q = call[c] /\ Fits(q, env)
  BY CallFacts
<1>1. env' = env
  BY DEF Caught, OnErrorRetries, OnErrorPasses, OnErrorRecovers, OnErrorEnds, Retry, settings
<1>2. ASSUME NEW r \in CallRec, Fits(r, env), Put(c, r) PROVE CallInv'
  BY <1>1, <1>2, PutKeeps
<1>3. q.error \in Errors /\ q.executed \in Seq(Mws) /\ q.pos \in Nat BY DEF CallRec
<1>4. PICK m : m = Handling(c) OBVIOUS
<1>5. CASE Caught(c)
  <2> DEFINE r == [q EXCEPT !.phase = "onError", !.pos = Len(q.executed)]
  <2>1. Len(q.executed) \in Nat BY <1>3
  <2>2. r \in CallRec BY <2>1 DEF CallRec, Phases
  <2>3. Fits(r, env) BY DEF CallRec, Fits, Running
  <2>4. CASE Put(c, End(q, q.error))
    BY <1>2, <1>3, <2>4, EndFits
  <2> QED BY <1>2, <1>5, <2>2, <2>3, <2>4 DEF Caught
<1>6. CASE OnErrorRetries(c)
  <2> DEFINE r == [q EXCEPT !.phase = "sleeping", !.open = @ \ {m}]
  <2>1. q.attempts < env.attempts /\ Put(c, r) BY <1>4, <1>6 DEF OnErrorRetries
  <2>2. r \in CallRec BY DEF CallRec, Phases
  <2>3. Fits(r, env) BY <2>1 DEF CallRec, Fits, Running
  <2> QED BY <1>2, <2>1, <2>2, <2>3
<1>7. CASE OnErrorPasses(c)
  <2> DEFINE r == [q EXCEPT !.pos = @ - 1, !.open = @ \ {m}]
  <2>1. q.phase = "onError" /\ q.pos > 0 /\ Put(c, r)
    BY <1>4, <1>7 DEF OnErrorPasses, NextHandler
  <2>2. r \in CallRec BY <2>1, HookTyped
  <2>3. Fits(r, env) BY <2>1 DEF CallRec, Fits, Running
  <2> QED BY <1>2, <2>1, <2>2, <2>3
<1>8. CASE OnErrorRecovers(c)
  BY <1>2, <1>8, EndFits DEF OnErrorRecovers
<1>9. CASE OnErrorEnds(c)
  BY <1>2, <1>3, <1>9, EndFits DEF OnErrorEnds
<1>10. CASE Retry(c)
  <2>1. q.phase = "sleeping" /\ Put(c, Restart(q)) BY <1>10 DEF Retry
  <2>2. q.attempts < env.attempts BY <2>1 DEF Fits
  <2>3. env.attempts \in Nat BY ExecutorAssumption DEF Around
  <2>4. Fits(Restart(q), env)
    BY <2>2, <2>3, Lengths DEF CallRec, Fits, Running, Restart
  <2> QED BY <1>2, <2>1, <2>4, RestartTyped
<1> QED BY <1>5, <1>6, <1>7, <1>8, <1>9, <1>10

----------------------------------------------------------------------------
(* What is around the calls *)

LEMMA AroundNext ==
  ASSUME Around, Next
  PROVE  Around'
<1> USE DEF Around
<1>1. ASSUME NEW c \in Calls PROVE ContextOf(c) \in Contexts
  BY DEF Contexts
<1>2. ASSUME NEW c \in Calls, AfterHook(c) PROVE Around'
  <2>1. counter' \in [Contexts -> [count : Nat, lost : Nat]] BY <1>1, <1>2 DEF AfterHook
  <2> QED BY <1>2, <2>1 DEF AfterHook, settings
<1>3. ASSUME NEW c \in Calls, OnErrorRetries(c) PROVE Around'
  <2>1. counter' \in [Contexts -> [count : Nat, lost : Nat]]
    <3>1. counter' = [counter EXCEPT ![ContextOf(c)].count = @ + 1]
      BY <1>3 DEF OnErrorRetries
    <3>2. \A n \in [count : Nat, lost : Nat] : [n EXCEPT !.count = @ + 1] \in [count : Nat, lost : Nat]
      OBVIOUS
    <3> QED BY <3>1, <3>2
  <2> QED BY <1>3, <2>1 DEF OnErrorRetries, settings
<1>4. ASSUME NEW c \in Calls, ~AfterHook(c), ~OnErrorRetries(c),
             Call(c) \/ CallerCancels(c) \/ BodySettles(c) \/ Progress(c)
      PROVE  UNCHANGED <<counter, mws, settings>>
  BY <1>4
  DEF Call, CallerCancels, BodySettles, Progress, HookFault, ContextCreation, CallChainGuard,
      ModuleLookup, AclCheck, ApprovalGate, BadToken, ApprovalAnswer, BeforeStarts, BeforeHook,
      BeforeEnds, InputValidation, Execute, TimerFires, ExecuteResumes, OutputValidation,
      AfterStarts, AfterEnds, ReturnResult, Caught, OnErrorPasses, OnErrorRecovers,
      OnErrorEnds, Retry
<1>5. ASSUME NEW c \in Calls, Call(c) \/ CallerCancels(c) \/ BodySettles(c) \/ Progress(c)
      PROVE  Around'
  BY <1>2, <1>3, <1>4, <1>5 DEF settings
<1>6. CASE RemoveMiddleware
  <2>1. PICK i \in DOMAIN mws : mws' = SubSeq(mws, 1, i - 1) \o SubSeq(mws, i + 1, Len(mws))
    BY <1>6 DEF RemoveMiddleware
  <2>2. SubSeq(mws, 1, i - 1) \in Seq(Mws) /\ SubSeq(mws, i + 1, Len(mws)) \in Seq(Mws)
    <3>1. i \in 1 .. Len(mws) /\ Len(mws) \in Nat OBVIOUS
    <3>2. \A j \in 1 .. (i - 1) : mws[j] \in Mws BY <3>1
    <3>3. \A j \in (i + 1) .. Len(mws) : mws[j] \in Mws BY <3>1
    <3> QED BY <3>1, <3>2, <3>3
  <2>3. mws' \in Seq(Mws) BY <2>1, <2>2
  <2> QED BY <1>6, <2>3 DEF RemoveMiddleware, settings
<1>7. CASE Use
  <2>1. mws' \in Seq(Mws) BY <1>7 DEF Use
  <2> QED BY <1>7, <2>1 DEF Use, settings
<1>8. CASE Toggle
  BY <1>8 DEF Toggle
<1>9. CASE SetProviders
  BY <1>9 DEF SetProviders
<1> QED BY <1>5, <1>6, <1>7, <1>8, <1>9 DEF Next

LEMMA CallNext ==
  ASSUME XInv, Next
  PROVE  CallInv'
<1>1. ASSUME NEW c \in Calls, Call(c) \/ CallerCancels(c) \/ BodySettles(c) \/ Progress(c)
      PROVE  CallInv'
  BY <1>1, CallerSteps, PlainSteps, ApprovalSteps, BeforeSteps, BodySteps, AfterSteps,
     CatchSteps
  DEF Progress
<1>2. CASE RemoveMiddleware \/ Use \/ Toggle \/ SetProviders
  BY <1>2 DEF RemoveMiddleware, Use, Toggle, SetProviders, settings, XInv, CallInv
<1> QED BY <1>1, <1>2 DEF Next

LEMMA InitHolds == Init => XInv
<1> SUFFICES ASSUME Init PROVE XInv
  OBVIOUS
<1>1. Fresh \in CallRec
  <2> PICK none \in Seq(Mws) : none = <<>>
    <3>1. <<>> \in Seq(Mws) OBVIOUS
    <3> QED BY <3>1
  <2>1. [token |-> "none", rewrites |-> 0] \in Inputs BY ExecutorAssumption DEF Inputs, TokenKinds
  <2> PICK first \in Steps : first = 1
    BY Lengths
  <2>2. Fresh = [phase |-> "idle", step |-> first, pos |-> 0,
                 inputs |-> [token |-> "none", rewrites |-> 0],
                 chain |-> none, executed |-> none,
                 error |-> "fatal", viaHook |-> FALSE,
                 cancelled |-> FALSE, aborted |-> FALSE, timedOut |-> FALSE,
                 raced |-> "none", attempts |-> 0, result |-> "none",
                 asks |-> FALSE, cleared |-> {}, approval |-> "none", open |-> {}]
    BY DEF Fresh
  <2> QED BY <2>1, <2>2 DEF CallRec, Phases, Errors
<1>2. env \in Environments BY DEF Init
<1>3. Fits(Fresh, env)
  BY <1>2, Lengths, ExecutorAssumption DEF Fits, Fresh, Running
<1>4. CallInv BY <1>1, <1>3 DEF Init, CallInv
<1>5. Around BY ExecutorAssumption DEF Init, Around
<1> QED BY <1>4, <1>5 DEF XInv

LEMMA NextHolds == XInv /\ [Next]_vars => XInv'
<1> SUFFICES ASSUME XInv, [Next]_vars PROVE XInv'
  OBVIOUS
<1>1. CASE Next BY <1>1, AroundNext, CallNext DEF XInv
<1>2. CASE UNCHANGED vars
  BY <1>2 DEF vars, settings, XInv, CallInv, Around
<1> QED BY <1>1, <1>2

LEMMA ExecutorInductive == Spec => []XInv
BY InitHolds, NextHolds, PTL DEF Spec

----------------------------------------------------------------------------
(* The theorems *)

LEMMA TypesFollow == XInv => TypeOK
<1> SUFFICES ASSUME XInv PROVE TypeOK
  OBVIOUS
<1>1. ASSUME NEW c \in Calls PROVE call[c].attempts \in 0 .. env.attempts
  <2>1. call[c] \in CallRec /\ call[c].attempts <= env.attempts
    BY DEF XInv, CallInv, Fits
  <2>2. env.attempts \in Nat BY ExecutorAssumption DEF XInv, Around
  <2> QED BY <2>1, <2>2 DEF CallRec
<1> PICK bounded : bounded = 0 .. env.attempts
  OBVIOUS
<1>2. ASSUME NEW q \in CallRec, q.attempts \in bounded
      PROVE  q \in [phase : Phases, step : Steps, pos : Nat, inputs : Inputs,
                    chain : Seq(Mws), executed : Seq(Mws),
                    error : Errors, viaHook : BOOLEAN,
                    cancelled : BOOLEAN, aborted : BOOLEAN, timedOut : BOOLEAN,
                    raced : Errors \cup {"none", "output"}, attempts : bounded,
                    result : Errors \cup {"none", "output", "recovered"},
                    asks : BOOLEAN, cleared : SUBSET GateSteps,
                    approval : {"none", "unneeded", "skipped", "approved"},
                    open : SUBSET Mws]
  BY <1>2 DEF CallRec
<1>3. call \in [Calls -> CallRec] BY DEF XInv, CallInv
<1> QED BY <1>1, <1>2, <1>3 DEF XInv, Around, TypeOK, Steps

\* In every attempt of every call the module body runs only behind every gate
\* of the strategy, passed in that same attempt, and never on a conditional
\* "allow" of the ACL that nobody was asked about: for every number of calls,
\* middleware chain, environment and retry budget, as long as the strategy
\* keeps its gates before the body and the ACL before the approval gate.
THEOREM NoBodyUngated ==
  ASSUME BuiltInOrder
  PROVE  Spec => []GatesHold
<1>1. XInv => EveryAttemptGated /\ AclApprovalHonoured
  <2> SUFFICES ASSUME XInv, NEW c \in Calls, call[c].phase = "racing"
               PROVE  /\ call[c].cleared = Gates
                      /\ call[c].asks /\ "approval_gate" \in Gates
                           => call[c].approval \in {"approved", "skipped"}
    BY DEF EveryAttemptGated, AclApprovalHonoured
  <2>1. call[c] \in CallRec /\ Fits(call[c], env) BY DEF XInv, CallInv
  <2>2. call[c].step \in Steps BY <2>1 DEF CallRec
  <2>3. Strategy[call[c].step] = "execute" /\ call[c].cleared = Passed(call[c].step)
    BY <2>1 DEF Fits, Running
  <2>4. call[c].cleared = Gates BY <2>2, <2>3, OrderPassed
  <2> QED BY <2>1, <2>4 DEF Fits, Running
<1> QED BY <1>1, TypesFollow, ExecutorInductive, PTL DEF GatesHold

\* Once its timer has fired, an attempt whose body was running fails with the
\* timeout, whatever the body or the abort listeners settled the race with
\* before: for every strategy.
THEOREM TimeoutIsFinal == Spec => DeadlineOwnsError
<1> DEFINE Owns == \A c \in Calls :
             (call[c].phase = "racing" /\ call[c].timedOut /\ call'[c].phase # "racing")
               => call'[c].phase = "caught" /\ call'[c].error = "timeout"
<1>1. XInv /\ [Next]_vars => [Owns]_vars
  <2> SUFFICES ASSUME XInv, Next, NEW d \in Calls, call[d].phase = "racing",
                      call[d].timedOut, call'[d].phase # "racing"
               PROVE  call'[d].phase = "caught" /\ call'[d].error = "timeout"
    OBVIOUS
  <2>0. call \in [Calls -> CallRec] /\ call[d] \in CallRec BY DEF XInv, CallInv
  <2>1. PICK c \in Calls : Call(c) \/ CallerCancels(c) \/ BodySettles(c) \/ Progress(c)
    BY DEF Next, RemoveMiddleware, Use, Toggle, SetProviders, settings
  <2>2. c = d
    <3>1. PICK r : Put(c, r)
      BY <2>1
      DEF Call, CallerCancels, BodySettles, Progress, HookFault, ContextCreation,
          CallChainGuard, ModuleLookup, AclCheck, ApprovalGate, BadToken, ApprovalAnswer, BeforeStarts,
          BeforeHook, BeforeEnds, InputValidation, Execute, TimerFires, ExecuteResumes,
          OutputValidation, AfterStarts, AfterHook, AfterEnds, ReturnResult, Caught,
          OnErrorRetries, OnErrorPasses, OnErrorRecovers, OnErrorEnds, Retry
    <3> QED BY <2>0, <3>1 DEF Put
  <2>3. CASE CallerCancels(d)
    BY <2>0, <2>3 DEF CallerCancels, Put, CallRec
  <2>4. CASE BodySettles(d)
    BY <2>0, <2>4 DEF BodySettles, Put, CallRec
  <2>5. CASE TimerFires(d)
    BY <2>0, <2>5 DEF TimerFires, Put, CallRec
  <2>6. CASE ExecuteResumes(d)
    <3>1. Put(d, Throw(call[d], "timeout")) BY <2>6 DEF ExecuteResumes, Outcome
    <3> QED BY <2>0, <3>1 DEF Put, Throw, CallRec
  <2> QED
    BY <2>1, <2>2, <2>3, <2>4, <2>5, <2>6
    DEF Call, Progress, HookFault, ContextCreation, CallChainGuard, ModuleLookup, AclCheck,
        ApprovalGate, BadToken, ApprovalAnswer, BeforeStarts, BeforeHook, BeforeEnds, InputValidation,
        Execute, OutputValidation, AfterStarts, AfterHook, AfterEnds, ReturnResult, Caught,
        OnErrorRetries, OnErrorPasses, OnErrorRecovers, OnErrorEnds, Retry, At
<1> QED BY <1>1, ExecutorInductive, PTL DEF Spec, DeadlineOwnsError

-----------------------------------------------------------------------------
(***************************************************************************)
(* The two channels of a cancellation and the completeness of drain(), for  *)
(* every number of tokens and bodies, every shape of the tree and both      *)
(* builds of the link between signals.                                      *)
(*                                                                          *)
(* The invariant says what the ownership sets are (a tree), that a flag is   *)
(* only raised with its signal, that without AbortSignal.any an abort has   *)
(* reached everything still attached below it, and that a running body is   *)
(* registered with all owners of its scope.                                 *)
(***************************************************************************)

Tokenlike == [owners : SUBSET Tokens, cancelled : BOOLEAN, aborted : BOOLEAN,
              linked : BOOLEAN, disposed : BOOLEAN]

CancelTypes ==
  /\ hasAny \in {"", "yes", "no"}
  /\ DOMAIN tokens \subseteq Tokens /\ Root \in DOMAIN tokens
  /\ tokens \in [DOMAIN tokens -> Tokenlike]
  /\ bodies \in [Bodies -> [phase : {"new", "running", "settled"}, scope : Tokens]]
  /\ pending \in [Tokens -> SUBSET Bodies]
  /\ resets \in Nat

\* A token owns itself, and its owners are those of its parent besides.
Tree ==
  /\ Owners(Root) = {Root}
  /\ hasAny = "" => DOMAIN tokens = {Root}
  /\ \A t \in DOMAIN tokens :
       /\ t \in Owners(t) /\ Owners(t) \subseteq DOMAIN tokens
       /\ \A u \in Owners(t) : Owners(u) \subseteq Owners(t) /\ (t \in Owners(u) => u = t)

\* cancel() raises the flag and aborts in one turn, and nothing takes an abort
\* back; what aborts a token is a cancel() of one of its owners.
FlagsAbort == \A t \in DOMAIN tokens : tokens[t].cancelled => tokens[t].aborted

AbortsCaused ==
  resets = 0 => \A t \in DOMAIN tokens :
    tokens[t].aborted => \E u \in Owners(t) : tokens[u].cancelled

\* Without AbortSignal.any: an attached token hears its parent until it is
\* aborted, so an abort above it has reached it.
Listens ==
  hasAny = "no" => \A t \in DOMAIN tokens : Attached(t) =>
    /\ t # Root /\ ~tokens[t].aborted => tokens[t].linked
    /\ \A u \in Owners(t) : tokens[u].aborted => tokens[t].aborted

\* trackExecution registers a body with its scope and all tokens above.
Registered ==
  \A b \in Bodies :
    /\ bodies[b].phase # "new" => bodies[b].scope \in DOMAIN tokens
    /\ bodies[b].phase = "running" => \A u \in Owners(bodies[b].scope) : b \in pending[u]

CancelInv == CancelTypes /\ Tree /\ FlagsAbort /\ AbortsCaused /\ Listens /\ Registered

----------------------------------------------------------------------------
(* Steps that leave the tokens alone *)

LEMMA InitInv == CancelInit => CancelInv
<1> SUFFICES ASSUME CancelInit PROVE CancelInv
  OBVIOUS
<1> USE CancelAssumption DEF CancelInit, FreshToken
<1>1. /\ DOMAIN tokens = {Root}
      /\ tokens[Root] = [owners |-> {Root}, cancelled |-> FALSE, aborted |-> FALSE,
                         linked |-> FALSE, disposed |-> FALSE]
  OBVIOUS
<1>2. CancelTypes
  BY <1>1 DEF CancelTypes, Tokenlike
<1>3. Tree
  BY <1>1 DEF Tree, Owners
<1>4. FlagsAbort /\ AbortsCaused /\ Listens
  BY <1>1 DEF FlagsAbort, AbortsCaused, Listens, Owners
<1>5. Registered
  BY DEF Registered
<1> QED
  BY <1>2, <1>3, <1>4, <1>5 DEF CancelInv

\* The runtime is decided while there is only the root, which nothing is above.
LEMMA StartKeeps == ASSUME CancelInv, RuntimeStarts PROVE CancelInv'
<1> USE DEF CancelInv, RuntimeStarts
<1>1. CancelTypes' /\ FlagsAbort' /\ AbortsCaused' /\ Registered'
  BY DEF CancelTypes, FlagsAbort, AbortsCaused, Registered, Owners
<1>2. Tree'
  BY DEF Tree, Owners
<1>3. Listens'
  BY DEF Tree, Listens, Owners
<1> QED
  BY <1>1, <1>2, <1>3

\* A body registers, settles and is untracked; drain() only looks.
LEMMA BodyKeeps ==
  ASSUME CancelInv,
         NEW b \in Bodies,
         BodyEnds(b) \/ Untrack(b) \/ \E t \in Tokens : TrackExecution(b, t)
  PROVE  CancelInv'
<1> USE DEF CancelInv
<1>1. UNCHANGED <<hasAny, tokens, resets>>
  BY DEF BodyEnds, Untrack, TrackExecution
<1>2. Tree' /\ FlagsAbort' /\ AbortsCaused' /\ Listens'
  BY <1>1 DEF Tree, FlagsAbort, AbortsCaused, Listens, Owners, Attached
<1>3. CASE BodyEnds(b)
  BY <1>1, <1>2, <1>3 DEF BodyEnds, CancelTypes, Registered, Owners
<1>4. CASE Untrack(b)
  <2>1. /\ bodies' = bodies /\ bodies[b].phase = "settled"
        /\ pending' = [t \in Tokens |-> pending[t] \ {b}]
    BY <1>4 DEF Untrack
  <2>2. CancelTypes'
    BY <1>1, <2>1 DEF CancelTypes
  <2>3. Registered'
    <3>1. \A c \in Bodies : bodies[c].phase = "running" =>
            \A u \in Owners(bodies[c].scope) : u \in Tokens /\ c # b
      BY <2>1 DEF CancelTypes, Registered, Tree
    <3>2. \A u \in Tokens : pending'[u] = pending[u] \ {b}
      BY <2>1
    <3> QED
      BY <1>1, <2>1, <3>1, <3>2 DEF Registered, Owners
  <2> QED
    BY <1>2, <2>2, <2>3
<1>5. ASSUME NEW t \in Tokens, TrackExecution(b, t) PROVE CancelInv'
  <2>1. CancelTypes'
    BY <1>1, <1>5 DEF TrackExecution, CancelTypes
  <2>2. Registered'
    <3> SUFFICES ASSUME NEW c \in Bodies PROVE
          /\ bodies'[c].phase # "new" => bodies'[c].scope \in DOMAIN tokens'
          /\ bodies'[c].phase = "running" =>
               \A u \in Owners(bodies[c].scope)' : c \in pending'[u]
      BY DEF Registered
    <3>1. /\ t \in DOMAIN tokens
          /\ bodies' = [bodies EXCEPT ![b] = [phase |-> "running", scope |-> t]]
          /\ \A u \in Tokens : pending[u] \subseteq pending'[u]
          /\ \A u \in Owners(t) : u \in Tokens => b \in pending'[u]
      BY <1>5 DEF TrackExecution, Tree
    <3>2. CASE c = b
      <4>1. bodies'[c] = [phase |-> "running", scope |-> t]
        BY <3>1, <3>2 DEF CancelTypes
      <4>2. \A u \in Owners(t) : u \in Tokens
        BY <3>1 DEF CancelTypes, Tree
      <4> QED
        BY <1>1, <3>1, <3>2, <4>1, <4>2 DEF Owners
    <3>3. CASE c # b
      <4>1. bodies'[c] = bodies[c]
        BY <3>1, <3>3 DEF CancelTypes
      <4>2. bodies[c].phase = "running" => \A u \in Owners(bodies[c].scope) : u \in Tokens
        BY DEF CancelTypes, Registered, Tree
      <4> QED
        BY <1>1, <3>1, <4>1, <4>2 DEF Registered, Owners
    <3> QED
      BY <3>2, <3>3
  <2> QED
    BY <1>2, <2>1, <2>2
<1> QED
  BY <1>3, <1>4, <1>5

LEMMA DrainKeeps ==
  ASSUME CancelInv, DrainResumes \/ (\E t \in Tokens : DrainCall(t))
  PROVE  CancelInv'
BY DEF CancelInv, DrainResumes, DrainCall, CancelTypes, Tree, FlagsAbort, AbortsCaused,
       Listens, Registered, Owners, Attached

----------------------------------------------------------------------------
(* Steps that change the tokens *)

\* A new token is fresh, below its parent, and aborted if the parent is.
LEMMA NewTokenKeeps ==
  ASSUME CancelInv, NEW t \in Tokens, NEW parent \in Tokens, NewToken(t, parent)
  PROVE  CancelInv'
<1> USE DEF CancelInv
<1> DEFINE listens == hasAny = "no"
           above == SignalAborted(parent)
<1>1. /\ t \in Tokens \ DOMAIN tokens /\ parent \in DOMAIN tokens
      /\ hasAny # "" /\ UNCHANGED <<hasAny, bodies, pending, drain, resets>>
  BY DEF NewToken, Unused
<1>2. /\ DOMAIN tokens' = DOMAIN tokens \cup {t}
      /\ \A u \in DOMAIN tokens : tokens'[u] = tokens[u]
      /\ tokens'[t] = FreshToken({t} \cup Owners(parent), listens /\ above, listens /\ ~above)
  BY <1>1 DEF NewToken
<1>3. /\ tokens'[t].owners = {t} \cup Owners(parent)
      /\ tokens'[t].cancelled = FALSE /\ tokens'[t].disposed = FALSE
      /\ tokens'[t].aborted = (listens /\ above)
      /\ tokens'[t].linked = (listens /\ ~above)
      /\ tokens'[t] \in Tokenlike
  <2>1. {t} \cup Owners(parent) \in SUBSET Tokens
    BY <1>1 DEF CancelTypes, Tokenlike, Owners
  <2>2. (listens /\ above) \in BOOLEAN /\ (listens /\ ~above) \in BOOLEAN
    OBVIOUS
  <2> HIDE DEF listens, above
  <2> QED
    BY <1>2, <2>1, <2>2 DEF FreshToken, Tokenlike
<1> HIDE DEF listens, above
<1>4. CancelTypes'
  <2>1. tokens' = [u \in DOMAIN tokens' |-> tokens'[u]]
    BY <1>1 DEF NewToken
  <2>2. \A u \in DOMAIN tokens' : tokens'[u] \in Tokenlike
    BY <1>2, <1>3 DEF CancelTypes
  <2> QED
    BY <1>1, <1>2, <2>1, <2>2 DEF CancelTypes
<1>5. Tree'
  BY <1>1, <1>2, <1>3 DEF Tree, Owners, CancelTypes
<1>6. FlagsAbort' 
  BY <1>1, <1>2, <1>3 DEF FlagsAbort
<1>7. listens => (above <=> tokens[parent].aborted)
  BY DEF listens, above, SignalAborted
<1>8. AbortsCaused'
  <2> SUFFICES ASSUME resets = 0, NEW v \in DOMAIN tokens', tokens'[v].aborted
               PROVE  \E u \in Owners(v)' : tokens'[u].cancelled
    BY <1>1 DEF AbortsCaused
  <2>1. PICK w \in DOMAIN tokens : tokens[w].aborted /\ Owners(w) \subseteq Owners(v)'
    <3>1. CASE v = t
      BY <1>1, <1>2, <1>3, <1>7, <3>1 DEF Owners
    <3>2. CASE v # t
      BY <1>2, <3>2 DEF Owners
    <3> QED
      BY <3>1, <3>2
  <2>2. PICK u \in Owners(w) : tokens[u].cancelled
    BY <2>1 DEF AbortsCaused
  <2> QED
    BY <1>2, <2>1, <2>2 DEF Tree
<1>9. Listens'
  <2> SUFFICES ASSUME hasAny = "no", NEW v \in DOMAIN tokens', Attached(v)'
               PROVE  /\ v # Root /\ ~tokens'[v].aborted => tokens'[v].linked
                      /\ \A u \in Owners(v)' : tokens'[u].aborted => tokens'[v].aborted
    BY <1>1 DEF Listens
  <2>0. listens /\ hasAny # "yes"
    BY DEF listens
  <2>1. CASE v = t
    <3>1. Attached(parent)
      BY <1>1, <1>2, <1>3, <2>0, <2>1 DEF Attached, Tree, Owners
    <3>2. tokens[parent].aborted => tokens'[t].aborted
      BY <1>3, <1>7, <2>0
    <3>3. \A u \in Owners(parent) : tokens[u].aborted => tokens[parent].aborted
      BY <1>1, <2>0, <3>1 DEF Listens, listens
    <3>4. ASSUME NEW u \in Owners(t)', tokens'[u].aborted PROVE tokens'[t].aborted
      <4>1. CASE u = t
        BY <3>4, <4>1
      <4>2. CASE u # t
        <5>1. u \in Owners(parent) /\ tokens'[u] = tokens[u]
          BY <1>1, <1>2, <1>3, <4>2 DEF Owners, Tree
        <5> QED
          BY <3>2, <3>3, <3>4, <5>1
      <4> QED
        BY <4>1, <4>2
    <3>5. tokens'[t].aborted \/ tokens'[t].linked
      BY <1>3, <2>0
    <3> QED
      BY <2>1, <3>4, <3>5
  <2>2. CASE v # t
    <3>1. v \in DOMAIN tokens /\ Attached(v)
      BY <1>1, <1>2, <2>0, <2>2 DEF Attached, Tree, Owners
    <3> QED
      BY <1>1, <1>2, <2>0, <3>1 DEF Listens, Tree, Owners
  <2> QED
    BY <2>1, <2>2
<1>10. Registered'
  BY <1>1, <1>2 DEF Registered, Owners
<1> QED
  BY <1>4, <1>5, <1>6, <1>8, <1>9, <1>10

\* The tokens keep their owners, and hence the tree its shape.
LEMMA SameTree ==
  ASSUME CancelInv, hasAny # "", UNCHANGED <<hasAny, bodies, pending>>,
         DOMAIN tokens' = DOMAIN tokens,
         \A u \in DOMAIN tokens : tokens'[u].owners = tokens[u].owners
  PROVE  Tree' /\ Registered' /\ \A u \in DOMAIN tokens : Owners(u)' = Owners(u)
BY DEF CancelInv, CancelTypes, Tree, Registered, Owners

LEMMA CancelKeeps == ASSUME CancelInv, NEW t \in Tokens, Cancel(t) PROVE CancelInv'
<1> USE DEF CancelInv
<1> DEFINE hit == IF tokens[t].aborted THEN {t} ELSE AbortReaches(t)
<1>1. t \in DOMAIN tokens /\ hasAny # "" /\ UNCHANGED <<hasAny, bodies, pending, drain, resets>>
  BY DEF Cancel
<1>2. tokens' = [u \in DOMAIN tokens |->
                   [tokens[u] EXCEPT !.cancelled = @ \/ u = t,
                                     !.aborted = @ \/ u \in hit,
                                     !.linked = @ /\ u \notin hit]]
  BY DEF Cancel
<1>3. t \in hit /\ hit \subseteq Descendants(t)
  BY <1>1 DEF AbortReaches, Descendants, Tree, Owners
<1> HIDE DEF hit
<1>4. /\ DOMAIN tokens' = DOMAIN tokens
      /\ \A u \in DOMAIN tokens :
           /\ tokens'[u].owners = tokens[u].owners
           /\ tokens'[u].disposed = tokens[u].disposed
           /\ tokens'[u].cancelled <=> tokens[u].cancelled \/ u = t
           /\ tokens'[u].aborted <=> tokens[u].aborted \/ u \in hit
           /\ tokens'[u].linked <=> tokens[u].linked /\ u \notin hit
           /\ tokens'[u] \in Tokenlike
      /\ tokens' = [u \in DOMAIN tokens' |-> tokens'[u]]
  BY <1>2 DEF CancelTypes, Tokenlike
<1>5. Tree' /\ Registered' /\ \A u \in DOMAIN tokens : Owners(u)' = Owners(u)
  BY <1>1, <1>4, SameTree
<1>6. CancelTypes'
  BY <1>1, <1>4 DEF CancelTypes
<1>7. FlagsAbort'
  BY <1>3, <1>4 DEF FlagsAbort
<1>8. AbortsCaused'
  BY <1>1, <1>3, <1>4, <1>5 DEF AbortsCaused, Tree, Descendants, Owners
<1>9. Listens'
  <2> SUFFICES ASSUME hasAny = "no", NEW v \in DOMAIN tokens, Attached(v)
               PROVE  /\ v # Root /\ ~tokens'[v].aborted => tokens'[v].linked
                      /\ \A u \in Owners(v) : tokens'[u].aborted => tokens'[v].aborted
    BY <1>1, <1>4, <1>5 DEF Listens, Attached, Tree
  <2>1. v # Root /\ ~tokens'[v].aborted => tokens'[v].linked
    BY <1>4 DEF Listens
  <2>2. ASSUME NEW u \in Owners(v), tokens'[u].aborted, ~tokens[v].aborted
        PROVE  v \in hit
    <3>1. u \in DOMAIN tokens /\ ~tokens[u].aborted /\ u \in hit
      BY <1>4, <2>2 DEF Tree, Listens
    <3>2. t \in Owners(v) /\ ~tokens[t].aborted
      BY <1>1, <1>3, <2>2, <3>1 DEF Descendants, Tree, Owners, Listens
    <3>3. ASSUME NEW w \in Descendants(t), w # t, w \in Owners(v) PROVE tokens[w].linked
      <4>1. w \in DOMAIN tokens /\ Attached(w)
        BY <3>3 DEF Attached, Tree
      <4>2. w # Root
        BY <3>3 DEF Descendants, Tree, Owners
      <4>3. ~tokens[w].aborted
        BY <2>2, <3>3 DEF Listens
      <4> QED
        BY <4>1, <4>2, <4>3 DEF Listens
    <3> QED
      BY <1>1, <3>2, <3>3 DEF hit, AbortReaches, Descendants, Owners
  <2> QED
    BY <1>4, <2>1, <2>2
<1> QED
  BY <1>5, <1>6, <1>7, <1>8, <1>9

\* Letting go of the parent's signal only detaches.
LEMMA DisposeKeeps == ASSUME CancelInv, NEW t \in Tokens, Dispose(t) PROVE CancelInv'
<1> USE DEF CancelInv
<1>1. /\ hasAny = "no" /\ t \in DOMAIN tokens
      /\ UNCHANGED <<hasAny, bodies, pending, drain, resets>>
      /\ DOMAIN tokens' = DOMAIN tokens
      /\ \A u \in DOMAIN tokens :
           /\ tokens'[u].owners = tokens[u].owners
           /\ tokens'[u].cancelled = tokens[u].cancelled
           /\ tokens'[u].aborted = tokens[u].aborted
           /\ tokens'[u].disposed <=> tokens[u].disposed \/ u = t
           /\ u # t => tokens'[u].linked = tokens[u].linked
           /\ tokens'[u] \in Tokenlike
      /\ tokens' = [u \in DOMAIN tokens' |-> tokens'[u]]
  BY DEF Dispose, CancelTypes, Tokenlike
<1>2. Tree' /\ Registered' /\ \A u \in DOMAIN tokens : Owners(u)' = Owners(u)
  BY <1>1, SameTree
<1>3. CancelTypes' /\ FlagsAbort'
  BY <1>1 DEF CancelTypes, FlagsAbort
<1>4. AbortsCaused'
  BY <1>1, <1>2 DEF AbortsCaused, Tree
<1>5. Listens'
  BY <1>1, <1>2 DEF Listens, Attached, Tree
<1> QED
  BY <1>2, <1>3, <1>4, <1>5

\* reset() lowers one flag and aborts nothing.
LEMMA ResetKeeps == ASSUME CancelInv, NEW t \in Tokens, Reset(t) PROVE CancelInv'
<1> USE DEF CancelInv
<1>1. /\ hasAny # "" /\ t \in DOMAIN tokens /\ resets' = resets + 1
      /\ UNCHANGED <<hasAny, bodies, pending, drain>>
      /\ DOMAIN tokens' = DOMAIN tokens
      /\ \A u \in DOMAIN tokens :
           /\ tokens'[u].owners = tokens[u].owners
           /\ tokens'[u].aborted = tokens[u].aborted
           /\ tokens'[u].disposed = tokens[u].disposed
           /\ tokens'[u].linked = tokens[u].linked
           /\ tokens'[u].cancelled => tokens[u].cancelled
           /\ tokens'[u] \in Tokenlike
      /\ tokens' = [u \in DOMAIN tokens' |-> tokens'[u]]
  BY DEF Reset, CancelTypes, Tokenlike
<1>2. Tree' /\ Registered' /\ \A u \in DOMAIN tokens : Owners(u)' = Owners(u)
  BY <1>1, SameTree
<1>3. resets \in Nat /\ resets' = resets + 1
  BY <1>1 DEF CancelTypes
<1>4. CancelTypes' /\ FlagsAbort'
  <2>1. resets' \in Nat
    BY <1>3
  <2> QED
    BY <1>1, <2>1 DEF CancelTypes, FlagsAbort
<1>5. AbortsCaused'
  <2>1. resets' # 0
    BY <1>3
  <2> QED
    BY <2>1 DEF AbortsCaused
<1>6. Listens'
  BY <1>1, <1>2 DEF Listens, Attached, Tree
<1> QED
  BY <1>2, <1>4, <1>5, <1>6

LEMMA NextInv == CancelInv /\ [CancelNext]_cancelVars => CancelInv'
<1> SUFFICES ASSUME CancelInv, [CancelNext]_cancelVars PROVE CancelInv'
  OBVIOUS
<1>1. CASE UNCHANGED cancelVars
  BY <1>1 DEF cancelVars, CancelInv, CancelTypes, Tree, FlagsAbort, AbortsCaused, Listens,
              Registered, Owners, Attached
<1>2. CASE CancelNext
  BY <1>2, StartKeeps, BodyKeeps, DrainKeeps, NewTokenKeeps, CancelKeeps, DisposeKeeps,
     ResetKeeps DEF CancelNext
<1> QED
  BY <1>1, <1>2

LEMMA Invariance == CancelSpec => []CancelInv
BY InitInv, NextInv, PTL DEF CancelSpec

----------------------------------------------------------------------------
(* The theorems *)

\* Whoever composes a token's signal stops at least when whoever polls its
\* flag does, in both builds, and while nothing is reset the two channels
\* agree: CancelToken's signal, isCancelled, dispose() and reset().
THEOREM ChannelsTellTheSame == CancelSpec => []SignalsFollow
<1>1. CancelInv => SignalsFollow
  <2> SUFFICES ASSUME CancelInv PROVE SignalsFollow
    OBVIOUS
  <2> USE DEF CancelInv
  <2>1. FailsClosed
    <3> SUFFICES ASSUME NEW t \in DOMAIN tokens, Attached(t), IsCancelled(t)
                 PROVE  SignalAborted(t)
      BY DEF FailsClosed
    <3>1. PICK u \in Owners(t) : tokens[u].cancelled /\ tokens[u].aborted
      BY DEF IsCancelled, Tree, FlagsAbort
    <3>2. CASE hasAny = "yes"
      BY <3>1, <3>2 DEF SignalAborted
    <3>3. CASE hasAny = "no"
      BY <3>1, <3>3 DEF SignalAborted, Listens
    <3>4. CASE hasAny = ""
      BY <3>1, <3>4 DEF SignalAborted, Tree, Owners
    <3> QED
      BY <3>2, <3>3, <3>4 DEF CancelTypes
  <2>2. ChannelsAgree
    <3> SUFFICES ASSUME resets = 0, NEW t \in DOMAIN tokens, SignalAborted(t)
                 PROVE  IsCancelled(t)
      BY DEF ChannelsAgree
    <3>1. PICK u \in Owners(t) : tokens[u].aborted
      BY DEF SignalAborted, Tree
    <3>2. PICK v \in Owners(u) : tokens[v].cancelled
      BY <3>1 DEF AbortsCaused, Tree
    <3> QED
      BY <3>1, <3>2 DEF IsCancelled, Tree
  <2> QED
    BY <2>1, <2>2 DEF SignalsFollow
<1> QED
  BY <1>1, Invariance, PTL

\* When drain() makes up its mind to return, no body runs under its token or
\* under any token derived from it, also none that began during the wait.
THEOREM DrainMissesNothing == CancelSpec => DrainComplete
<1>1. CancelInv /\ [CancelNext]_cancelVars =>
        [drain'.phase = "returned" /\ drain.phase # "returned" =>
           \A b \in Bodies : bodies[b].phase = "running" =>
             bodies[b].scope \notin Descendants(drain'.scope)]_cancelVars
  <2> SUFFICES ASSUME CancelInv, CancelNext,
                      drain'.phase = "returned", drain.phase # "returned",
                      NEW b \in Bodies, bodies[b].phase = "running"
               PROVE  bodies[b].scope \notin Descendants(drain'.scope)
    OBVIOUS
  <2>1. drain' # drain
    OBVIOUS
  <2>2. PICK t \in Tokens \cup {drain.scope} : DrainLooks(t)
    BY <2>1 DEF CancelNext, RuntimeStarts, Cancel, Dispose, Reset, DrainCall, NewToken,
                BodyEnds, Untrack, TrackExecution, DrainResumes
  <2>3. drain'.scope = t /\ pending[t] = {}
    BY <2>2 DEF DrainLooks
  <2>4. \A u \in Owners(bodies[b].scope) : u # t
    BY <2>3 DEF CancelInv, Registered
  <2> QED
    BY <2>3, <2>4 DEF Descendants, Owners
<1> QED
  BY <1>1, Invariance, PTL DEF CancelSpec, DrainComplete

-----------------------------------------------------------------------------
(***************************************************************************)
(* What a stream tells its consumer, its middlewares and the steps behind   *)
(* the body is one story: for any chunks, any cap, and a deadline, a        *)
(* configuration and a consumer that do as they like.                       *)
(*                                                                          *)
(* Most of it is about the fold: that merging one chunk more is one more    *)
(* merge is shown from the least position where two folds would differ.     *)
(***************************************************************************)

----------------------------------------------------------------------------
(* The merge of the chunks *)

LEMMA LeastNumber ==
  ASSUME NEW T \in SUBSET Nat, T # {}
  PROVE  \E n \in T : \A k \in T : n <= k
<1>1. PICK n \in T : \A k \in T : ~(<<k, n>> \in OpToRel(<, Nat))
  BY NatLessThanWellFounded, WFMin
<1>2. \A k \in T : ~(k < n)
  BY <1>1 DEF OpToRel
<1> QED
  BY <1>2

\* g holds the merge of each of the first n chunks.
Merges(g, chunks, cap, n) ==
  g = [i \in 0..n |-> IF i = 0 THEN <<>> ELSE DeepMergeChunk(g[i - 1], chunks[i], cap)]

\* Two functions that are such merges agree where both are defined.
LEMMA MergesAgree ==
  ASSUME NEW chunks, NEW others, NEW cap, NEW n \in Nat, NEW l \in Nat, n <= l,
         \A i \in 1..n : chunks[i] = others[i],
         NEW f, Merges(f, chunks, cap, n), NEW g, Merges(g, others, cap, l)
  PROVE  \A i \in 0..n : f[i] = g[i]
<1> DEFINE T == {i \in 0..n : f[i] # g[i]}
<1> SUFFICES ASSUME T # {} PROVE FALSE
  OBVIOUS
<1>1. T \in SUBSET Nat
  OBVIOUS
<1>2. PICK k \in T : \A j \in T : k <= j
  BY <1>1, LeastNumber
<1>3. f[k] = IF k = 0 THEN <<>> ELSE DeepMergeChunk(f[k - 1], chunks[k], cap)
  BY <1>2 DEF Merges
<1>4. g[k] = IF k = 0 THEN <<>> ELSE DeepMergeChunk(g[k - 1], others[k], cap)
  BY <1>2 DEF Merges
<1>5. k # 0
  BY <1>2, <1>3, <1>4
<1>6. k \in 1..n /\ k - 1 \in 0..n /\ k - 1 \notin T
  BY <1>2, <1>5
<1>7. f[k - 1] = g[k - 1] /\ chunks[k] = others[k]
  BY <1>6
<1> QED
  BY <1>2, <1>3, <1>4, <1>5, <1>7

\* One chunk more is one merge more.
LEMMA MergesNext ==
  ASSUME NEW chunks, NEW more, NEW cap, NEW n \in Nat,
         \A i \in 1..n : chunks[i] = more[i],
         NEW f, Merges(f, chunks, cap, n), NEW g, Merges(g, more, cap, n + 1)
  PROVE  g[n + 1] = DeepMergeChunk(f[n], more[n + 1], cap)
<1>1. PICK l \in Nat : l = n + 1
  OBVIOUS
<1>2. n <= l /\ n \in 0..n
  BY <1>1
<1>3. Merges(g, more, cap, l)
  BY <1>1
<1>4. f[n] = g[n]
  BY <1>2, <1>3, MergesAgree
<1> QED
  BY <1>1, <1>4 DEF Merges

LEMMA MergesExist ==
  ASSUME NEW chunks, NEW cap, NEW n \in Nat
  PROVE  \E g : Merges(g, chunks, cap, n)
<1> DEFINE T == {k \in 0..n : ~\E g : Merges(g, chunks, cap, k)}
<1> SUFFICES ASSUME T # {} PROVE FALSE
  OBVIOUS
<1>1. T \in SUBSET Nat
  OBVIOUS
<1>2. PICK k \in T : \A j \in T : k <= j
  BY <1>1, LeastNumber
<1>3. k # 0
  <2>1. Merges([i \in 0..0 |-> <<>>], chunks, cap, 0)
    BY DEF Merges
  <2> QED
    BY <1>2, <2>1
<1>4. k - 1 \in 0..n /\ k - 1 \notin T
  BY <1>2, <1>3
<1>5. PICK g : Merges(g, chunks, cap, k - 1)
  BY <1>4
<1>6. PICK last : last = DeepMergeChunk(g[k - 1], chunks[k], cap)
  OBVIOUS
<1> DEFINE h == [i \in 0..k |-> IF i = k THEN last ELSE g[i]]
<1>7. ASSUME NEW i \in 0..k
      PROVE  h[i] = IF i = 0 THEN <<>> ELSE DeepMergeChunk(h[i - 1], chunks[i], cap)
  <2>1. CASE i = k
    <3>1. h[i] = last /\ h[i - 1] = g[k - 1]
      BY <1>2, <1>3, <2>1
    <3> QED
      BY <1>3, <1>6, <2>1, <3>1
  <2>2. CASE i # k
    <3>1. i \in 0..(k - 1) /\ h[i] = g[i] /\ (i # 0 => h[i - 1] = g[i - 1])
      BY <1>2, <2>2
    <3>2. g[i] = IF i = 0 THEN <<>> ELSE DeepMergeChunk(g[i - 1], chunks[i], cap)
      BY <1>5, <3>1 DEF Merges
    <3> QED
      BY <3>1, <3>2
  <2> QED
    BY <2>1, <2>2
<1>8. h = [i \in 0..k |-> h[i]]
  OBVIOUS
<1> HIDE DEF h
<1>9. Merges(h, chunks, cap, k)
  BY <1>7, <1>8 DEF Merges
<1> QED
  BY <1>2, <1>9

LEMMA MergedMerges ==
  ASSUME NEW chunks, NEW cap, Len(chunks) \in Nat
  PROVE  Merges(MergedSoFar(chunks, cap), chunks, cap, Len(chunks))
<1> DEFINE F(f) == [i \in 0..Len(chunks) |->
                      IF i = 0 THEN <<>> ELSE DeepMergeChunk(f[i - 1], chunks[i], cap)]
<1> DEFINE n == Len(chunks)
<1>1. PICK g : Merges(g, chunks, cap, n)
  <2>1. n \in Nat
    OBVIOUS
  <2> HIDE DEF n
  <2> QED
    BY <2>1, MergesExist
<1>2. g = F(g)
  BY <1>1 DEF Merges
<1>3. MergedSoFar(chunks, cap) = CHOOSE f : f = F(f)
  BY DEF MergedSoFar
<1>4. MergedSoFar(chunks, cap) = F(MergedSoFar(chunks, cap))
  BY <1>2, <1>3
<1> QED
  BY <1>4 DEF Merges

\* What the stream accumulates is the merge of what it has yielded.
LEMMA AccumulateNone ==
  ASSUME NEW cap
  PROVE  Accumulate(<<>>, cap) = <<>>
<1>1. Merges(MergedSoFar(<<>>, cap), <<>>, cap, 0)
  BY MergedMerges
<1> QED
  BY <1>1 DEF Merges, Accumulate

LEMMA AccumulateMore ==
  ASSUME NEW S, NEW chunks \in Seq(S), NEW chunk \in S, NEW cap
  PROVE  Accumulate(Append(chunks, chunk), cap) = DeepMergeChunk(Accumulate(chunks, cap), chunk, cap)
<1> DEFINE n == Len(chunks)
           more == Append(chunks, chunk)
           f == MergedSoFar(chunks, cap)
           g == MergedSoFar(more, cap)
<1>1. /\ n \in Nat /\ Len(more) = n + 1 /\ more[n + 1] = chunk
      /\ \A i \in 1..n : chunks[i] = more[i]
  OBVIOUS
<1> HIDE DEF n, more, f, g
<1>2. Merges(f, chunks, cap, n) /\ Merges(g, more, cap, n + 1)
  <2>1. Merges(f, chunks, cap, Len(chunks))
    BY <1>1, MergedMerges DEF n, f
  <2>2. Merges(g, more, cap, Len(more))
    BY <1>1, MergedMerges DEF g
  <2> QED
    BY <1>1, <2>1, <2>2 DEF n
<1>3. Accumulate(chunks, cap) = f[n] /\ Accumulate(more, cap) = g[n + 1]
  BY <1>1 DEF Accumulate, n, f, g
<1>4. g[n + 1] = DeepMergeChunk(f[n], more[n + 1], cap)
  BY <1>1, <1>2, MergesNext
<1> QED
  BY <1>1, <1>3, <1>4 DEF more

----------------------------------------------------------------------------
(* The invariant *)

Chunks == Objects \cup {Recovery}
Early == {"called", "chunks", "post"}

\* They were told this once, or nothing.
Words == {"after", "onError"}
Heard(what) == /\ told \in Seq(Words) /\ Len(told) <= 1
               /\ \A i \in 1..Len(told) : told[i] = what

\* Until it fails a stream has told no one anything, nothing is disposed before
\* it is over, and no cancellation that is thrown as such leaves it going on.
StreamInv ==
  /\ stage \in Early \cup {"failing", "ended"}
  /\ delivered \in Seq(Chunks)
  /\ stage = "called" => delivered = <<>> /\ accumulated = <<>>
  /\ stage \in Early => told = <<>>
  /\ stage = "failing" => Heard("after") /\ (hasStream => told = <<>>)
  /\ stage # "ended" => raised # "cancellation"
  /\ StreamHonest

LEMMA StreamStart ==
  ASSUME StreamInit
  PROVE  StreamInv
  BY DEF StreamInit, StreamInv, Early, StreamHonest, ValidatesWhatWasDelivered, EndsHonestly

LEMMA Appended ==
  ASSUME NEW S, NEW seq \in Seq(S), NEW what \in S
  PROVE  /\ Append(seq, what) \in Seq(S) /\ Len(Append(seq, what)) = Len(seq) + 1
         /\ \A i \in 1..Len(seq) : Append(seq, what)[i] = seq[i]
         /\ Append(seq, what)[Len(seq) + 1] = what
  OBVIOUS

LEMMA ToldNothing ==
  ASSUME told' = <<>>, NEW what
  PROVE  Heard(what)'
  BY DEF Heard

LEMMA ToldOnce ==
  ASSUME told = <<>>, NEW what \in Words, Tells(what) \/ UNCHANGED told
  PROVE  Heard(what)'
<1>1. CASE told' = <<>>
  BY <1>1, ToldNothing
<1>2. CASE told' = Append(told, what)
  <2>1. told \in Seq(Words) /\ Len(told) = 0
    OBVIOUS
  <2>2. /\ told' \in Seq(Words) /\ Len(told') = 1 /\ told'[1] = what
    BY <1>2, <2>1, Appended
  <2> QED
    BY <2>2 DEF Heard
<1> QED
  BY <1>1, <1>2 DEF Tells

LEMMA ToldThen ==
  ASSUME Heard("after"), Tells("onError")
  PROVE  /\ told' \in Seq(Words) /\ Len(told') <= Len(told) + 1
         /\ \A i \in 1..(Len(told') - 1) : told'[i] = "after"
<1>1. CASE told' = told
  BY <1>1 DEF Heard
<1>2. CASE told' = Append(told, "onError")
  <2>1. "onError" \in Words /\ told \in Seq(Words) /\ Len(told) \in Nat
    BY DEF Heard, Words
  <2>2. /\ told' \in Seq(Words) /\ Len(told') = Len(told) + 1
        /\ \A i \in 1..Len(told) : told'[i] = told[i]
    BY <1>2, <2>1, Appended
  <2>3. 1..(Len(told') - 1) = 1..Len(told)
    BY <2>1, <2>2
  <2> QED
    BY <2>2, <2>3 DEF Heard
<1> QED
  BY <1>1, <1>2 DEF Tells

\* The end of a stream that no onError hook heard of.
LEMMA EndsWell ==
  ASSUME stage' = "ended", delivered' \in Seq(Chunks), Heard("after")',
         raised' = "cancellation" <=> outcome' = "cancelled",
         outcome' = "completed" => Accumulate(delivered', mergeDepthCap') = accumulated',
         disposed' = derived'
  PROVE  StreamInv'
<1>1. "onError" \notin Range(told')
  BY DEF Heard, Range
<1>2. Len(told') <= 1 /\ Len(told') <= (IF hasStream' THEN 1 ELSE 2)
      /\ \A i \in 1..(Len(told') - 1) : told'[i] = "after"
  BY DEF Heard
<1>3. EndsHonestly'
  BY <1>1, <1>2 DEF EndsHonestly
<1> QED
  BY <1>3 DEF StreamInv, Early, StreamHonest, ValidatesWhatWasDelivered

LEMMA StreamStep ==
  ASSUME StreamInv, [StreamNext]_streamVars
  PROVE  StreamInv'
<1> USE DEF StreamInv, Early, StreamHonest, ValidatesWhatWasDelivered, EndsHonestly
<1>1. CASE RunPipeline
  <2>1. stage = "called" /\ told = <<>> /\ delivered = <<>> /\ accumulated = <<>>
    BY <1>1 DEF RunPipeline
  <2>2. CASE hasStream /\ Goes("chunks") /\ mergeDepthCap' = ResolveMergeDepth(configured)
             /\ UNCHANGED <<delivered, told, raised>>
    BY <1>1, <2>1, <2>2, AccumulateNone DEF RunPipeline, Goes
  <2>3. CASE /\ ~hasStream /\ \E output \in Objects : delivered' = <<output>>
             /\ Tells("after") /\ StreamEnds("single") /\ UNCHANGED <<mergeDepthCap, raised>>
    <3>1. Heard("after")'
      BY <2>1, <2>3, ToldOnce DEF Words
    <3>2. delivered' \in Seq(Chunks)
      BY <2>3 DEF Chunks
    <3>3. /\ stage' = "ended" /\ disposed' = derived'
          /\ raised' # "cancellation" /\ outcome' = "single"
      BY <1>1, <2>1, <2>3 DEF RunPipeline, StreamEnds
    <3> QED
      BY <3>1, <3>2, <3>3, EndsWell
  <2>4. CASE /\ Fails \/ Cancellation \/ HookCancellation
             /\ UNCHANGED told \/ (~hasStream /\ Tells("after"))
             /\ UNCHANGED <<delivered, mergeDepthCap>>
    <3>1. Heard("after")'
      BY <2>1, <2>4, ToldOnce DEF Words
    <3>5. hasStream => told' = <<>>
      BY <2>1, <2>4
    <3>2. UNCHANGED <<accumulated, hasStream, derived>>
      BY <1>1 DEF RunPipeline
    <3>3. CASE Cancellation
      <4>1. /\ stage' = "ended" /\ disposed' = derived' /\ delivered' \in Seq(Chunks)
            /\ raised' = "cancellation" /\ outcome' = "cancelled"
        BY <2>1, <2>4, <3>2, <3>3 DEF Cancellation, StreamEnds
      <4> QED
        BY <3>1, <4>1, EndsWell
    <3>4. CASE Fails \/ HookCancellation
      BY <2>1, <2>4, <3>1, <3>2, <3>4, <3>5 DEF Fails, HookCancellation, Goes
    <3> QED
      BY <2>4, <3>3, <3>4
  <2> QED
    BY <1>1, <2>2, <2>3, <2>4 DEF RunPipeline
<1>2. ASSUME NEW chunk \in Objects \cup {NotAnObject}, NextChunk(chunk)
      PROVE  StreamInv'
  <2>1. stage = "chunks" /\ told = <<>> /\ accumulated = Accumulate(delivered, mergeDepthCap)
    BY <1>2 DEF NextChunk
  <2>2. CASE expired \/ chunk = NotAnObject
    <3>1. UNCHANGED told
      BY <1>2 DEF NextChunk
    <3>2. Heard("after")'
      BY <2>1, <3>1, ToldNothing
    <3> QED
      BY <1>2, <2>1, <2>2, <3>1, <3>2 DEF NextChunk, Fails, Goes
  <2>3. CASE ~(expired \/ chunk = NotAnObject)
    <3>1. chunk \in Chunks
      BY <2>3 DEF Chunks
    <3>2. Accumulate(Append(delivered, chunk), mergeDepthCap) =
            DeepMergeChunk(accumulated, chunk, mergeDepthCap)
      BY <2>1, <3>1, AccumulateMore
    <3>3. Append(delivered, chunk) \in Seq(Chunks)
      BY <3>1
    <3> QED
      BY <1>2, <2>1, <2>3, <3>2, <3>3 DEF NextChunk, CapInForce
  <2> QED
    BY <2>2, <2>3
<1>3. CASE GeneratorThrows
  <2>1. told = <<>> /\ UNCHANGED <<told, delivered, accumulated, mergeDepthCap, hasStream, derived>>
    BY <1>3 DEF GeneratorThrows
  <2>2. Heard("after")'
    BY <2>1, ToldOnce DEF Words
  <2>3. CASE Cancellation
    <3>1. /\ stage' = "ended" /\ disposed' = derived' /\ delivered' \in Seq(Chunks)
          /\ raised' = "cancellation" /\ outcome' = "cancelled"
      BY <2>1, <2>3 DEF Cancellation, StreamEnds
    <3> QED
      BY <2>2, <3>1, EndsWell
  <2>4. CASE Fails
    BY <2>1, <2>2, <2>4 DEF Fails, Goes
  <2> QED
    BY <1>3, <2>3, <2>4 DEF GeneratorThrows
<1>4. CASE GeneratorEnds
  BY <1>4 DEF GeneratorEnds, Goes
<1>5. CASE ConsumerReturns
  <2>1. told = <<>> /\ UNCHANGED told /\ raised # "cancellation"
    BY <1>5 DEF ConsumerReturns
  <2>2. Heard("after")'
    BY <2>1, ToldOnce DEF Words
  <2>3. /\ stage' = "ended" /\ disposed' = derived' /\ delivered' \in Seq(Chunks)
        /\ raised' # "cancellation" /\ outcome' = "abandoned"
    BY <1>5, <2>1 DEF ConsumerReturns, StreamEnds
  <2> QED
    BY <2>2, <2>3, EndsWell
<1>6. CASE Recover
  <2>1. /\ stage = "failing" /\ raised # "cancellation" /\ Tells("onError")
        /\ Heard("after") /\ (hasStream => told = <<>>) /\ UNCHANGED hasStream
    BY <1>6 DEF Recover
  <2>2. /\ \A i \in 1..(Len(told') - 1) : told'[i] = "after"
        /\ Len(told') <= IF hasStream' THEN 1 ELSE 2
    BY <2>1, ToldThen DEF Heard
  <2>3. delivered' \in Seq(Chunks)
    BY <1>6 DEF Recover, Chunks
  <2> QED
    BY <1>6, <2>1, <2>2, <2>3 DEF Recover, StreamEnds
<1>7. CASE PostSteps
  <2>1. stage = "post" /\ told = <<>> /\ raised # "cancellation"
        /\ accumulated = Accumulate(delivered, mergeDepthCap)
    BY <1>7 DEF PostSteps
  <2>2. Heard("after")'
    <3>1. Tells("after") \/ UNCHANGED told
      BY <1>7 DEF PostSteps, MaybeTold
    <3> QED
      BY <2>1, <3>1, ToldOnce DEF Words
  <2>3. UNCHANGED <<delivered, accumulated, mergeDepthCap, hasStream, derived>>
    BY <1>7 DEF PostSteps
  <2>4. stage' = "ended" /\ disposed' = derived'
    BY <1>7 DEF PostSteps, PostFailure, PostCancellation, Cancellation, StreamEnds
  <2>5. raised' = "cancellation" <=> outcome' = "cancelled"
    BY <1>7, <2>1 DEF PostSteps, PostFailure, PostCancellation, Cancellation, StreamEnds
  <2>6. delivered' \in Seq(Chunks) /\ Accumulate(delivered', mergeDepthCap') = accumulated'
    BY <2>1, <2>3
  <2> HIDE DEF StreamInv
  <2> QED
    BY <2>2, <2>4, <2>5, <2>6, EndsWell
<1>8. CASE DeadlinePasses
  <2>1. Heard("after")' <=> Heard("after")
    BY <1>8 DEF DeadlinePasses, Heard
  <2> QED
    BY <1>8, <2>1 DEF DeadlinePasses
<1>9. CASE UpdateConfig
  BY <1>9 DEF UpdateConfig
<1>10. CASE UNCHANGED streamVars
  <2>1. Heard("after")' <=> Heard("after")
    BY <1>10 DEF streamVars, Heard
  <2> QED
    BY <1>10, <2>1 DEF streamVars
<1> QED
  BY <1>1, <1>2, <1>3, <1>4, <1>5, <1>6, <1>7, <1>8, <1>9, <1>10 DEF StreamNext

THEOREM StreamsAreHonest == StreamSpec => []StreamHonest
<1>1. StreamInv => StreamHonest
  BY DEF StreamInv
<1> QED
  BY <1>1, StreamStart, StreamStep, PTL DEF StreamSpec
===============================================================================
