------------------------------- MODULE MCACL -------------------------------
(***************************************************************************)
(* Instances of ACL for TLC.  roles is a built-in key, custom a registered  *)
(* asynchronous one that may reject, typo a key without a handler.          *)
(***************************************************************************)
EXTENDS ACL, TLC

CONSTANTS e1, e2

Leaf(k)  == [op |-> "leaf", branches |-> <<<<k>>>>]
Or(a, b) == [op |-> "or", branches |-> <<a, b>>]
Not(a)   == [op |-> "not", branches |-> <<a>>]
Rule(effect, gated, target, conditions) ==
  [effect |-> effect, gated |-> gated, target |-> target, conditions |-> conditions]

Allow == Rule("allow", FALSE, "any", <<>>)
Typo  == Rule("deny", FALSE, "git", <<Leaf("typo")>>)
Gate  == Rule("allow", TRUE, "git", <<Leaf("arguments"), Leaf("custom")>>)
Stop  == Rule("deny", FALSE, "any", <<Or(<<"arguments", "custom">>, <<"roles">>)>>)
Keep  == Rule("allow", FALSE, "git", <<Not(<<"arguments">>), Leaf("roles")>>)

\* Conditions that ask for the arguments first, or not at all.
FirstAsked == {Allow, Typo, Gate, Stop, Keep}
GateFirst  == <<Gate, Stop, Allow>>
KeepFirst  == <<Keep, Gate>>

\* The same gate with its keys in the other order.
LateGate  == Rule("allow", TRUE, "git", <<Leaf("roles"), Leaf("arguments")>>)
LateAsked == {Allow, LateGate}
LateFirst == <<LateGate, Allow>>

\* Questions that tell the rules apart: every answer of every key, and a call
\* without a context, about another target or without a projection.
Ask(target, args, context, roles, custom) ==
  [target |-> target, args |-> args, context |-> context,
   answers |-> [roles |-> roles, custom |-> custom]]
Telling ==
  {Ask("git", "force", TRUE, "satisfied", "satisfied"),
   Ask("git", "force", TRUE, "unsatisfied", "unevaluable"),
   Ask("git", "plain", TRUE, "satisfied", "satisfied"),
   Ask("git", "absent", TRUE, "unsatisfied", "satisfied"),
   Ask("git", "absent", TRUE, "unsatisfied", "unsatisfied"),
   Ask("git", "force", FALSE, "satisfied", "satisfied"),
   Ask("ls", "absent", TRUE, "unsatisfied", "satisfied")}
Alike == Permutations(Evals)
=============================================================================
