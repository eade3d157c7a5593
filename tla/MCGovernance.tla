---------------------------- MODULE MCGovernance ----------------------------
(***************************************************************************)
(* Instances of Governance for TLC: policies that waive, that tie, that     *)
(* gate what is destructive and that are refused; strategies with gates and *)
(* with look-alikes of gates; one control module and one that is none.      *)
(***************************************************************************)
EXTENDS Governance

GRule(p, q, d) == [pattern |-> p, requires |-> q, destructive |-> d, unknown |-> FALSE]
GovDoc(rules, gate, strict) == [rules |-> rules, gate |-> gate, strict |-> strict, unknown |-> FALSE]
Waiver  == GovDoc(<<GRule("one", "false", "unset")>>, "unset", "unset")
Tied    == GovDoc(<<GRule("all", "false", "unset"), GRule("all", "true", "unset")>>, "unset", "true")
Narrow  == GovDoc(<<GRule("all", "unset", "true"), GRule("one", "false", "false")>>, "true", "unset")
Junk    == GovDoc(<<>>, "junk", "unset")
Typo    == GovDoc(<<[GRule("all", "true", "unset") EXCEPT !.unknown = TRUE]>>, "true", "true")
McDocuments == {Waiver, Tied, Narrow, Junk, Typo}
Held(acl, handler, policy) == [acl |-> acl, handler |-> handler, policy |-> policy]
McGrants == {Held(Nothing, Nothing, Nothing), Held("ask", "AutoApprove", Nothing), Held("deny", Nothing, Tied)}
McPrebuilt == {<<StepOf("custom", Held(Nothing, Nothing, Nothing)), StepOf("approval", Held(Nothing, Nothing, Narrow))>>,
               <<StepOf("acl", Held("open", Nothing, Nothing)), StepOf("approval", Held(Nothing, Nothing, Nothing))>>}
McSays == [open |-> [access |-> "allow", approval |-> FALSE],
           ask  |-> [access |-> "allow", approval |-> TRUE],
           deny |-> [access |-> "deny", approval |-> FALSE]]
McOwn == [one |-> [requires |-> FALSE, destructive |-> TRUE], two |-> [requires |-> FALSE, destructive |-> FALSE]]
McDeclared == [one |-> [requires |-> TRUE, destructive |-> FALSE], two |-> [requires |-> FALSE, destructive |-> FALSE]]
McCovers == [one |-> {"one"}, all |-> {"one", "two"}]
McSpecificity == [one |-> 10, all |-> 0]
=============================================================================
