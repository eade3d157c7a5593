----------------------------- MODULE MCLoadOrder -----------------------------
(* Three modules, what a discovery knows beside them (4 and 6, registered)  *)
(* and does not know (5), and every combination of the lists of             *)
(* dependencies below.                                                      *)
EXTENDS LoadOrder, TLC

Requires(to)  == [to |-> to, optional |-> FALSE, hint |-> <<>>]
Likes(to)   == [to |-> to, optional |-> TRUE,  hint |-> <<>>]
Op(op, target) == [op |-> op, target |-> target, parts |-> 3]
Range2 == <<Op(">=", <<2, 0, 0>>), Op("<", <<3, 0, 0>>)>>
Fits(to)    == [Requires(to) EXCEPT !.hint = <<Op("^", <<1, 0, 0>>)>>]
Needs2(to)  == [Requires(to) EXCEPT !.hint = Range2]
Likes2(to)  == [Likes(to) EXCEPT !.hint = Range2]
Unreadable  == [op |-> "unreadable", target |-> <<0, 0, 0>>, parts |-> 1]
Odd(to)     == [Likes(to) EXCEPT !.hint = <<Op(">=", <<2, 0, 0>>), Unreadable>>]
Young(to)   == [Requires(to) EXCEPT !.hint = <<[op |-> "^", target |-> <<0, 0, 0>>, parts |-> 1]>>]

Lists == {
  <<>>, <<Requires(1)>>, <<Requires(2)>>, <<Requires(3), Likes(5)>>, <<Likes(2), Fits(1)>>,
  <<Fits(2), Requires(3)>>, <<Requires(1), Requires(1)>>, <<Likes2(1), Requires(3)>>, <<Likes2(3), Requires(2)>>,
  <<Needs2(2)>>, <<Likes(4)>>, <<Needs2(4), Requires(1)>>, <<Requires(5)>>,
  <<Odd(1), Odd(3)>>, <<Young(6)>>}

Versions == 1 :> <<1, 0, 2>> @@ 2 :> <<1, 2, 0>> @@ 3 :> <<2, 1, 0>> @@ 6 :> <<0, 4, 0>>
Within(list) == SelectSeq(list, LAMBDA d : d.to \in 1..3)

\* A discovery knows what is registered and the versions; a reload looks at the
\* dependencies within its own set, and at no version.
McBatches ==
  UNION {{[modules |-> <<2, 1, 3>>, deps |-> deps, known |-> {1, 2, 3, 4, 6}, versions |-> Versions],
          [modules |-> <<1, 2, 3>>, deps |-> [m \in 1..3 |-> Within(deps[m])],
           known |-> 1..3, versions |-> <<>>]} : deps \in [1..3 -> Lists]}
=============================================================================
