---------------------------- MODULE MCAsyncTask ----------------------------
(***************************************************************************)
(* Model checking AsyncTask.  The tasks are interchangeable, so the safety  *)
(* runs use a symmetry set; the runs with liveness do not.                  *)
(***************************************************************************)
EXTENDS AsyncTask, TLC

Symmetry == Permutations(Tasks)

\* The bound of async_remote: a caller has one call in progress at a time, and
\* who calls shutdown() has not cancelled or cleaned up before.
OneCallAtATime ==
  LET user == {c \in cancels : c[1] = "user"} IN
  /\ shutdown # "idle" => cleaning = {} /\ user = {}
  /\ shutdown = "flag" => cancelled = {} /\ Workers \subseteq stored
  /\ cleaning # {} => user = {}
  /\ Cardinality(user) <= 1

\* The bound of async_shutdown: nobody starts a reaper once shutdown() has
\* stopped it.  Only StartReaper, which no fairness obliges, is cut.
NoLateReaper == shutdown \notin {"idle", "reaper"} => reaper # "armed"
=============================================================================
