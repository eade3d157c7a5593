------------------------------- MODULE MCRaces -------------------------------
(***************************************************************************)
(* Instances of the two tables that many callers share, for TLC: the task   *)
(* manager's and the registry's.  A behaviour chooses one and runs it alone. *)
(***************************************************************************)
EXTENDS MCAsyncTask, MCRegistry

VARIABLE shared    \* the one that runs

RacesAlike == Symmetry \cup RegistryAlike

\* The bound of races: cleanup() and a sweep of the reaper, which delete the same
\* records, do not overlap.
OneDeleter == cleaning = {} \/ sweep = NoSweep

RacesInit ==
  /\ shared \in {"tasks", "modules"}
  /\ IF shared = "modules" THEN TRUE ELSE modules = [id \in Ids |-> NoObject] /\ hooked = {}
  /\ Init /\ RegistryInit

RacesNext ==
  /\ UNCHANGED shared
  /\ \/ shared = "tasks" /\ Next /\ UNCHANGED registryVars
     \/ shared = "modules" /\ RegistryNext /\ UNCHANGED vars
=============================================================================
