------------------------------ MODULE LoadOrder ------------------------------
(***************************************************************************)
(* resolveDependencies of src/registry/dependencies.ts, which orders the    *)
(* modules of a discovery or of a reload, over the version constraints of   *)
(* src/registry/version.ts.  One step per iteration of its three loops.     *)
(* An id is its rank in the order of Array.sort(), a version its three      *)
(* numbers, a hint the sequence of its comma-separated constraints          *)
(*   op      "^", "~", "=", ">=", ">", "<=" or "<", or "unreadable" where   *)
(*           the operand is empty or does not start with a digit,           *)
(*   target  a version,                                                     *)
(*   parts   how many numbers of the target are written out;                *)
(* a declared dependency is [to, optional, hint], without a hint <<>>.      *)
(***************************************************************************)
EXTENDS Integers, Sequences, FiniteSets, SequencesExt

CONSTANT Batches   \* the calls: [modules, deps, known, versions]

Version    == Nat \X Nat \X Nat
Operators  == {"^", "~", "=", ">=", ">", "<=", "<"}
Constraint == [op : Operators \cup {"unreadable"}, target : Version, parts : 1..3]
Dependency == [to : Int, optional : BOOLEAN, hint : Seq(Constraint)]

\* The modules are the keys of a map: none is listed twice.
IsBatch(b) ==
  /\ b.modules \in Seq(Int) /\ IsInjective(b.modules) /\ IsFiniteSet(b.known)
  /\ \A i \in DOMAIN b.modules : b.deps[b.modules[i]] \in Seq(Dependency)

ASSUME LoadOrderAssumption == \A b \in Batches : IsBatch(b)

----------------------------------------------------------------------------
(* version.ts                                                               *)

\* compareTuples(a, b) < 0
Older(a, b) == \E i \in 1..3 : a[i] < b[i] /\ \A j \in 1..(i - 1) : a[j] = b[j]
AtLeast(a, b) == ~Older(a, b)

CaretUpperBound(t) ==
  CASE t[1] > 0              -> <<t[1] + 1, 0, 0>>
    [] t[1] = 0 /\ t[2] > 0  -> <<0, t[2] + 1, 0>>
    [] t[1] = 0 /\ t[2] = 0  -> <<0, 0, t[3] + 1>>

TildeUpperBound(t, parts) ==
  IF parts >= 2 THEN <<t[1], t[2] + 1, 0>> ELSE <<t[1] + 1, 0, 0>>

CheckSingleConstraint(v, c) ==
  CASE c.op = "^"  -> AtLeast(v, c.target) /\ Older(v, CaretUpperBound(c.target))
    [] c.op = "~"  -> AtLeast(v, c.target) /\ Older(v, TildeUpperBound(c.target, c.parts))
    [] c.op = "="  -> \A i \in 1..c.parts : v[i] = c.target[i]
    [] c.op = ">=" -> AtLeast(v, c.target)
    [] c.op = ">"  -> Older(c.target, v)
    [] c.op = "<=" -> AtLeast(c.target, v)
    [] c.op = "<"  -> Older(v, c.target)
    [] c.op = "unreadable" -> FALSE

MatchesVersionHint(v, hint) == \A i \in DOMAIN hint : CheckSingleConstraint(v, hint[i])

\* The constraints are checked up to the first that does not hold; when that is
\* one that cannot be read, a VersionConstraintError is thrown.
ThrowsOn(v, hint) ==
  \E i \in DOMAIN hint :
    hint[i].op = "unreadable" /\ \A j \in 1..(i - 1) : CheckSingleConstraint(v, hint[j])

\* The highest version that matches, or <<>>.
SelectBestVersion(versions, hint) ==
  LET matching == {v \in versions : MatchesVersionHint(v, hint)}
  IN IF matching = {} THEN <<>> ELSE CHOOSE v \in matching : \A w \in matching : AtLeast(v, w)

----------------------------------------------------------------------------
(* dependencies.ts                                                          *)

VARIABLES
  batch,        \* the call's arguments
  loop,         \* "edges", "sort", "search" or "done"
  unread,       \* the declared dependencies yet to be read, [of, dep]
  graph,        \* id -> the modules that wait for it
  inDegree,     \* module -> the edges it still waits for
  queue,        \* modules that wait for nothing
  loadOrder,
  dfs,          \* dfsFindCycle(): [starts, stack, path, visited]
  resolution       \* [kind, path]: the return, or the error that is thrown

orderVars == <<batch, loop, unread, graph, inDegree, queue, loadOrder, dfs, resolution>>

ModuleIds == ToSet(batch.modules)

\* [...S].sort()
Sorted(S) ==
  CHOOSE s \in [1..Cardinality(S) -> S] : \A i, j \in 1..Cardinality(S) : i < j => s[i] < s[j]

\* What a module declares, in the order it is read.
Declarations(b) ==
  FlattenSeq([i \in DOMAIN b.modules |->
    [j \in DOMAIN b.deps[b.modules[i]] |->
       [of |-> b.modules[i], dep |-> b.deps[b.modules[i]][j]]]])

\* An id nobody knows, a version that is known and does not match, and one that
\* cannot be told to match or not.
Missing(d) == d.to \notin batch.known
Misfit(d)  == /\ d.to \in DOMAIN batch.versions
              /\ ~MatchesVersionHint(batch.versions[d.to], d.hint)
Garbled(d) == /\ ~Missing(d) /\ d.to \in DOMAIN batch.versions
              /\ ThrowsOn(batch.versions[d.to], d.hint)
Skipped(d) == d.optional /\ (Missing(d) \/ Misfit(d)) /\ ~Garbled(d)
Refused(d) == Garbled(d) \/ (~d.optional /\ (Missing(d) \/ Misfit(d)))

Undecided == [kind |-> "none", path |-> <<>>]
NoSearch == [starts |-> <<>>, stack |-> <<>>, path |-> <<>>, visited |-> {}]

OrderInit ==
  /\ batch \in Batches
  /\ loop = "edges" /\ unread = Declarations(batch)
  /\ graph = [id \in batch.known \cup ModuleIds |-> {}]
  /\ inDegree = [m \in ModuleIds |-> 0]
  /\ queue = <<>> /\ loadOrder = <<>> /\ dfs = NoSearch /\ resolution = Undecided

Decided(kind, path) == loop' = "done" /\ resolution' = [kind |-> kind, path |-> path]

SkipDependency ==
  /\ loop = "edges" /\ unread # <<>> /\ Skipped(Head(unread).dep)
  /\ unread' = Tail(unread)
  /\ UNCHANGED <<batch, loop, graph, inDegree, queue, loadOrder, dfs, resolution>>

RefuseDependency ==
  /\ loop = "edges" /\ unread # <<>>
  /\ LET d == Head(unread).dep IN
       /\ Refused(d)
       /\ \/ Missing(d) /\ Decided("notFound", <<Head(unread).of, d.to>>)
          \/ Garbled(d) /\ Decided("badConstraint", <<Head(unread).of, d.to>>)
          \/ ~Missing(d) /\ ~Garbled(d) /\ Decided("versionMismatch", <<Head(unread).of, d.to>>)
  /\ UNCHANGED <<batch, unread, graph, inDegree, queue, loadOrder, dfs>>

AddEdge ==
  /\ loop = "edges" /\ unread # <<>>
  /\ LET of == Head(unread).of
         d  == Head(unread).dep
     IN /\ ~Missing(d) /\ ~Misfit(d)
        /\ graph' = [graph EXCEPT ![d.to] = @ \cup {of}]
        /\ inDegree' = [inDegree EXCEPT ![of] = @ + 1]
  /\ unread' = Tail(unread)
  /\ UNCHANGED <<batch, loop, queue, loadOrder, dfs, resolution>>

Free(degrees) == {m \in DOMAIN degrees : degrees[m] = 0}

SortStarts ==
  /\ loop = "edges" /\ unread = <<>>
  /\ loop' = "sort" /\ queue' = Sorted(Free(inDegree))
  /\ UNCHANGED <<batch, unread, graph, inDegree, loadOrder, dfs, resolution>>

\* The degrees once a module is in the order.
Released(m) ==
  [w \in DOMAIN inDegree |-> IF w \in graph[m] THEN inDegree[w] - 1 ELSE inDegree[w]]

TakeNext ==
  /\ loop = "sort" /\ queue # <<>>
  /\ LET m == Head(queue) IN
       /\ loadOrder' = Append(loadOrder, m)
       /\ inDegree' = Released(m)
       /\ queue' = Tail(queue) \o Sorted({w \in graph[m] : inDegree'[w] = 0})
  /\ UNCHANGED <<batch, loop, unread, graph, dfs, resolution>>

Remaining == ModuleIds \ ToSet(loadOrder)

SortEnds ==
  /\ loop = "sort" /\ queue = <<>>
  /\ IF Remaining = {} THEN Decided("ordered", loadOrder) /\ UNCHANGED dfs
     ELSE /\ loop' = "search" /\ UNCHANGED resolution
          /\ dfs' = [dfs EXCEPT !.starts = Sorted(Remaining)]
  /\ UNCHANGED <<batch, unread, graph, inDegree, queue, loadOrder>>

\* findBackEdgeCycle: every declared dependency among the remaining modules.
DepMap(m) ==
  Sorted({batch.deps[m][i].to : i \in DOMAIN batch.deps[m]} \cap Remaining)

SearchFrom ==
  /\ loop = "search" /\ dfs.stack = <<>> /\ dfs.starts # <<>>
  /\ dfs' = [NoSearch EXCEPT !.starts = Tail(dfs.starts), !.stack = <<<<Head(dfs.starts), 0>>>>]
  /\ UNCHANGED <<batch, loop, unread, graph, inDegree, queue, loadOrder, resolution>>

WholePath(node) == Append(dfs.path, node)            \* mutant: the way to the cycle is part of it
CyclePath(node) ==
  LET from == CHOOSE i \in DOMAIN dfs.path : dfs.path[i] = node
  IN Append(SubSeq(dfs.path, from, Len(dfs.path)), node)

\* The frame on top: its node, and the neighbors it has gone on to.
TopNode == Last(dfs.stack)[1]
TopIdx  == Last(dfs.stack)[2]
Looking == loop = "search" /\ dfs.stack # <<>>

\* A node that is entered closes a path, ...
FindCycle ==
  /\ Looking /\ TopIdx = 0 /\ TopNode \in ToSet(dfs.path)
  /\ Decided("circular", CyclePath(TopNode))
  /\ UNCHANGED <<batch, unread, graph, inDegree, queue, loadOrder, dfs>>

\* ... was seen before, ...
SkipSeen ==
  /\ Looking /\ TopIdx = 0 /\ TopNode \in dfs.visited \ ToSet(dfs.path)
  /\ dfs' = [dfs EXCEPT !.stack = Front(@)]
  /\ UNCHANGED <<batch, loop, unread, graph, inDegree, queue, loadOrder, resolution>>

\* ... or is put on the path; it goes on to its next neighbor, or is left.
Stays == Looking /\ (TopIdx = 0 => TopNode \notin dfs.visited \cup ToSet(dfs.path))
PathHere == IF TopIdx = 0 THEN Append(dfs.path, TopNode) ELSE dfs.path

EnterNeighbor ==
  /\ Stays /\ TopIdx < Len(DepMap(TopNode))
  /\ dfs' = [dfs EXCEPT !.stack = Front(@) \o <<<<TopNode, TopIdx + 1>>,
                                               <<DepMap(TopNode)[TopIdx + 1], 0>>>>,
                        !.path = PathHere, !.visited = @ \cup {TopNode}]
  /\ UNCHANGED <<batch, loop, unread, graph, inDegree, queue, loadOrder, resolution>>

LeaveNode ==
  /\ Stays /\ TopIdx >= Len(DepMap(TopNode))
  /\ dfs' = [dfs EXCEPT !.stack = Front(@), !.path = Front(PathHere), !.visited = @ \cup {TopNode}]
  /\ UNCHANGED <<batch, loop, unread, graph, inDegree, queue, loadOrder, resolution>>

SearchEnds ==
  /\ loop = "search" /\ dfs.stack = <<>> /\ dfs.starts = <<>>
  /\ Decided("blocked", Sorted(Remaining))
  /\ UNCHANGED <<batch, unread, graph, inDegree, queue, loadOrder, dfs>>

OrderNext ==
  \/ SkipDependency \/ RefuseDependency \/ AddEdge
  \/ SortStarts \/ TakeNext \/ SortEnds
  \/ SearchFrom \/ FindCycle \/ SkipSeen \/ EnterNeighbor \/ LeaveNode \/ SearchEnds

OrderSpec == OrderInit /\ [][OrderNext]_orderVars

----------------------------------------------------------------------------
(* Properties.                                                              *)

DependenciesOf(m) == ToSet(batch.deps[m])
Enforced(m) == {d.to : d \in {x \in DependenciesOf(m) : ~Skipped(x)}}
Refusing == {m \in ModuleIds : \E d \in DependenciesOf(m) : Refused(d)}
Refusals == {"notFound", "versionMismatch", "badConstraint"}

Precedes(order, a, b) == \E i, j \in DOMAIN order : i < j /\ order[i] = a /\ order[j] = b
Respects(order) == \A m \in ModuleIds : \A to \in Enforced(m) : Precedes(order, to, m)
Acyclic == \E order \in SetToSeqs(ModuleIds) :
             \A m \in ModuleIds : \A to \in Enforced(m) \cap ModuleIds : Precedes(order, to, m)

\* An order that is returned has every module of the batch once, each behind all
\* it needs.
OrderFollows ==
  resolution.kind = "ordered" =>
    resolution.path \in SetToSeqs(ModuleIds) /\ Respects(resolution.path)

\* A cycle that is reported closes, goes from a module to one that it declares,
\* and holds none of the modules that are merely behind the cycle.
Closes(path) ==
  /\ Len(path) > 1 /\ path[1] = Last(path)
  /\ IsInjective(Front(path))
  /\ \A i \in 1..(Len(path) - 1) : \E d \in DependenciesOf(path[i]) : d.to = path[i + 1]
CyclesClose == resolution.kind = "circular" => Closes(resolution.path) /\ ToSet(resolution.path) \subseteq Remaining

\* A batch is refused exactly for a required dependency that is unknown or does
\* not match, or for a constraint that cannot be read where it is looked at,
\* were it that of an optional dependency; and one with a cycle is never
\* reported as merely blocked.
RefusalsJust ==
  loop = "done" =>
    /\ (resolution.kind \in Refusals) <=> (Refusing # {})
    /\ resolution.kind = "blocked" => Acyclic
    /\ resolution.kind \in Refusals => resolution.path[1] \in Refusing

\* A batch that needs nothing from outside and lists nothing twice is ordered
\* when it can be.
OrderFound ==
  /\ loop = "done" /\ Refusing = {} /\ Acyclic
  /\ \A m \in ModuleIds :
       /\ Enforced(m) \subseteq ModuleIds
       /\ \A i, j \in DOMAIN batch.deps[m] :
            batch.deps[m][i].to = batch.deps[m][j].to => i = j
  => resolution.kind = "ordered"

\* What the operators mean, on their own terms: ^ keeps the first number that is
\* not zero, or where all that are written are zeros the last of them, as npm and
\* Cargo have it; ~ the second one where it is written, = as many as are written.
SameUpTo(v, t, n) == \A i \in 1..n : v[i] = t[i]
Leading(t, parts) == CHOOSE i \in 1..parts : (t[i] # 0 \/ i = parts) /\ \A j \in 1..(i - 1) : t[j] = 0
Ordinal(v) == 100 * v[1] + 10 * v[2] + v[3]       \* of numbers below ten
Means(v, c) ==
  CASE c.op = "^"  -> Ordinal(v) >= Ordinal(c.target) /\ SameUpTo(v, c.target, Leading(c.target, c.parts))
    [] c.op = "~"  -> Ordinal(v) >= Ordinal(c.target) /\ SameUpTo(v, c.target, IF c.parts = 1 THEN 1 ELSE 2)
    [] c.op = "="  -> SameUpTo(v, c.target, c.parts)
    [] c.op = ">=" -> Ordinal(v) >= Ordinal(c.target)
    [] c.op = ">"  -> Ordinal(v) > Ordinal(c.target)
    [] c.op = "<=" -> Ordinal(v) <= Ordinal(c.target)
    [] c.op = "<"  -> Ordinal(v) < Ordinal(c.target)

SmallVersions == (0..2) \X (0..2) \X (0..2)
Constraints == {c \in [op : Operators, target : SmallVersions, parts : 1..3] :
                  \A i \in (c.parts + 1)..3 : c.target[i] = 0}

\* That of ^0 and ^0.0 the code takes for ^0.0.0.
CaretZero(c) == c.op = "^" /\ c.parts < 3 /\ c.target = <<0, 0, 0>>
ConstraintsExact ==
  \A c \in {x \in Constraints : ~CaretZero(x)} :
    /\ \A v \in SmallVersions : CheckSingleConstraint(v, c) <=> Means(v, c)
    /\ LET best == SelectBestVersion(SmallVersions, <<c>>)
       IN \A v \in SmallVersions : Means(v, c) => Means(best, c) /\ Ordinal(v) <= Ordinal(best)

\* The order a discovery loads in, the reason a batch is refused for, and the
\* meaning of a version constraint.
OrderSound ==
  OrderFollows /\ CyclesClose /\ RefusalsJust /\ OrderFound /\ ConstraintsExact

\* A sort that stalled met a cycle of dependencies that it enforces, or a required
\* dependency that is not in the batch (comment in resolveDependencies() of
\* dependencies.ts).
StallsExplained ==
  /\ resolution.kind = "circular" =>
       \A i \in 1..(Len(resolution.path) - 1) : resolution.path[i + 1] \in Enforced(resolution.path[i])
  /\ resolution.kind = "blocked" =>
       \E m \in Remaining : \E d \in DependenciesOf(m) : ~d.optional /\ d.to \notin ModuleIds
=============================================================================
