------------------------------ MODULE Registry ------------------------------
(***************************************************************************)
(* Registry of src/registry/registry.ts and the reload operations of        *)
(* src/sys-modules/control.ts: the four doors a module comes in by          *)
(* (register(), registerInternal(), a custom discoverer, the discovery of   *)
(* the extension roots), its onLoad before and its onUnload after it is     *)
(* visible, reference counts and draining, the file watcher, and the reload *)
(* of one module or of all that match a filter.                             *)
(*                                                                          *)
(* JavaScript runs a synchronous part to its end, so stack holds the calls  *)
(* that are running: a continuation starts with the stack empty, and a call *)
(* inside another one only from user code (an onLoad, a registry callback). *)
(* onUnload and the callbacks of unregister() come after its last change of *)
(* state, so what they call is the same as a call in the next turn.         *)
(*                                                                          *)
(* _moduleMeta and _lowercaseMap are written together and are one variable, *)
(* meta: it holds the object whose metadata is there.  Ids are lower case,  *)
(* so a case collision, which only warns, does not arise.                   *)
(***************************************************************************)
EXTENDS Integers, Sequences, FiniteSets

CONSTANTS
  Ids,        \* module ids
  Callers,      \* who makes one call each
  Kinds,      \* what a call may be, a subset of AllKinds
  Exclusive,  \* the host awaits discover() and reload before it registers more
  NoObject

AllKinds == {"register", "internal", "custom", "discover", "unregister", "safe",
             "watch", "use", "reload", "reloadAll"}

ASSUME RegistryAssumption ==
  /\ IsFiniteSet(Ids) /\ IsFiniteSet(Callers) /\ Ids \cap Callers = {}
  /\ NoObject \notin Ids \cup Callers
  /\ Kinds \subseteq AllKinds
  /\ Exclusive \in BOOLEAN

\* The module objects: the export of a discovered file, which the module cache
\* hands out again on every import, is named by its id; the object that another
\* call brings, by that call.
ModuleObjects == Ids \cup Callers

VARIABLES
  modules,   \* [Ids -> object] _modules
  meta,      \* [Ids -> object] _moduleMeta and _lowercaseMap
  inFlight,  \* the keys of _inFlight
  draining,  \* _draining
  refs,      \* [Ids -> _refCounts]
  waiters,   \* [Ids -> the calls with a resolver in _drainResolvers]
  call,      \* [Callers -> the state of the call]
  stack,     \* the calls that are running, the innermost first
  hooked,    \* the files whose module has an onLoad
  live,      \* history: [ModuleObjects -> successful onLoads less onUnloads]
  owed       \* history: [Callers -> what a reload has unloaded and not seen back]

tables   == <<modules, meta, inFlight>>
drains   == <<draining, refs, waiters>>
registryVars == <<tables, drains, call, stack, hooked, live, owed>>

----------------------------------------------------------------------------
(* Vocabulary *)

Holdings == ModuleObjects \cup {NoObject}
NoModules == [id \in Ids |-> NoObject]

NoCall == [kind |-> NoObject, pc |-> "idle", id |-> NoObject, object |-> NoObject, todo |-> <<>>,
         targets |-> <<>>, at |-> 0, old |-> NoModules, clean |-> FALSE]

\* What is left of a call that has ended.
Over(c) == [NoCall EXCEPT !.kind = call[c].kind, !.pc = "done"]

InProgress(c) == call[c].pc \notin {"idle", "done"}

\* User code runs: nothing does, or what runs is inside an onLoad or in the
\* callbacks of an event.
MayCall == stack # <<>> => call[Head(stack)].pc \in {"loading", "told"}

\* The innermost synchronous part is c's.
OnTop(c) == stack # <<>> /\ Head(stack) = c

\* c runs no more.
StackLess(c) == IF OnTop(c) THEN Tail(stack) ELSE stack

\* A suspended call goes on, in a turn of its own.
Resumes(c, pc) == stack = <<>> /\ call[c].pc = pc

Entering == {"register", "internal", "custom"}
Finding  == {"discover", "reload", "reloadAll"}

\* With Exclusive, no registration overlaps a discovery or a reload.
MayStart(c, kind) ==
  /\ call[c].pc = "idle" /\ kind \in Kinds /\ MayCall
  /\ Exclusive => \A d \in Callers : InProgress(d) =>
       /\ kind \in Finding  => call[d].kind \notin Entering \cup Finding
       /\ kind \in Entering => call[d].kind \notin Finding

Orders(S) == {s \in [1..Cardinality(S) -> S] : \A i, j \in DOMAIN s : s[i] = s[j] => i = j}

\* get() and has()
Visible(id) == id \notin inFlight /\ modules[id] # NoObject
Get(id) == IF id \in inFlight THEN NoObject ELSE modules[id]

\* detectIdConflicts over _modules and _inFlight
Conflict(id) == modules[id] # NoObject \/ id \in inFlight

----------------------------------------------------------------------------
(* Loading: c loads r.object under Under(r), by the door of its kind. *)

\* The registration door: the stage-8 loop of the discovery, the restoring
\* registerInternal() of a reload, or the call's own.
Door(r) == CASE r.kind \in Entering -> r.kind
             [] r.todo # <<>>       -> "order"
             [] OTHER               -> "internal"

Under(r) == CASE r.kind \in Entering -> r.id
              [] r.todo # <<>>       -> Head(r.todo)
              [] OTHER               -> r.targets[r.at]

\* The turn of c goes on after its module has been handled: the loops of a
\* discovery and of a restoring reload have user callbacks behind them.
Handled(c, r) ==
  IF r.kind \in Entering
  THEN /\ call' = [call EXCEPT ![c] = Over(c)]
       /\ stack' = StackLess(c)
  ELSE /\ call' = [call EXCEPT ![c] = [r EXCEPT !.pc = "told"]]
       /\ stack' = IF OnTop(c) THEN stack ELSE <<c>> \o stack

\* The module becomes visible, with its metadata.
Publish(r) ==
  /\ modules' = [modules EXCEPT ![Under(r)] = r.object]
  /\ meta' = [meta EXCEPT ![Under(r)] = r.object]
  /\ live' = [live EXCEPT ![r.object] = @ + 1]
  /\ owed' = [c \in Callers |-> owed[c] \ {Under(r)}]

\* What the door wrote to meta before onLoad is taken back.
Unrolled(r) == meta                                                \* mutant
RolledBack(r) == IF Door(r) \in {"custom", "internal"}
                 THEN [meta EXCEPT ![Under(r)] = NoObject] ELSE meta

\* onLoad has failed.
Abandon(r) ==
  /\ inFlight' = inFlight \ {Under(r)}
  /\ meta' = RolledBack(r)
  /\ owed' = [c \in Callers |-> owed[c] \ {Under(r)}]
  /\ UNCHANGED <<modules, live>>

\* Until onLoad has succeeded the module is not in _modules.
Deferred(r) == modules

\* Past the conflict check: the id is reserved and onLoad is called, or the
\* module has none.  At the checked doors to have none is to have one that
\* returns at once, so only for files the two are told apart.
Enter(c, r) ==
  IF r.object \in hooked \cup Callers
  THEN /\ inFlight' = inFlight \cup {Under(r)}
       /\ meta' = IF Door(r) \in {"custom", "internal"}
                  THEN [meta EXCEPT ![Under(r)] = r.object] ELSE meta
       /\ call' = [call EXCEPT ![c] = [r EXCEPT !.pc = "loading"]]
       /\ stack' = IF OnTop(c) THEN stack ELSE <<c>> \o stack
       /\ modules' = Deferred(r)
       /\ UNCHANGED <<live, owed>>
  ELSE /\ Publish(r) /\ Handled(c, r)
       /\ UNCHANGED inFlight

\* A checked door: a conflict throws, and ends the call.
EnterChecked(c, r) ==
  IF Conflict(Under(r))
  THEN /\ call' = [call EXCEPT ![c] = Over(c)]
       /\ stack' = StackLess(c)
       /\ UNCHANGED <<tables, live, owed>>
  ELSE Enter(c, r)

\* onLoad returns.  registerInternal() takes a promise for a success as well.
LoadReturns(c) ==
  LET r == call[c] IN
  /\ OnTop(c) /\ r.pc = "loading"
  /\ Publish(r)
  /\ inFlight' = inFlight \ {Under(r)}
  /\ Handled(c, r)
  /\ UNCHANGED <<drains, hooked>>

\* onLoad throws.  The loop of the discovery goes on to the next module; a
\* reload that was restoring ends with the error.
LoadThrows(c) ==
  LET r == call[c] IN
  /\ OnTop(c) /\ r.pc = "loading"
  /\ Abandon(r)
  /\ IF Door(r) = "order" THEN Handled(c, r)
     ELSE /\ call' = [call EXCEPT ![c] = Over(c)]
          /\ stack' = Tail(stack)
  /\ UNCHANGED <<drains, hooked>>

\* onLoad returns a promise: register() writes the metadata at once and both it
\* and the discovery wait; a custom discoverer's module is skipped.
LoadWaits(c) ==
  LET r == call[c] IN
  /\ OnTop(c) /\ r.pc = "loading"
  /\ stack' = Tail(stack)
  /\ \/ /\ Door(r) = "register"
        /\ meta' = [meta EXCEPT ![Under(r)] = r.object]
        /\ call' = [call EXCEPT ![c].pc = "pending"]
        /\ UNCHANGED <<modules, inFlight, live, owed>>
     \/ /\ Door(r) = "order"
        /\ call' = [call EXCEPT ![c].pc = "pending"]
        /\ UNCHANGED <<tables, live, owed>>
     \/ /\ Door(r) = "custom"
        /\ Abandon(r)
        /\ call' = [call EXCEPT ![c] = Over(c)]
  /\ UNCHANGED <<drains, hooked>>

\* The promise of onLoad is kept.  register() commits the module only; the
\* discovery merges the metadata now.
LoadResolves(c) ==
  LET r == call[c] IN
  /\ Resumes(c, "pending")
  /\ modules' = [modules EXCEPT ![Under(r)] = r.object]
  /\ meta' = IF Door(r) = "order" THEN [meta EXCEPT ![Under(r)] = r.object] ELSE meta
  /\ inFlight' = inFlight \ {Under(r)}
  /\ live' = [live EXCEPT ![r.object] = @ + 1]
  /\ owed' = [d \in Callers |-> owed[d] \ {Under(r)}]
  /\ Handled(c, r)
  /\ UNCHANGED <<drains, hooked>>

\* It is broken: register() rolls the metadata back, whoever's it is.
LoadRejects(c) ==
  LET r == call[c] IN
  /\ Resumes(c, "pending")
  /\ inFlight' = inFlight \ {Under(r)}
  /\ meta' = IF Door(r) = "register" THEN [meta EXCEPT ![Under(r)] = NoObject] ELSE meta
  /\ owed' = [d \in Callers |-> owed[d] \ {Under(r)}]
  /\ Handled(c, r)
  /\ UNCHANGED <<modules, live, drains, hooked>>

----------------------------------------------------------------------------
(* register(), registerInternal(), the custom discoverer *)

\* An asynchronous validator defers the conflict check.
RegisterCall(c, id) ==
  LET r == [NoCall EXCEPT !.kind = "register", !.id = id, !.object = c] IN
  /\ MayStart(c, "register")
  /\ \/ EnterChecked(c, r)
     \/ /\ call' = [call EXCEPT ![c] = [r EXCEPT !.pc = "validating"]]
        /\ UNCHANGED <<tables, stack, live, owed>>
  /\ UNCHANGED <<drains, hooked>>

Validated(c) ==
  /\ Resumes(c, "validating")
  /\ EnterChecked(c, call[c])
  /\ UNCHANGED <<drains, hooked>>

\* The validator rejects the module, or the discoverer offers nothing.
TurnedDown(c) ==
  /\ Resumes(c, "validating") \/ Resumes(c, "asking")
  /\ call' = [call EXCEPT ![c] = Over(c)]
  /\ UNCHANGED <<tables, drains, stack, hooked, live, owed>>

RegisterInternalCall(c, id) ==
  /\ MayStart(c, "internal")
  /\ EnterChecked(c, [NoCall EXCEPT !.kind = "internal", !.id = id, !.object = c])
  /\ UNCHANGED <<drains, hooked>>

\* discover() with a custom discoverer, which offers one module.
DiscoverCustomCall(c, id) ==
  /\ MayStart(c, "custom")
  /\ call' = [call EXCEPT ![c] =
       [NoCall EXCEPT !.kind = "custom", !.pc = "asking", !.id = id, !.object = c]]
  /\ UNCHANGED <<tables, drains, stack, hooked, live, owed>>

Offered(c) ==
  /\ Resumes(c, "asking")
  /\ EnterChecked(c, call[c])
  /\ UNCHANGED <<drains, hooked>>

----------------------------------------------------------------------------
(* The discovery of the extension roots *)

DiscoverCall(c) ==
  /\ MayStart(c, "discover")
  /\ call' = [call EXCEPT ![c] = [NoCall EXCEPT !.kind = "discover", !.pc = "scanning"]]
  /\ UNCHANGED <<tables, drains, stack, hooked, live, owed>>

\* Stage 7 drops the ids that are registered now.
Admitted(found) == {id \in found : modules[id] = NoObject}

\* Stages 1-6 read the disk only, and stage 8 orders what stage 7 has left; none
\* of it is looked at again.
Filter(c) ==
  /\ Resumes(c, "scanning")
  /\ \E found \in SUBSET Ids : \E order \in Orders(Admitted(found)) :
       call' = [call EXCEPT ![c].pc = "order", ![c].todo = order]
  /\ stack' = <<c>>
  /\ UNCHANGED <<tables, drains, hooked, live, owed>>

\* A reload puts back what it had unloaded when its discovery throws.
AfterLoadFails(c) == IF call[c].kind = "discover" THEN Over(c)
                   ELSE [call[c] EXCEPT !.pc = "failed"]

\* A stage throws: the scan, a reserved id, a dependency that is not there.
DiscoveryFails(c) ==
  /\ Resumes(c, "scanning")
  /\ call' = [call EXCEPT ![c] = AfterLoadFails(c)]
  /\ UNCHANGED <<tables, drains, stack, hooked, live, owed>>

\* The loop of _registerInOrder takes the next module.
LoadNext(c) ==
  LET r == call[c]
      rest == IF r.pc = "told" THEN Tail(r.todo) ELSE r.todo IN
  /\ OnTop(c)
  /\ r.pc = "order" \/ (r.pc = "told" /\ r.todo # <<>>)
  /\ IF rest # <<>>
     THEN Enter(c, [r EXCEPT !.todo = rest, !.object = Head(rest)])
     ELSE /\ stack' = Tail(stack)
          /\ call' = [call EXCEPT ![c] = IF r.kind = "discover" THEN Over(c)
                      ELSE [r EXCEPT !.pc = "found", !.todo = <<>>, !.object = NoObject]]
          /\ UNCHANGED <<tables, live, owed>>
  /\ UNCHANGED <<drains, hooked>>

----------------------------------------------------------------------------
(* Leaving the registry *)

\* Pending resolvers are forgotten, not called.
ResolversDropped(id) == [waiters EXCEPT ![id] = {}]

\* unregister(): the tables and the drain state of the id are cleared.
Withdraw(id) ==
  /\ modules' = [modules EXCEPT ![id] = NoObject]
  /\ meta' = [meta EXCEPT ![id] = NoObject]
  /\ draining' = draining \ {id}
  /\ refs' = [refs EXCEPT ![id] = 0]
  /\ waiters' = ResolversDropped(id)
  /\ live' = [live EXCEPT ![modules[id]] = @ - 1]

UnregisterCall(c, id) ==
  /\ MayStart(c, "unregister")
  /\ modules[id] # NoObject
  /\ Withdraw(id)
  /\ call' = [call EXCEPT ![c] = [NoCall EXCEPT !.kind = "unregister", !.pc = "done"]]
  /\ UNCHANGED <<inFlight, stack, hooked, owed>>

\* A watched file changes: the handler waits for an import, then unregisters
\* the module if it is visible.  Which id a path stands for is free: the code
\* takes the first one that ends like the name of the file.
FileChanges(c, id) ==
  /\ MayStart(c, "watch") /\ stack = <<>>
  /\ call' = [call EXCEPT ![c] =
       [NoCall EXCEPT !.kind = "watch", !.pc = "importing", !.id = id]]
  /\ UNCHANGED <<tables, drains, stack, hooked, live, owed>>

HandleFileChange(c) ==
  /\ Resumes(c, "importing")
  /\ IF Visible(call[c].id) THEN Withdraw(call[c].id)
     ELSE UNCHANGED <<modules, meta, drains, live>>
  /\ call' = [call EXCEPT ![c] = Over(c)]
  /\ UNCHANGED <<inFlight, stack, hooked, owed>>

\* A watched file is gone: there is nothing to wait for.
FileDeleted(c, id) ==
  /\ MayStart(c, "watch") /\ stack = <<>>
  /\ Visible(id) /\ Withdraw(id)
  /\ call' = [call EXCEPT ![c] = [NoCall EXCEPT !.kind = "watch", !.pc = "done"]]
  /\ UNCHANGED <<inFlight, stack, hooked, owed>>

----------------------------------------------------------------------------
(* acquire(), release() and safeUnregister() *)

\* The holder is refused while the module drains.
Acquire(c, id) ==
  /\ MayStart(c, "use")
  /\ id \notin draining /\ modules[id] # NoObject
  /\ refs' = [refs EXCEPT ![id] = @ + 1]
  /\ call' = [call EXCEPT ![c] = [NoCall EXCEPT !.kind = "use", !.pc = "using", !.id = id,
                                              !.object = modules[id]]]
  /\ UNCHANGED <<tables, draining, waiters, stack, hooked, live, owed>>

\* The calls whose resolver is called, and who are still waiting for it.
Woken(W) == {d \in W : call[d].pc = "draining"}
Wake(f, W) == [d \in Callers |-> IF d \in Woken(W)
                               THEN [f[d] EXCEPT !.pc = "drained", !.clean = TRUE] ELSE f[d]]

\* A count that is gone, with the module, is left alone.
Less(n) == IF n = 0 THEN 0 ELSE n - 1

\* release() knows the id, not the object; at zero the waiters are resolved.
Release(c) ==
  LET id == call[c].id
      gone == [call EXCEPT ![c] = Over(c)] IN
  /\ MayCall /\ call[c].pc = "using"
  /\ refs' = [refs EXCEPT ![id] = Less(@)]
  /\ IF refs[id] = 1
     THEN /\ call' = Wake(gone, waiters[id])
          /\ waiters' = [waiters EXCEPT ![id] = {}]
     ELSE call' = gone /\ UNCHANGED waiters
  /\ UNCHANGED <<tables, draining, stack, hooked, live, owed>>

\* The synchronous part of safeUnregister(r.targets[r.at]): there is nothing to
\* unload, nobody to wait for, or a resolver to wait with.
Drain(c, r) ==
  LET id == r.targets[r.at] IN
  IF modules[id] = NoObject
  THEN /\ call' = [call EXCEPT ![c] = [r EXCEPT !.pc = "unloaded", !.clean = FALSE]]
       /\ UNCHANGED <<draining, waiters>>
  ELSE /\ draining' = draining \cup {id}
       /\ IF refs[id] = 0
          THEN /\ call' = [call EXCEPT ![c] = [r EXCEPT !.pc = "drained", !.clean = TRUE]]
               /\ UNCHANGED waiters
          ELSE /\ call' = [call EXCEPT ![c] = [r EXCEPT !.pc = "draining", !.clean = FALSE]]
               /\ waiters' = [waiters EXCEPT ![id] = @ \cup {c}]

SafeUnregisterCall(c, id) ==
  /\ MayStart(c, "safe")
  /\ Drain(c, [NoCall EXCEPT !.kind = "safe", !.targets = <<id>>, !.at = 1])
  /\ UNCHANGED <<tables, refs, stack, hooked, live, owed>>

\* waitDrained gives up.
DrainTimesOut(c) ==
  /\ Resumes(c, "draining")
  /\ call' = [call EXCEPT ![c].pc = "drained"]
  /\ UNCHANGED <<tables, drains, stack, hooked, live, owed>>

\* endDrain resolves whoever else waits, and unregister() follows.
Unload(c) ==
  LET id == call[c].targets[call[c].at] IN
  /\ Resumes(c, "drained")
  /\ call' = [Wake(call, waiters[id]) EXCEPT ![c].pc = "unloaded"]
  /\ IF modules[id] # NoObject
     THEN /\ Withdraw(id)
          /\ owed' = [owed EXCEPT ![c] = IF call[c].kind = "safe" THEN @ ELSE @ \cup {id}]
     ELSE /\ draining' = draining \ {id}
          /\ waiters' = [waiters EXCEPT ![id] = {}]
          /\ refs' = [refs EXCEPT ![id] = 0]
          /\ UNCHANGED <<modules, meta, live, owed>>
  /\ UNCHANGED <<inFlight, stack, hooked>>

\* safeUnregister has returned: its caller ends, unloads the next module of the
\* filter, or discovers.
Unloaded(c) ==
  LET r == call[c] IN
  /\ Resumes(c, "unloaded")
  /\ \/ /\ r.kind = "safe"
        /\ call' = [call EXCEPT ![c] = Over(c)]
        /\ UNCHANGED <<draining, waiters>>
     \/ /\ r.kind # "safe" /\ r.at < Len(r.targets)
        /\ Drain(c, [r EXCEPT !.at = @ + 1])
     \/ /\ r.kind # "safe" /\ r.at = Len(r.targets)
        /\ call' = [call EXCEPT ![c].pc = "scanning"]
        /\ UNCHANGED <<draining, waiters>>
  /\ UNCHANGED <<tables, refs, stack, hooked, live, owed>>

----------------------------------------------------------------------------
(* system.control.reload_module *)

ReloadCall(c, id) ==
  /\ MayStart(c, "reload")
  /\ Get(id) # NoObject
  /\ Drain(c, [NoCall EXCEPT !.kind = "reload", !.targets = <<id>>, !.at = 1,
                           !.old = [NoModules EXCEPT ![id] = Get(id)]])
  /\ UNCHANGED <<tables, refs, stack, hooked, live, owed>>

\* With path_filter: the registered modules that match, in dependency order.
ReloadAllCall(c) ==
  /\ MayStart(c, "reloadAll")
  /\ \E match \in SUBSET {id \in Ids : modules[id] # NoObject} : \E order \in Orders(match) :
       /\ match # {}
       /\ Drain(c, [NoCall EXCEPT !.kind = "reloadAll", !.targets = order, !.at = 1,
                    !.old = [id \in Ids |-> IF id \in match THEN Get(id) ELSE NoObject]])
  /\ UNCHANGED <<tables, refs, stack, hooked, live, owed>>

\* After a discovery that failed all are put back, after one that went well those
\* that get() does not find when the loop comes to them; clean tells which.
ToRestore(r, from) ==
  {i \in from..Len(r.targets) : /\ r.old[r.targets[i]] # NoObject
                                /\ ~r.clean \/ Get(r.targets[i]) = NoObject}

\* registerInternal() of the next one; what it throws ends the loop as well.
Restore(c, r, from) ==
  IF ToRestore(r, from) = {}
  THEN /\ call' = [call EXCEPT ![c] = Over(c)]
       /\ stack' = StackLess(c)
       /\ UNCHANGED <<tables, live, owed>>
  ELSE LET i == CHOOSE i \in ToRestore(r, from) : \A j \in ToRestore(r, from) : i <= j IN
       EnterChecked(c, [r EXCEPT !.at = i, !.object = r.old[r.targets[i]]])

BeginRestore(c) ==
  /\ Resumes(c, "found") \/ Resumes(c, "failed")
  /\ Restore(c, [call[c] EXCEPT !.clean = call[c].pc = "found"], 1)
  /\ UNCHANGED <<drains, hooked>>

RestoreNext(c) ==
  /\ OnTop(c) /\ call[c].pc = "told" /\ call[c].todo = <<>>
  /\ Restore(c, call[c], call[c].at + 1)
  /\ UNCHANGED <<drains, hooked>>

----------------------------------------------------------------------------
(* The specification *)

\* The host has discovered some of the files when it starts.
RegistryInit ==
  /\ \E start \in SUBSET Ids : modules = [id \in Ids |-> IF id \in start THEN id ELSE NoObject]
  /\ meta = modules /\ inFlight = {}
  /\ draining = {} /\ refs = [id \in Ids |-> 0] /\ waiters = [id \in Ids |-> {}]
  /\ call = [c \in Callers |-> NoCall] /\ stack = <<>>
  /\ hooked \in SUBSET Ids
  /\ live = [o \in ModuleObjects |-> IF \E id \in Ids : modules[id] = o THEN 1 ELSE 0]
  /\ owed = [c \in Callers |-> {}]

Starts(c) ==
  \/ \E id \in Ids : \/ RegisterCall(c, id) \/ RegisterInternalCall(c, id)
                     \/ DiscoverCustomCall(c, id) \/ UnregisterCall(c, id)
                     \/ FileChanges(c, id) \/ FileDeleted(c, id) \/ Acquire(c, id)
                     \/ SafeUnregisterCall(c, id) \/ ReloadCall(c, id)
  \/ DiscoverCall(c) \/ ReloadAllCall(c)

\* What the registry, its timer and the synchronous part of an onLoad do.
CallGoes(c) ==
  \/ LoadReturns(c) \/ LoadThrows(c) \/ LoadWaits(c) \/ LoadNext(c)
  \/ Filter(c) \/ DiscoveryFails(c) \/ HandleFileChange(c)
  \/ DrainTimesOut(c) \/ Unload(c) \/ Unloaded(c)
  \/ BeginRestore(c) \/ RestoreNext(c)

\* What others answer, if ever: a validator, a discoverer, the promise of an
\* onLoad, the holder of a module.
Answers(c) ==
  \/ Validated(c) \/ TurnedDown(c) \/ Offered(c)
  \/ LoadResolves(c) \/ LoadRejects(c) \/ Release(c)

RegistryNext == \E c \in Callers : Starts(c) \/ CallGoes(c) \/ Answers(c)

RegistrySpec == RegistryInit /\ [][RegistryNext]_registryVars

----------------------------------------------------------------------------
(* Properties *)

CallStages == {"idle", "done", "validating", "asking", "loading", "pending", "told", "scanning",
        "order", "found", "failed", "importing", "using", "draining", "drained", "unloaded"}

RegistryTypeOK ==
  /\ modules \in [Ids -> Holdings] /\ meta \in [Ids -> Holdings]
  /\ inFlight \subseteq Ids /\ draining \subseteq Ids
  /\ refs \in [Ids -> 0..Cardinality(Callers)]
  /\ waiters \in [Ids -> SUBSET Callers]
  /\ stack \in Seq(Callers) /\ \A i, j \in DOMAIN stack : stack[i] = stack[j] => i = j
  /\ hooked \subseteq Ids
  /\ live \in [ModuleObjects -> 0..1] /\ owed \in [Callers -> SUBSET Ids]
  /\ \A c \in Callers : call[c].kind \in AllKinds \cup {NoObject} /\ call[c].pc \in CallStages

\* A module object is live, its onLoad having succeeded once more than its
\* onUnload was called, exactly while the registry has it: nothing is visible
\* before its onLoad has ended or after its onUnload, no onLoad or onUnload runs
\* twice, and nothing loaded is dropped.
LiveWhilePublished ==
  \A o \in ModuleObjects : live[o] = Cardinality({id \in Ids : modules[id] = o})

\* The id of a module whose onLoad runs is reserved until it ends, and no other
\* id is: a second registration of it cannot come in between, and an id does not
\* stay reserved for ever.
Loading == {c \in Callers : call[c].pc \in {"loading", "pending"}}

ReservedWhileLoading ==
  /\ inFlight = {Under(call[c]) : c \in Loading}
  /\ \A c, d \in Loading : Under(call[c]) = Under(call[d]) => c = d

\* The metadata and the lower-case index are those of the module that is
\* registered, and of no module that is not registered or loading: a failed
\* onLoad rolls back its own entries and nobody else's.
IdsIndexed ==
  \A id \in Ids : /\ modules[id] # NoObject => meta[id] = modules[id]
                  /\ meta[id] # NoObject => modules[id] # NoObject \/ id \in inFlight

\* Who waits for a module to drain waits for somebody: holders that are counted
\* and will wake it.  No wake-up is lost between release(), a second drain and an
\* unregister(), and a count left over from an unloaded module holds nobody up.
WaitersAwaitHolders ==
  \A id \in Ids : Woken(waiters[id]) # {} =>
    /\ id \in draining
    /\ refs[id] \in 1..Cardinality({c \in Callers : call[c].pc = "using" /\ call[c].id = id})

\* A reload of one module gives its id back, by discovery or by restoring the
\* old object, unless the onLoad of what was to come back has failed.
ReloadGivesBack ==
  \A c \in Callers : call[c].kind = "reload" /\ call[c].pc = "done" => owed[c] = {}

\* What lookups, listings and drains of the registry rely on, together: its
\* five tables and its callbacks never disagree about who is registered, who is
\* on the way in or out, and who waits for whom.
TablesAgree ==
  /\ RegistryTypeOK
  /\ LiveWhilePublished /\ ReservedWhileLoading
  /\ IdsIndexed /\ WaitersAwaitHolders
=============================================================================
