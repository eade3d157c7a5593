--------------------------- MODULE RegistryProofs ---------------------------
(***************************************************************************)
(* The five tables of Registry agree, and a reload gives its module back,   *)
(* for any number of ids and callers, when the host awaits discover() and   *)
(* reload before it registers more (Exclusive).                             *)
(*                                                                          *)
(* The invariant says what each call holds at each of its stages (Shapes),  *)
(* that no registration overlaps a discovery (Excluded), that an object is  *)
(* known under one id only (Homes), and relates the tables, the stack and   *)
(* the counts to the calls.                                                 *)
(***************************************************************************)
EXTENDS Registry, LoadOrder, FiniteSetTheorems, SequenceTheorems, WellFoundedInduction, TLAPS

AnyKind == AllKinds \cup {NoObject}

CallRecords ==
  [kind : AnyKind, pc : CallStages, id : Ids \cup {NoObject}, object : Holdings,
   todo : Seq(Ids), targets : Seq(Ids), at : Nat, old : [Ids -> Holdings], clean : BOOLEAN]

Types ==
  /\ modules \in [Ids -> Holdings] /\ meta \in [Ids -> Holdings]
  /\ inFlight \subseteq Ids /\ draining \subseteq Ids
  /\ refs \in [Ids -> Nat] /\ waiters \in [Ids -> SUBSET Callers]
  /\ hooked \subseteq Ids
  /\ live \in [ModuleObjects -> 0..1] /\ owed \in [Callers -> SUBSET Ids]
  /\ call \in [Callers -> CallRecords]

\* What r loads, by the three ways a module comes to be loaded: c's own object,
\* the next file of a discovery, the object a reload had taken out.
EntersBy(c, r) == r.kind \in Entering /\ r.id \in Ids /\ r.object = c
Finds(r) == r.kind \in Finding /\ r.todo # <<>> /\ r.object = Head(r.todo)
PutsBack(r) ==
  /\ r.kind \in Finding /\ r.todo = <<>> /\ r.at \in 1..Len(r.targets)
  /\ r.object = r.old[r.targets[r.at]] /\ r.object # NoObject

Loads(c, r) == EntersBy(c, r) \/ Finds(r) \/ PutsBack(r)

\* What c's call holds at each of its stages.
Shape(c, r) ==
  /\ r.pc \in {"validating", "asking"} => EntersBy(c, r)
  /\ r.pc = "loading" => Loads(c, r)
  /\ r.pc = "pending" => (EntersBy(c, r) /\ r.kind = "register") \/ Finds(r)
  /\ r.pc \in {"told", "order", "scanning", "found", "failed"} => r.kind \in Finding
  /\ r.todo # <<>> => r.kind \in Finding /\ r.pc \in {"order", "loading", "pending", "told"}
  /\ r.pc \in {"importing", "using"} => r.id \in Ids /\ r.kind \notin Finding
  /\ r.pc \in {"draining", "drained", "unloaded"} =>
       r.kind \in Finding \cup {"safe"} /\ r.at \in 1..Len(r.targets)

Shapes == \A c \in Callers : Shape(c, call[c])

\* A discovery or a reload is alone among those that register.
Excluded ==
  \A c, d \in Callers :
    c # d /\ InProgress(c) /\ InProgress(d) /\ call[c].kind \in Finding
      => call[d].kind \notin Entering \cup Finding

OnStack(c) == \E i \in 1..Len(stack) : stack[i] = c
Running(r) == r.pc \in {"loading", "told", "order"}

Stacked ==
  /\ stack \in Seq(Callers)
  /\ \A i, j \in 1..Len(stack) : stack[i] = stack[j] => i = j
  /\ \A c \in Callers : OnStack(c) <=> Running(call[c])

\* The registry or a call knows the object o under the id.
Known(o, id) ==
  \/ modules[id] = o
  \/ \E c \in Callers : call[c].old[id] = o
  \/ o \in Callers /\ InProgress(o) /\ call[o].kind \in Entering /\ call[o].id = id

Homes ==
  /\ \A o \in ModuleObjects : \A i, j \in Ids : Known(o, i) /\ Known(o, j) => i = j
  /\ \A o, id \in Ids : Known(o, id) => o = id
  /\ \A c \in Callers, id \in Ids : call[c].pc = "idle" => ~Known(c, id)

\* The ids a discovery still has ahead are not registered.
Ahead(table, r) ==
  /\ \A i, j \in 1..Len(r.todo) : r.todo[i] = r.todo[j] => i = j
  /\ \A i \in 1..Len(r.todo) : (r.pc = "told" /\ i = 1) \/ table[r.todo[i]] = NoObject

AheadFree == \A c \in Callers : Ahead(modules, call[c])

\* What is in meta for a module that is being loaded.
Foretold(r) ==
  IF Door(r) \in {"custom", "internal"} \/ (Door(r) = "register" /\ r.pc = "pending")
  THEN r.object ELSE NoObject

Reserved ==
  /\ ReservedWhileLoading
  /\ \A c \in Loading : /\ modules[Under(call[c])] = NoObject
                        /\ meta[Under(call[c])] = Foretold(call[c])

LiveIffThere ==
  \A o \in ModuleObjects : live[o] = IF \E id \in Ids : modules[id] = o THEN 1 ELSE 0

Users(id) == {c \in Callers : call[c].pc = "using" /\ call[c].id = id}

Counted ==
  \A id \in Ids : /\ refs[id] <= Cardinality(Users(id))
                  /\ waiters[id] # {} => id \in draining /\ refs[id] >= 1

\* What is owed is not registered; a reload of one module owes that module at
\* most, and nothing once it has put it back.
Owes(debt, r) ==
  /\ r.pc = "idle" => debt = {}
  /\ r.kind = "reload" /\ r.pc = "done" => debt = {}
  /\ r.kind = "reload" /\ r.pc \notin {"idle", "done"} =>
       /\ Len(r.targets) = 1 /\ r.old[r.targets[1]] # NoObject
       /\ debt \subseteq {r.targets[1]}
       /\ r.pc = "told" /\ r.todo = <<>> => debt = {}

Debts ==
  \A c \in Callers : /\ Owes(owed[c], call[c])
                     /\ \A id \in owed[c] : modules[id] = NoObject

TableInv ==
  /\ Types /\ Shapes /\ Excluded /\ Stacked /\ Homes /\ AheadFree
  /\ Reserved /\ IdsIndexed /\ LiveIffThere /\ Counted /\ Debts
----------------------------------------------------------------------------
(* The calls *)

\* A step of c leaves the other calls as they are, or wakes them.
Alike(d) ==
  /\ call'[d].kind = call[d].kind /\ call'[d].id = call[d].id
  /\ call'[d].object = call[d].object /\ call'[d].todo = call[d].todo
  /\ call'[d].targets = call[d].targets /\ call'[d].at = call[d].at
  /\ call'[d].old = call[d].old
  /\ call'[d].pc = call[d].pc \/ (call[d].pc = "draining" /\ call'[d].pc = "drained")

\* c's call becomes q.
Moved(c, q) ==
  /\ q \in CallRecords
  /\ call' \in [Callers -> CallRecords] /\ call'[c] = q
  /\ \A d \in Callers : d # c => Alike(d)

\* q is what c's call may become: c starts, alone if it must be, or goes on with
\* what it does, or ends.
GoesOn(c, q) ==
  \/ /\ call[c].pc = "idle"
     /\ \A d \in Callers : d # c /\ InProgress(d) =>
          /\ q.kind \in Finding => call[d].kind \notin Entering \cup Finding
          /\ q.kind \in Entering => call[d].kind \notin Finding
  \/ InProgress(c) /\ q.kind = call[c].kind /\ q.id = call[c].id
  \/ q.pc = "done"

Fits(c, q) ==
  /\ Shape(c, q) /\ GoesOn(c, q) /\ q.pc # "idle"
  /\ \A id \in Ids : \/ q.old[id] = NoObject \/ q.old[id] = call[c].old[id]
                     \/ q.old[id] = modules[id]

\* Literals are of the types of the fields of a call.
LEMMA Stages ==
  /\ \A k \in AllKinds : k \in AnyKind
  /\ NoObject \in AnyKind
  /\ \A k \in Entering \cup Finding : k \in AnyKind
  /\ \A k \in {"unregister", "safe", "watch", "use", "reload", "reloadAll"} : k \in AnyKind
  BY DEF AnyKind, AllKinds, Entering, Finding

LEMMA Objects ==
  /\ NoObject \notin Ids /\ NoObject \notin Callers /\ NoObject \notin ModuleObjects
  /\ \A c \in Callers : c \notin Ids /\ c \in ModuleObjects /\ c \in Holdings
  /\ \A id \in Ids : id \notin Callers /\ id \in ModuleObjects /\ id \in Holdings
  /\ NoObject \in Holdings
  /\ \A o \in Holdings : o = NoObject \/ o \in ModuleObjects
  BY RegistryAssumption DEF ModuleObjects, Holdings

\* The fields of a call.
LEMMA Fields ==
  ASSUME NEW r \in CallRecords
  PROVE  /\ r.kind \in AnyKind /\ r.pc \in CallStages /\ r.id \in Ids \cup {NoObject}
         /\ r.object \in Holdings /\ r.todo \in Seq(Ids) /\ r.targets \in Seq(Ids)
         /\ r.at \in Nat /\ r.old \in [Ids -> Holdings] /\ r.clean \in BOOLEAN
  BY DEF CallRecords

\* A sequence of ids.
LEMMA IdSeq ==
  ASSUME NEW s \in Seq(Ids)
  PROVE  /\ Len(s) \in Nat
         /\ \A i \in 1..Len(s) : s[i] \in Ids
         /\ s # <<>> <=> Len(s) > 0
         /\ s # <<>> => /\ Head(s) = s[1] /\ Head(s) \in Ids
                        /\ Tail(s) \in Seq(Ids) /\ Len(Tail(s)) = Len(s) - 1
                        /\ \A i \in 1..Len(s) - 1 : Tail(s)[i] = s[i + 1]
         /\ <<>> \in Seq(Ids)
<1>1. Len(s) \in Nat /\ DOMAIN s = 1..Len(s)
  BY LenProperties
<1>2. \A i \in 1..Len(s) : s[i] \in Ids
  BY ElementOfSeq
<1>3. s # <<>> <=> Len(s) > 0
  BY <1>1, EmptySeq
<1>4. ASSUME s # <<>>
      PROVE  /\ Head(s) = s[1] /\ Head(s) \in Ids
             /\ Tail(s) \in Seq(Ids) /\ Len(Tail(s)) = Len(s) - 1
             /\ \A i \in 1..Len(s) - 1 : Tail(s)[i] = s[i + 1]
  <2>1. /\ Head(s) \in Ids /\ Tail(s) \in Seq(Ids)
        /\ Len(Tail(s)) = Len(s) - 1 /\ \A i \in 1..Len(Tail(s)) : Tail(s)[i] = s[i + 1]
    BY <1>4, HeadTailProperties, Zenon
  <2> QED
    BY <1>4, <2>1
<1> QED
  BY <1>1, <1>2, <1>3, <1>4, EmptySeq

\* By which door, and under which id, a call loads.
LEMMA Doors ==
  ASSUME NEW c \in Callers, NEW r \in CallRecords, r.todo # <<>> => r.kind \in Finding
  PROVE  /\ EntersBy(c, r) => Door(r) = r.kind /\ Under(r) = r.id
         /\ Finds(r) => Door(r) = "order" /\ Under(r) = Head(r.todo)
         /\ PutsBack(r) => Door(r) = "internal" /\ Under(r) = r.targets[r.at]
         /\ Loads(c, r) => Under(r) \in Ids /\ r.object \in ModuleObjects
<1>1. Entering \cap Finding = {}
  BY DEF Entering, Finding
<1>2. r.todo \in Seq(Ids) /\ r.targets \in Seq(Ids)
  BY Fields
<1>3. r.kind \in Entering => r.todo = <<>> /\ r.kind \notin Finding
  BY <1>1
<1>4. EntersBy(c, r) => Door(r) = r.kind /\ Under(r) = r.id
  BY <1>3 DEF EntersBy, Door, Under
<1>5. Finds(r) => Door(r) = "order" /\ Under(r) = Head(r.todo)
  BY <1>1 DEF Finds, Door, Under
<1>6. PutsBack(r) => Door(r) = "internal" /\ Under(r) = r.targets[r.at]
  BY <1>1 DEF PutsBack, Door, Under
<1>7. Loads(c, r) => Under(r) \in Ids /\ r.object \in ModuleObjects
  BY <1>2, <1>4, <1>5, <1>6, IdSeq, Objects, Fields DEF Loads, EntersBy, Finds, PutsBack
<1> QED
  BY <1>4, <1>5, <1>6, <1>7

\* What a call loads does not depend on its stage.
LEMMA SameLoad ==
  ASSUME NEW r \in CallRecords, NEW s \in CallRecords,
         s.kind = r.kind, s.id = r.id, s.todo = r.todo, s.targets = r.targets, s.at = r.at
  PROVE  Door(s) = Door(r) /\ Under(s) = Under(r)
  BY DEF Door, Under

\* The other calls are at the same stage, as far as anything here asks.
LEMMA Unmoved ==
  ASSUME Types, NEW c \in Callers, NEW q, Moved(c, q), NEW d \in Callers, d # c
  PROVE  /\ Alike(d) /\ call'[d] \in CallRecords /\ call[d] \in CallRecords
         /\ InProgress(d)' <=> InProgress(d)
         /\ call'[d].pc = "idle" <=> call[d].pc = "idle"
         /\ d \in Loading' <=> d \in Loading
         /\ d \in Loading => call'[d].pc = call[d].pc
         /\ Running(call'[d]) <=> Running(call[d])
         /\ call'[d].pc = "using" <=> call[d].pc = "using"
         /\ Door(call'[d]) = Door(call[d]) /\ Under(call'[d]) = Under(call[d])
<1>1. Alike(d) /\ call'[d] \in CallRecords /\ call[d] \in CallRecords
  BY DEF Moved, Types
<1>2. Door(call'[d]) = Door(call[d]) /\ Under(call'[d]) = Under(call[d])
  BY <1>1, SameLoad DEF Alike
<1> QED
  BY <1>1, <1>2 DEF Alike, InProgress, Loading, Running
----------------------------------------------------------------------------
(* The stack *)

LEMMA StackSeq ==
  ASSUME Stacked
  PROVE  /\ Len(stack) \in Nat /\ DOMAIN stack = 1..Len(stack)
         /\ \A i \in 1..Len(stack) : stack[i] \in Callers
         /\ stack # <<>> => Len(stack) > 0 /\ Head(stack) = stack[1]
  BY LenProperties, ElementOfSeq, EmptySeq DEF Stacked

\* c runs nothing else, and runs now or has stopped running.
LEMMA StackKept ==
  ASSUME Types, Stacked, NEW c \in Callers, NEW q, Moved(c, q), stack' = stack,
         Running(q) <=> Running(call[c])
  PROVE  Stacked'
<1>1. \A d \in Callers : Running(call'[d]) <=> Running(call[d])
  BY Unmoved DEF Moved
<1> QED
  BY <1>1 DEF Stacked, OnStack

LEMMA StackPushed ==
  ASSUME Types, Stacked, NEW c \in Callers, NEW q, Moved(c, q), stack' = <<c>> \o stack,
         ~Running(call[c]), Running(q)
  PROVE  Stacked'
<1>1. <<c>> \in Seq(Callers) /\ Len(<<c>>) = 1 /\ <<c>>[1] = c
  OBVIOUS
<1>2. Len(stack) \in Nat /\ stack \in Seq(Callers)
  BY StackSeq DEF Stacked
<1>3. /\ stack' \in Seq(Callers) /\ Len(stack') = 1 + Len(stack)
      /\ \A i \in 1..1 + Len(stack) : stack'[i] = IF i <= 1 THEN <<c>>[i] ELSE stack[i - 1]
  BY <1>1, <1>2, ConcatProperties
<1>4. stack'[1] = c /\ \A i \in 1..Len(stack) : i + 1 \in 1..Len(stack') /\ stack'[i + 1] = stack[i]
  BY <1>1, <1>2, <1>3
<1>5. \A i \in 1..Len(stack') : i = 1 \/ (i - 1 \in 1..Len(stack) /\ stack'[i] = stack[i - 1])
  BY <1>2, <1>3
<1>6. ~OnStack(c)
  BY DEF Stacked
<1>7. \A i, j \in 1..Len(stack') : stack'[i] = stack'[j] => i = j
  <2> SUFFICES ASSUME NEW i \in 1..Len(stack'), NEW j \in 1..Len(stack'), stack'[i] = stack'[j]
               PROVE  i = j
    OBVIOUS
  <2>1. CASE i = 1 /\ j = 1
    BY <2>1
  <2>2. CASE i = 1 /\ j # 1
    BY <1>4, <1>5, <1>6, <2>2 DEF OnStack
  <2>3. CASE i # 1 /\ j = 1
    BY <1>4, <1>5, <1>6, <2>3 DEF OnStack
  <2>4. CASE i # 1 /\ j # 1
    <3>1. i - 1 = j - 1
      BY <1>5, <2>4 DEF Stacked
    <3> QED
      BY <1>2, <1>3, <3>1
  <2> QED
    BY <2>1, <2>2, <2>3, <2>4
<1>8. \A d \in Callers : OnStack(d)' <=> d = c \/ OnStack(d)
  <2> TAKE d \in Callers
  <2>1. ASSUME OnStack(d)' PROVE d = c \/ OnStack(d)
    BY <1>4, <1>5, <2>1 DEF OnStack
  <2>2. ASSUME d = c \/ OnStack(d) PROVE OnStack(d)'
    BY <1>2, <1>3, <1>4, <2>2 DEF OnStack
  <2> QED
    BY <2>1, <2>2
<1>9. \A d \in Callers : d # c => (Running(call'[d]) <=> Running(call[d]))
  BY Unmoved
<1> QED
  BY <1>3, <1>7, <1>8, <1>9 DEF Stacked, Moved

LEMMA StackPopped ==
  ASSUME Types, Stacked, NEW c \in Callers, NEW q, Moved(c, q), OnTop(c), stack' = Tail(stack),
         ~Running(q)
  PROVE  Stacked'
<1>1. /\ Len(stack) \in Nat /\ Len(stack) > 0 /\ stack[1] = c
      /\ stack \in Seq(Callers) /\ stack # <<>>
  BY StackSeq DEF Stacked, OnTop
<1>2. /\ stack' \in Seq(Callers) /\ Len(stack') = Len(stack) - 1
      /\ \A i \in 1..Len(stack') : stack'[i] = stack[i + 1]
  BY <1>1, HeadTailProperties, Zenon
<1>3. \A i \in 1..Len(stack') : i + 1 \in 1..Len(stack) /\ i + 1 # 1
  BY <1>1, <1>2
<1>4. \A i, j \in 1..Len(stack') : stack'[i] = stack'[j] => i = j
  <2> SUFFICES ASSUME NEW i \in 1..Len(stack'), NEW j \in 1..Len(stack'), stack'[i] = stack'[j]
               PROVE  i = j
    OBVIOUS
  <2>1. i + 1 = j + 1
    BY <1>2, <1>3 DEF Stacked
  <2> QED
    BY <1>1, <1>2, <2>1
<1>5. \A d \in Callers : OnStack(d)' <=> d # c /\ OnStack(d)
  <2> TAKE d \in Callers
  <2>1. ASSUME OnStack(d)' PROVE d # c /\ OnStack(d)
    <3>1. PICK i \in 1..Len(stack') : stack'[i] = d
      BY <2>1 DEF OnStack
    <3>2. i + 1 \in 1..Len(stack) /\ stack[i + 1] = d /\ i + 1 # 1
      BY <1>2, <1>3, <3>1
    <3> QED
      BY <1>1, <3>2 DEF OnStack, Stacked
  <2>2. ASSUME d # c, OnStack(d) PROVE OnStack(d)'
    <3>1. PICK i \in 1..Len(stack) : stack[i] = d
      BY <2>2 DEF OnStack
    <3>2. i - 1 \in 1..Len(stack') /\ (i - 1) + 1 = i
      BY <1>1, <1>2, <2>2, <3>1
    <3>3. stack'[i - 1] = stack[(i - 1) + 1]
      BY <1>2, <3>2
    <3> QED
      BY <3>1, <3>2, <3>3 DEF OnStack
  <2> QED
    BY <2>1, <2>2
<1>6. \A d \in Callers : d # c => (Running(call'[d]) <=> Running(call[d]))
  BY Unmoved
<1> QED
  BY <1>2, <1>4, <1>5, <1>6 DEF Stacked, Moved
----------------------------------------------------------------------------
(* The parts of the invariant, one at a time *)

LEMMA ShapesStep ==
  ASSUME Types, Shapes, NEW c \in Callers, NEW q, Moved(c, q), Shape(c, q)
  PROVE  Shapes'
<1>1. ASSUME NEW d \in Callers, d # c PROVE Shape(d, call'[d])
  <2>1. Shape(d, call[d]) /\ Alike(d)
    BY <1>1, Unmoved DEF Shapes
  <2>2. /\ EntersBy(d, call'[d]) <=> EntersBy(d, call[d])
        /\ Finds(call'[d]) <=> Finds(call[d])
        /\ PutsBack(call'[d]) <=> PutsBack(call[d])
    BY <2>1 DEF Alike, EntersBy, Finds, PutsBack
  <2> QED
    BY <2>1, <2>2 DEF Shape, Alike, Loads
<1> QED
  BY <1>1 DEF Shapes, Moved

LEMMA ExcludedStep ==
  ASSUME Types, Excluded, NEW c \in Callers, NEW q, Moved(c, q), GoesOn(c, q)
  PROVE  Excluded'
<1>1. \A d \in Callers : d # c => /\ InProgress(d)' <=> InProgress(d)
                                  /\ call'[d].kind = call[d].kind
  BY Unmoved DEF Alike
<1>2. InProgress(c)' => q.pc # "done" /\ call'[c].kind = q.kind
  BY DEF InProgress, Moved
<1>3. ASSUME NEW d \in Callers, d # c, InProgress(d), InProgress(c)'
      PROVE  /\ q.kind \in Finding => call[d].kind \notin Entering \cup Finding
             /\ call[d].kind \in Finding => q.kind \notin Entering \cup Finding
  BY <1>2, <1>3 DEF GoesOn, Excluded
<1> QED
  BY <1>1, <1>2, <1>3 DEF Excluded

\* An object comes to be known only where it was known, or is a file's own.
LEMMA HomesStep ==
  ASSUME Types, Homes, NEW c \in Callers, NEW q, Moved(c, q), Fits(c, q),
         \A id \in Ids : \/ modules'[id] = NoObject \/ Known(modules'[id], id)
                         \/ modules'[id] = id
  PROVE  Homes'
<1> DEFINE Fresh(o, id) == o = c /\ call[c].pc = "idle" /\ q.id = id
<1>1. ASSUME NEW o \in ModuleObjects, NEW id \in Ids, Known(o, id)'
      PROVE  Known(o, id) \/ o = id \/ Fresh(o, id)
  <2>1. CASE modules'[id] = o
    BY <2>1, Objects
  <2>2. CASE \E d \in Callers : call'[d].old[id] = o
    <3>1. PICK d \in Callers : call'[d].old[id] = o
      BY <2>2
    <3>2. CASE d # c
      BY <3>1, <3>2, Unmoved DEF Alike, Known
    <3>3. CASE d = c
      BY <3>1, <3>3, Objects DEF Moved, Fits, Known
    <3> QED
      BY <3>2, <3>3
  <2>3. CASE o \in Callers /\ InProgress(o)' /\ call'[o].kind \in Entering /\ call'[o].id = id
    <3>1. CASE o # c
      BY <2>3, <3>1, Unmoved DEF Alike, Known
    <3>2. CASE o = c
      <4>1. q.pc # "done" /\ q.kind \in Entering /\ q.id = id
        BY <2>3, <3>2 DEF Moved, InProgress
      <4> QED
        BY <3>2, <4>1 DEF Fits, GoesOn, Known
    <3> QED
      BY <3>1, <3>2
  <2> QED
    BY <1>1, <2>1, <2>2, <2>3 DEF Known
<1>2. ASSUME NEW o \in ModuleObjects, NEW i \in Ids, NEW j \in Ids, Known(o, i)', Known(o, j)'
      PROVE  i = j
  <2>1. CASE o \in Ids
    BY <1>1, <1>2, <2>1, Objects DEF Homes
  <2>2. CASE o \notin Ids
    BY <1>1, <1>2, <2>2 DEF Homes
  <2> QED
    BY <2>1, <2>2
<1>3. ASSUME NEW o \in Ids, NEW id \in Ids, Known(o, id)' PROVE o = id
  BY <1>1, <1>3, Objects DEF Homes
<1>4. ASSUME NEW d \in Callers, NEW id \in Ids, call'[d].pc = "idle" PROVE ~Known(d, id)'
  <2>1. d # c /\ call[d].pc = "idle"
    BY <1>4, Unmoved DEF Moved, Fits
  <2> QED
    BY <1>1, <2>1, Objects DEF Homes
<1> QED
  BY <1>2, <1>3, <1>4 DEF Homes

\* Who registers is c: it is alone, or no discovery is under way.
LEMMA AheadStep ==
  ASSUME Types, Shapes, Excluded, AheadFree, NEW c \in Callers, NEW q, Moved(c, q),
         Ahead(modules', q),
         \/ \A id \in Ids : modules'[id] \in {modules[id], NoObject}
         \/ InProgress(c) /\ call[c].kind \in Entering \cup Finding
  PROVE  AheadFree'
<1>1. ASSUME NEW d \in Callers, d # c PROVE Ahead(modules', call'[d])
  <2>1. Ahead(modules, call[d]) /\ Alike(d) /\ Shape(d, call[d])
    BY <1>1, Unmoved DEF AheadFree, Shapes
  <2>2. call[d].todo \in Seq(Ids)
    BY Fields DEF Types
  <2>3. CASE call[d].todo = <<>>
    <3>1. call'[d].todo = <<>> /\ Len(<<>>) = 0
      BY <2>1, <2>3 DEF Alike
    <3> QED
      BY <3>1 DEF Ahead
  <2>4. CASE call[d].todo # <<>>
    <3>1. InProgress(d) /\ call[d].kind \in Finding /\ call'[d].pc = call[d].pc
      BY <2>1, <2>4 DEF Shape, InProgress, Alike
    <3>2. \A id \in Ids : modules'[id] \in {modules[id], NoObject}
      BY <1>1, <3>1 DEF Excluded
    <3>3. \A i \in 1..Len(call[d].todo) : call[d].todo[i] \in Ids
      BY <2>2, IdSeq
    <3> QED
      BY <2>1, <3>1, <3>2, <3>3 DEF Ahead, Alike
  <2> QED
    BY <2>3, <2>4
<1> QED
  BY <1>1 DEF AheadFree, Moved

LEMMA DebtsStep ==
  ASSUME Types, Debts, NEW c \in Callers, NEW q, Moved(c, q), Owes(owed'[c], q),
         \A d \in Callers : d # c => owed'[d] \subseteq owed[d],
         \A d \in Callers : \A id \in owed'[d] : modules'[id] = NoObject
  PROVE  Debts'
<1>1. ASSUME NEW d \in Callers, d # c PROVE Owes(owed'[d], call'[d])
  <2>1. Owes(owed[d], call[d]) /\ Alike(d) /\ owed'[d] \subseteq owed[d]
    BY <1>1, Unmoved DEF Debts
  <2> QED
    BY <2>1 DEF Owes, Alike
<1> QED
  BY <1>1 DEF Debts, Moved
----------------------------------------------------------------------------
(* The tables *)

LEMMA Loaders ==
  ASSUME Types, Shapes, Reserved
  PROVE  \A d \in Loading : /\ d \in Callers /\ Loads(d, call[d]) /\ Under(call[d]) \in Ids
                            /\ Under(call[d]) \in inFlight
                            /\ modules[Under(call[d])] = NoObject
<1> SUFFICES ASSUME NEW d \in Loading
             PROVE  /\ d \in Callers /\ Loads(d, call[d]) /\ Under(call[d]) \in Ids
                    /\ Under(call[d]) \in inFlight
                    /\ modules[Under(call[d])] = NoObject
  OBVIOUS
<1>1. d \in Callers /\ call[d] \in CallRecords /\ Shape(d, call[d])
  BY DEF Loading, Types, Shapes
<1>2. Loads(d, call[d])
  BY <1>1 DEF Loading, Shape, Loads
<1>3. Under(call[d]) \in Ids
  BY <1>1, <1>2, Doors DEF Shape
<1> QED
  BY <1>1, <1>2, <1>3 DEF Reserved, ReservedWhileLoading

\* Another call goes on loading what it loads.
LEMMA WhoLoads ==
  ASSUME NEW c \in Callers, NEW q, Moved(c, q)
  PROVE  /\ Loading \subseteq Callers /\ Loading' \subseteq Callers
         /\ c \in Loading' <=> q.pc \in {"loading", "pending"}
<1>1. \A d \in Callers : d \in Loading' <=> call'[d].pc \in {"loading", "pending"}
  BY DEF Loading
<1>2. Loading \subseteq Callers /\ Loading' \subseteq Callers
  BY DEF Loading
<1>3. call'[c] = q
  BY DEF Moved
<1> QED
  BY <1>1, <1>2, <1>3

LEMMA StillLoading ==
  ASSUME Types, NEW c \in Callers, NEW q, Moved(c, q), NEW d \in Callers, d # c
  PROVE  /\ d \in Loading' <=> d \in Loading
         /\ Under(call'[d]) = Under(call[d])
         /\ d \in Loading => Foretold(call'[d]) = Foretold(call[d])
<1>1. /\ d \in Loading' <=> d \in Loading
      /\ d \in Loading => call'[d].pc = call[d].pc
      /\ Door(call'[d]) = Door(call[d]) /\ Under(call'[d]) = Under(call[d])
      /\ call'[d].object = call[d].object
  BY Unmoved DEF Alike
<1> QED
  BY <1>1 DEF Foretold

\* c loads nothing and the tables stay.
LEMMA ReservedKept ==
  ASSUME Types, Shapes, Reserved, NEW c \in Callers, NEW q, Moved(c, q), UNCHANGED tables,
         c \notin Loading, q.pc \notin {"loading", "pending"}
  PROVE  Reserved'
<1>1. \A d \in Callers : d # c => /\ d \in Loading' <=> d \in Loading
                                  /\ Under(call'[d]) = Under(call[d])
                                  /\ d \in Loading => Foretold(call'[d]) = Foretold(call[d])
  BY StillLoading
<1>2. Loading' = Loading /\ c \notin Loading' /\ Loading \subseteq Callers
  BY <1>1, WhoLoads
<1>3. inFlight' = {Under(call'[d]) : d \in Loading'}
  BY <1>1, <1>2 DEF Reserved, ReservedWhileLoading, tables
<1>4. \A d, e \in Loading' : Under(call'[d]) = Under(call'[e]) => d = e
  BY <1>1, <1>2 DEF Reserved, ReservedWhileLoading
<1>5. \A d \in Loading' : /\ modules'[Under(call'[d])] = NoObject
                          /\ meta'[Under(call'[d])] = Foretold(call'[d])
  BY <1>1, <1>2 DEF Reserved, tables
<1> QED
  BY <1>3, <1>4, <1>5 DEF Reserved, ReservedWhileLoading

\* c's load waits for the promise of an onLoad: the reservation stays.
LEMMA ReservedWaits ==
  ASSUME Types, Shapes, Reserved, NEW c \in Callers, NEW q, Moved(c, q),
         c \in Loading, q.pc = "pending", Under(q) = Under(call[c]),
         UNCHANGED <<modules, inFlight>>,
         meta' = [meta EXCEPT ![Under(q)] = Foretold(q)]
  PROVE  Reserved'
<1>1. \A d \in Callers : d # c => /\ d \in Loading' <=> d \in Loading
                                  /\ Under(call'[d]) = Under(call[d])
                                  /\ d \in Loading => Foretold(call'[d]) = Foretold(call[d])
  BY StillLoading
<1>2. Loading' = Loading /\ c \in Loading' /\ Loading \subseteq Callers
  BY <1>1, WhoLoads
<1>3. \A d \in Loading : Under(call'[d]) = Under(call[d]) /\ Under(call[d]) \in Ids
  BY <1>1, <1>2, Loaders DEF Moved
<1>4. inFlight' = {Under(call'[d]) : d \in Loading'}
  BY <1>2, <1>3 DEF Reserved, ReservedWhileLoading
<1>5. \A d, e \in Loading' : Under(call'[d]) = Under(call'[e]) => d = e
  BY <1>2, <1>3 DEF Reserved, ReservedWhileLoading
<1>6. \A d \in Loading' : modules'[Under(call'[d])] = NoObject
  BY <1>2, <1>3 DEF Reserved
<1>7. ASSUME NEW d \in Loading' PROVE meta'[Under(call'[d])] = Foretold(call'[d])
  <2>1. CASE d = c
    BY <1>2, <1>3, <2>1 DEF Moved, Types
  <2>2. CASE d # c
    <3>1. Under(call[d]) # Under(call[c])
      BY <1>2, <2>2 DEF Reserved, ReservedWhileLoading
    <3> QED
      BY <1>1, <1>2, <1>3, <2>2, <3>1 DEF Reserved, Types
  <2> QED
    BY <2>1, <2>2
<1> QED
  BY <1>4, <1>5, <1>6, <1>7 DEF Reserved, ReservedWhileLoading

\* c reserves a free id.
LEMMA ReservedTaken ==
  ASSUME Types, Shapes, Reserved, IdsIndexed, NEW c \in Callers, NEW q, Moved(c, q),
         c \notin Loading, q.pc = "loading", Under(q) \in Ids,
         modules[Under(q)] = NoObject, Under(q) \notin inFlight,
         inFlight' = inFlight \cup {Under(q)}, modules' = modules,
         meta' = IF Door(q) \in {"custom", "internal"}
                 THEN [meta EXCEPT ![Under(q)] = q.object] ELSE meta
  PROVE  Reserved' /\ IdsIndexed'
<1> DEFINE u == Under(q)
<1>1. \A d \in Callers : d # c => /\ d \in Loading' <=> d \in Loading
                                  /\ Under(call'[d]) = Under(call[d])
                                  /\ d \in Loading => Foretold(call'[d]) = Foretold(call[d])
  BY StillLoading
<1>2. Loading' = Loading \cup {c} /\ Loading \subseteq Callers
  BY <1>1, WhoLoads
<1>3. \A d \in Loading : /\ Under(call'[d]) = Under(call[d]) /\ Under(call[d]) \in Ids
                         /\ Under(call[d]) # u /\ d # c
  BY <1>1, <1>2, Loaders
<1>4. Under(call'[c]) = u
  BY DEF Moved
<1>5. /\ u \in Ids /\ meta'[u] = Foretold(q)
      /\ \A id \in Ids : id # u => meta'[id] = meta[id]
  <2>1. meta[u] = NoObject
    BY DEF IdsIndexed
  <2> QED
    BY <2>1 DEF Foretold, Types
<1>6. inFlight' = {Under(call'[d]) : d \in Loading'}
  <2>1. {Under(call'[d]) : d \in Loading'} = {Under(call'[d]) : d \in Loading} \cup {u}
    BY <1>2, <1>4
  <2>2. {Under(call'[d]) : d \in Loading} = {Under(call[d]) : d \in Loading}
    BY <1>3
  <2> QED
    BY <2>1, <2>2 DEF Reserved, ReservedWhileLoading
<1>7. \A d, e \in Loading' : Under(call'[d]) = Under(call'[e]) => d = e
  BY <1>2, <1>3, <1>4 DEF Reserved, ReservedWhileLoading
<1>8. ASSUME NEW d \in Loading'
      PROVE  /\ modules'[Under(call'[d])] = NoObject
             /\ meta'[Under(call'[d])] = Foretold(call'[d])
  <2>1. CASE d = c
    BY <1>4, <1>5, <2>1 DEF Moved
  <2>2. CASE d # c
    BY <1>1, <1>2, <1>3, <1>5, <2>2 DEF Reserved
  <2> QED
    BY <2>1, <2>2
<1>9. IdsIndexed'
  BY <1>5 DEF IdsIndexed
<1> QED
  BY <1>6, <1>7, <1>8, <1>9 DEF Reserved, ReservedWhileLoading

\* What is registered under u, with its metadata, becomes x, and u is reserved no
\* more: what c loaded is published or given up, or what was there is taken out.
LEMMA ReservedLeft ==
  ASSUME Types, Shapes, Reserved, IdsIndexed, NEW c \in Callers, NEW q, Moved(c, q),
         q.pc \notin {"loading", "pending"}, NEW u \in Ids, NEW x \in Holdings,
         IF c \in Loading THEN Under(call[c]) = u ELSE u \notin inFlight,
         inFlight' = inFlight \ {u},
         modules' = [modules EXCEPT ![u] = x], meta' = [meta EXCEPT ![u] = x]
  PROVE  Reserved' /\ IdsIndexed'
<1>1. \A d \in Callers : d # c => /\ d \in Loading' <=> d \in Loading
                                  /\ Under(call'[d]) = Under(call[d])
                                  /\ d \in Loading => Foretold(call'[d]) = Foretold(call[d])
  BY StillLoading
<1>2. Loading' = Loading \ {c} /\ Loading \subseteq Callers
  BY <1>1, WhoLoads
<1>3. \A d \in Loading' : /\ d \in Loading /\ Under(call'[d]) = Under(call[d])
                          /\ Under(call[d]) \in Ids /\ Under(call[d]) # u
  <2> TAKE d \in Loading'
  <2>1. d \in Loading /\ d # c
    BY <1>2
  <2>2. Under(call'[d]) = Under(call[d]) /\ Under(call[d]) \in Ids /\ Under(call[d]) \in inFlight
    BY <1>1, <1>2, <2>1, Loaders
  <2>3. Under(call[d]) # u
    BY <2>1, <2>2 DEF Reserved, ReservedWhileLoading
  <2> QED
    BY <2>1, <2>2, <2>3
<1>4. /\ modules'[u] = x /\ meta'[u] = x
      /\ \A id \in Ids : id # u => modules'[id] = modules[id] /\ meta'[id] = meta[id]
  BY DEF Types
<1>5. inFlight' = {Under(call'[d]) : d \in Loading'}
  <2>1. {Under(call'[d]) : d \in Loading'} = {Under(call[d]) : d \in Loading'}
    BY <1>3
  <2>2. {Under(call[d]) : d \in Loading} \ {u} = {Under(call[d]) : d \in Loading'}
    BY <1>2, <1>3 DEF Reserved, ReservedWhileLoading
  <2> QED
    BY <2>1, <2>2 DEF Reserved, ReservedWhileLoading
<1>6. \A d, e \in Loading' : Under(call'[d]) = Under(call'[e]) => d = e
  BY <1>3 DEF Reserved, ReservedWhileLoading
<1>7. \A d \in Loading' : /\ modules'[Under(call'[d])] = NoObject
                          /\ meta'[Under(call'[d])] = Foretold(call'[d])
  <2> TAKE d \in Loading'
  <2>1. d \in Callers /\ d # c
    BY <1>2
  <2> QED
    BY <1>1, <1>3, <1>4, <2>1 DEF Reserved
<1>8. IdsIndexed'
  BY <1>4 DEF IdsIndexed
<1> QED
  BY <1>5, <1>6, <1>7, <1>8 DEF Reserved, ReservedWhileLoading
----------------------------------------------------------------------------
(* Lives and counts *)

LEMMA LivePublished ==
  ASSUME Types, LiveIffThere, NEW u \in Ids, NEW x \in ModuleObjects,
         modules[u] = NoObject, \A id \in Ids : modules[id] # x,
         modules' = [modules EXCEPT ![u] = x], live' = [live EXCEPT ![x] = @ + 1]
  PROVE  LiveIffThere' /\ live' \in [ModuleObjects -> 0..1]
<1>1. \A o \in ModuleObjects : (\E id \in Ids : modules'[id] = o) <=> o = x \/ \E id \in Ids : modules[id] = o
  BY Objects DEF Types
<1>2. \A o \in ModuleObjects : live'[o] = IF o = x THEN 1 ELSE live[o]
  BY DEF LiveIffThere, Types
<1>3. LiveIffThere'
  BY <1>1, <1>2 DEF LiveIffThere
<1> QED
  BY <1>2, <1>3 DEF Types

LEMMA LiveWithdrawn ==
  ASSUME Types, LiveIffThere, NEW u \in Ids, modules[u] # NoObject,
         \A id \in Ids : modules[id] = modules[u] => id = u,
         modules' = [modules EXCEPT ![u] = NoObject],
         live' = [live EXCEPT ![modules[u]] = @ - 1]
  PROVE  LiveIffThere' /\ live' \in [ModuleObjects -> 0..1]
<1>1. PICK x \in ModuleObjects : x = modules[u]
  BY Objects DEF Types
<1>2. \A o \in ModuleObjects : (\E id \in Ids : modules'[id] = o) <=> o # x /\ \E id \in Ids : modules[id] = o
  BY <1>1, Objects DEF Types
<1>3. \A o \in ModuleObjects : live'[o] = IF o = x THEN 0 ELSE live[o]
  BY <1>1 DEF LiveIffThere, Types
<1>4. LiveIffThere'
  BY <1>2, <1>3 DEF LiveIffThere
<1>5. live' = [o \in ModuleObjects |-> live'[o]]
  BY DEF Types
<1>6. \A o \in ModuleObjects : live'[o] \in 0..1
  BY <1>3 DEF Types
<1> QED
  BY <1>4, <1>5, <1>6

LEMMA UsersFinite ==
  \A id \in Ids : /\ IsFiniteSet(Users(id)) /\ Cardinality(Users(id)) \in Nat
                  /\ Cardinality(Users(id)) <= Cardinality(Callers)
<1> TAKE id \in Ids
<1>1. Users(id) \subseteq Callers
  BY DEF Users
<1> QED
  BY <1>1, RegistryAssumption, FS_Subset, FS_CardinalityType

\* c holds no module before or after.
LEMMA UsersKept ==
  ASSUME Types, NEW c \in Callers, NEW q, Moved(c, q), call[c].pc # "using", q.pc # "using"
  PROVE  \A id \in Ids : Users(id)' = Users(id)
<1> TAKE id \in Ids
<1>1. ASSUME NEW d \in Callers PROVE d \in Users(id)' <=> d \in Users(id)
  <2>1. CASE d = c
    BY <2>1 DEF Users, Moved
  <2>2. CASE d # c
    <3>1. /\ call'[d].pc = "using" <=> call[d].pc = "using"
          /\ call'[d].id = call[d].id
      BY <2>2, Unmoved DEF Alike
    <3> QED
      BY <3>1 DEF Users
  <2> QED
    BY <2>1, <2>2
<1>2. Users(id) \subseteq Callers /\ Users(id)' \subseteq Callers
  BY DEF Users
<1> QED
  BY <1>1, <1>2

LEMMA CountedKept ==
  ASSUME Types, Counted, NEW c \in Callers, NEW q, Moved(c, q),
         call[c].pc # "using", q.pc # "using", UNCHANGED drains
  PROVE  Counted'
<1>1. \A id \in Ids : Users(id)' = Users(id)
  BY UsersKept
<1> QED
  BY <1>1 DEF Counted, drains

\* The count, the drain and the resolvers of u are forgotten.
LEMMA CountedForgotten ==
  ASSUME Types, Counted, NEW c \in Callers, NEW q, Moved(c, q),
         call[c].pc # "using", q.pc # "using", NEW u \in Ids,
         draining' = draining \ {u}, refs' = [refs EXCEPT ![u] = 0],
         waiters' = [waiters EXCEPT ![u] = {}]
  PROVE  Counted' /\ draining' \subseteq Ids /\ refs' \in [Ids -> Nat] /\ waiters' \in [Ids -> SUBSET Callers]
<1>1. \A id \in Ids : Users(id)' = Users(id)
  BY UsersKept
<1>2. ASSUME NEW id \in Ids
      PROVE  /\ refs'[id] <= Cardinality(Users(id)')
             /\ waiters'[id] # {} => id \in draining' /\ refs'[id] >= 1
  <2>1. Cardinality(Users(id)) \in Nat
    BY UsersFinite
  <2>2. CASE id = u
    BY <1>1, <2>1, <2>2 DEF Types
  <2>3. CASE id # u
    BY <1>1, <2>3 DEF Types, Counted
  <2> QED
    BY <2>2, <2>3
<1> QED
  BY <1>2 DEF Counted, Types

\* What c's turn does to the stack.
StackStep(c, q) ==
  \/ stack' = stack /\ (Running(q) <=> Running(call[c]))
  \/ stack' = <<c>> \o stack /\ ~Running(call[c]) /\ Running(q)
  \/ OnTop(c) /\ stack' = Tail(stack) /\ ~Running(q)

LEMMA StackedStep ==
  ASSUME Types, Stacked, NEW c \in Callers, NEW q, Moved(c, q), StackStep(c, q)
  PROVE  Stacked'
<1>1. CASE stack' = stack /\ (Running(q) <=> Running(call[c]))
  BY <1>1, StackKept
<1>2. CASE stack' = <<c>> \o stack /\ ~Running(call[c]) /\ Running(q)
  BY <1>2, StackPushed
<1>3. CASE OnTop(c) /\ stack' = Tail(stack) /\ ~Running(q)
  BY <1>3, StackPopped
<1> QED
  BY <1>1, <1>2, <1>3 DEF StackStep
----------------------------------------------------------------------------
(* The kinds of step *)

\* Nothing is registered, taken out or reserved.
LEMMA QuietStep ==
  ASSUME TableInv, NEW c \in Callers, NEW q, Moved(c, q), Fits(c, q), StackStep(c, q),
         c \notin Loading, q.pc \notin {"loading", "pending"}, Ahead(modules, q),
         UNCHANGED <<tables, hooked, live, owed>>, Owes(owed[c], q),
         draining' \subseteq Ids, refs' \in [Ids -> Nat], waiters' \in [Ids -> SUBSET Callers],
         Counted'
  PROVE  TableInv'
<1>1. UNCHANGED <<modules, meta, inFlight>>
  BY DEF tables
<1>2. Types'
  BY <1>1 DEF TableInv, Types, Moved
<1>3. Shapes'
  BY ShapesStep DEF TableInv, Fits
<1>4. Excluded'
  BY ExcludedStep DEF TableInv, Fits
<1>5. Stacked'
  BY StackedStep DEF TableInv
<1>6. Homes'
  <2>1. \A id \in Ids : modules'[id] = NoObject \/ Known(modules'[id], id) \/ modules'[id] = id
    BY <1>1 DEF Known
  <2> QED
    BY <2>1, HomesStep DEF TableInv
<1>7. AheadFree'
  BY <1>1, AheadStep DEF TableInv
<1>8. Reserved'
  BY ReservedKept DEF TableInv
<1>9. IdsIndexed' /\ LiveIffThere'
  BY <1>1 DEF TableInv, IdsIndexed, LiveIffThere
<1>10. Debts'
  BY <1>1, DebtsStep DEF TableInv, Debts
<1> QED
  BY <1>2, <1>3, <1>4, <1>5, <1>6, <1>7, <1>8, <1>9, <1>10 DEF TableInv

\* The module that is registered under u is taken out.
LEMMA WithdrawStep ==
  ASSUME TableInv, NEW c \in Callers, NEW q, Moved(c, q), Fits(c, q),
         ~Running(call[c]), ~Running(q), stack' = stack,
         c \notin Loading, q.pc # "pending", call[c].pc # "using", q.pc # "using",
         q.todo = <<>>, NEW u \in Ids, modules[u] # NoObject, Withdraw(u),
         UNCHANGED <<inFlight, hooked>>,
         owed' \in [Callers -> SUBSET Ids], Owes(owed'[c], q),
         \A d \in Callers : d # c => owed'[d] = owed[d], owed'[c] \subseteq owed[c] \cup {u}
  PROVE  TableInv'
<1>1. /\ modules' = [modules EXCEPT ![u] = NoObject] /\ meta' = [meta EXCEPT ![u] = NoObject]
      /\ draining' = draining \ {u} /\ refs' = [refs EXCEPT ![u] = 0]
      /\ waiters' = [waiters EXCEPT ![u] = {}]
      /\ live' = [live EXCEPT ![modules[u]] = @ - 1]
  BY DEF Withdraw, ResolversDropped
<1>2. LiveIffThere' /\ live' \in [ModuleObjects -> 0..1]
  <2>1. modules[u] \in ModuleObjects
    BY Objects DEF TableInv, Types
  <2>2. \A id \in Ids : modules[id] = modules[u] => id = u
    BY <2>1 DEF TableInv, Homes, Known
  <2> QED
    BY <1>1, <2>2, LiveWithdrawn DEF TableInv
<1>3. Counted' /\ draining' \subseteq Ids /\ refs' \in [Ids -> Nat] /\ waiters' \in [Ids -> SUBSET Callers]
  BY <1>1, CountedForgotten DEF TableInv
<1>4. Types'
  BY <1>1, <1>2, <1>3, Objects DEF TableInv, Types, Moved
<1>5. Shapes'
  BY ShapesStep DEF TableInv, Fits
<1>6. Excluded'
  BY ExcludedStep DEF TableInv, Fits
<1>7. Stacked'
  BY StackKept DEF TableInv
<1>8. \A id \in Ids : modules'[id] \in {modules[id], NoObject}
  BY <1>1 DEF TableInv, Types
<1>9. Homes'
  <2>1. \A id \in Ids : modules'[id] = NoObject \/ Known(modules'[id], id) \/ modules'[id] = id
    BY <1>8 DEF Known
  <2> QED
    BY <2>1, HomesStep DEF TableInv
<1>10. AheadFree'
  <2>1. Ahead(modules', q)
    BY EmptySeq DEF Ahead
  <2> QED
    BY <1>8, <2>1, AheadStep DEF TableInv
<1>11. Reserved' /\ IdsIndexed'
  <2>1. u \notin inFlight
    BY Loaders DEF TableInv, Reserved, ReservedWhileLoading
  <2>2. inFlight' = inFlight \ {u}
    BY <2>1
  <2>3. q.pc \notin {"loading", "pending"}
    BY DEF Running
  <2>4. Types /\ Shapes /\ Reserved /\ IdsIndexed /\ NoObject \in Holdings
    BY Objects DEF TableInv
  <2> QED
    BY <1>1, <2>1, <2>2, <2>3, <2>4, ReservedLeft
<1>12. Debts'
  <2>1. \A d \in Callers : \A id \in owed'[d] : modules'[id] = NoObject
    <3> SUFFICES ASSUME NEW d \in Callers, NEW id \in owed'[d] PROVE modules'[id] = NoObject
      OBVIOUS
    <3>1. id \in Ids
      OBVIOUS
    <3>2. id = u \/ modules[id] = NoObject
      BY DEF TableInv, Debts
    <3> QED
      BY <1>1, <3>1, <3>2 DEF TableInv, Types
  <2> QED
    BY <2>1, DebtsStep DEF TableInv
<1> QED
  BY <1>2, <1>3, <1>4, <1>5, <1>6, <1>7, <1>9, <1>10, <1>11, <1>12 DEF TableInv

\* c publishes x under u.
LEMMA PublishStep ==
  ASSUME TableInv, NEW c \in Callers, NEW q, Moved(c, q), Fits(c, q), StackStep(c, q),
         InProgress(c), call[c].kind \in Entering \cup Finding, call[c].pc # "using",
         q.pc \notin {"loading", "pending", "using"},
         NEW u \in Ids, NEW x \in ModuleObjects, modules[u] = NoObject, Known(x, u) \/ x = u,
         IF c \in Loading THEN Under(call[c]) = u ELSE u \notin inFlight,
         inFlight' = inFlight \ {u}, modules' = [modules EXCEPT ![u] = x],
         meta' = [meta EXCEPT ![u] = x], live' = [live EXCEPT ![x] = @ + 1],
         owed' = [d \in Callers |-> owed[d] \ {u}],
         UNCHANGED <<drains, hooked>>, Ahead(modules', q), Owes(owed'[c], q)
  PROVE  TableInv'
<1>1. LiveIffThere' /\ live' \in [ModuleObjects -> 0..1]
  <2>1. \A id \in Ids : modules[id] # x
    BY Objects DEF TableInv, Homes, Known
  <2> QED
    BY <2>1, LivePublished DEF TableInv
<1>2. Counted'
  BY CountedKept DEF TableInv
<1>3. \A id \in Ids : modules'[id] = IF id = u THEN x ELSE modules[id]
  BY DEF TableInv, Types
<1>4. x \in Holdings
  BY DEF Holdings
<1>5. Types'
  BY <1>1, <1>4 DEF TableInv, Types, Moved, drains
<1>6. Shapes'
  BY ShapesStep DEF TableInv, Fits
<1>7. Excluded'
  BY ExcludedStep DEF TableInv, Fits
<1>8. Stacked'
  BY StackedStep DEF TableInv
<1>9. Homes'
  <2>1. \A id \in Ids : modules'[id] = NoObject \/ Known(modules'[id], id) \/ modules'[id] = id
    BY <1>3 DEF Known
  <2> QED
    BY <2>1, HomesStep DEF TableInv
<1>10. AheadFree'
  BY AheadStep DEF TableInv
<1>11. Reserved' /\ IdsIndexed'
  BY <1>4, ReservedLeft DEF TableInv
<1>12. Debts'
  <2>1. \A d \in Callers : owed'[d] \subseteq owed[d]
    OBVIOUS
  <2>2. \A d \in Callers : \A id \in owed'[d] : modules'[id] = NoObject
    <3> SUFFICES ASSUME NEW d \in Callers, NEW id \in owed'[d] PROVE modules'[id] = NoObject
      OBVIOUS
    <3>1. id \in owed[d] /\ id # u /\ id \in Ids
      BY DEF TableInv, Types
    <3> QED
      BY <1>3, <3>1 DEF TableInv, Debts
  <2> QED
    BY <2>1, <2>2, DebtsStep DEF TableInv
<1> QED
  BY <1>1, <1>2, <1>5, <1>6, <1>7, <1>8, <1>9, <1>10, <1>11, <1>12 DEF TableInv

\* c gives up what it was loading under u.
LEMMA AbandonStep ==
  ASSUME TableInv, NEW c \in Callers, NEW q, Moved(c, q), Fits(c, q), StackStep(c, q),
         c \in Loading, q.pc \notin {"loading", "pending", "using"},
         NEW u \in Ids, Under(call[c]) = u, modules' = modules,
         inFlight' = inFlight \ {u}, meta' = [meta EXCEPT ![u] = NoObject], live' = live,
         owed' = [d \in Callers |-> owed[d] \ {u}],
         UNCHANGED <<drains, hooked>>, Ahead(modules, q), Owes(owed'[c], q)
  PROVE  TableInv'
<1>1. modules' = [modules EXCEPT ![u] = NoObject] /\ modules[u] = NoObject
  BY DEF TableInv, Types, Reserved
<1>2. call[c].pc # "using"
  BY DEF Loading
<1>3. Counted'
  BY <1>2, CountedKept DEF TableInv
<1>4. Types'
  BY Objects DEF TableInv, Types, Moved, drains
<1>5. Shapes'
  BY ShapesStep DEF TableInv, Fits
<1>6. Excluded'
  BY ExcludedStep DEF TableInv, Fits
<1>7. Stacked'
  BY StackedStep DEF TableInv
<1>8. Homes'
  <2>1. \A id \in Ids : modules'[id] = NoObject \/ Known(modules'[id], id) \/ modules'[id] = id
    BY DEF Known
  <2> QED
    BY <2>1, HomesStep DEF TableInv
<1>9. AheadFree'
  BY AheadStep DEF TableInv
<1>10. Reserved' /\ IdsIndexed'
  <2>1. Types /\ Shapes /\ Reserved /\ IdsIndexed /\ NoObject \in Holdings
    BY Objects DEF TableInv
  <2>2. q.pc \notin {"loading", "pending"}
    OBVIOUS
  <2> QED
    BY <1>1, <2>1, <2>2, ReservedLeft
<1>11. Debts'
  <2>1. \A d \in Callers : owed'[d] \subseteq owed[d]
    OBVIOUS
  <2> QED
    BY <2>1, DebtsStep DEF TableInv, Debts
<1>12. LiveIffThere'
  BY DEF TableInv, LiveIffThere
<1> QED
  BY <1>3, <1>4, <1>5, <1>6, <1>7, <1>8, <1>9, <1>10, <1>11, <1>12 DEF TableInv
\* c reserves the id of what it loads, and its onLoad runs.
LEMMA TakeStep ==
  ASSUME TableInv, NEW c \in Callers, NEW q, Moved(c, q), Fits(c, q), StackStep(c, q),
         c \notin Loading, call[c].pc # "using", q.pc = "loading", Under(q) \in Ids,
         modules[Under(q)] = NoObject, Under(q) \notin inFlight,
         inFlight' = inFlight \cup {Under(q)}, modules' = modules,
         meta' = IF Door(q) \in {"custom", "internal"}
                 THEN [meta EXCEPT ![Under(q)] = q.object] ELSE meta,
         UNCHANGED <<drains, hooked, live, owed>>, Ahead(modules, q), Owes(owed[c], q)
  PROVE  TableInv'
<1>1. Counted'
  BY CountedKept DEF TableInv
<1>2. meta' \in [Ids -> Holdings]
  <2>1. q.object \in Holdings
    BY Fields DEF Moved
  <2> QED
    BY <2>1 DEF TableInv, Types
<1>3. Types'
  BY <1>2 DEF TableInv, Types, Moved, drains
<1>4. Shapes'
  BY ShapesStep DEF TableInv, Fits
<1>5. Excluded'
  BY ExcludedStep DEF TableInv, Fits
<1>6. Stacked'
  BY StackedStep DEF TableInv
<1>7. Homes'
  <2>1. \A id \in Ids : modules'[id] = NoObject \/ Known(modules'[id], id) \/ modules'[id] = id
    BY DEF Known
  <2> QED
    BY <2>1, HomesStep DEF TableInv
<1>8. AheadFree'
  BY AheadStep DEF TableInv
<1>9. Reserved' /\ IdsIndexed'
  BY ReservedTaken DEF TableInv
<1>10. Debts'
  BY DebtsStep DEF TableInv, Debts
<1>11. LiveIffThere'
  BY DEF TableInv, LiveIffThere
<1> QED
  BY <1>1, <1>3, <1>4, <1>5, <1>6, <1>7, <1>8, <1>9, <1>10, <1>11 DEF TableInv

\* The onLoad of what c loads has returned a promise.
LEMMA WaitStep ==
  ASSUME TableInv, NEW c \in Callers, NEW q, Moved(c, q), Fits(c, q), StackStep(c, q),
         c \in Loading, q.pc = "pending", Under(q) = Under(call[c]),
         UNCHANGED <<modules, inFlight, drains, hooked, live, owed>>,
         meta' = [meta EXCEPT ![Under(q)] = Foretold(q)],
         Ahead(modules, q), Owes(owed[c], q)
  PROVE  TableInv'
<1>1. call[c].pc # "using"
  BY DEF Loading
<1>2. Counted'
  BY <1>1, CountedKept DEF TableInv
<1>3. Foretold(q) \in Holdings
  BY Fields, Objects DEF Moved, Foretold
<1>4. Types'
  BY <1>3 DEF TableInv, Types, Moved, drains
<1>5. Shapes'
  BY ShapesStep DEF TableInv, Fits
<1>6. Excluded'
  BY ExcludedStep DEF TableInv, Fits
<1>7. Stacked'
  BY StackedStep DEF TableInv
<1>8. Homes'
  <2>1. \A id \in Ids : modules'[id] = NoObject \/ Known(modules'[id], id) \/ modules'[id] = id
    BY DEF Known
  <2> QED
    BY <2>1, HomesStep DEF TableInv
<1>9. AheadFree'
  BY AheadStep DEF TableInv
<1>10. Reserved'
  BY ReservedWaits DEF TableInv
<1>11. IdsIndexed'
  <2>1. Under(q) \in inFlight /\ modules[Under(q)] = NoObject
    BY Loaders DEF TableInv
  <2> QED
    BY <2>1 DEF TableInv, IdsIndexed, Types
<1>12. Debts'
  BY DebtsStep DEF TableInv, Debts
<1>13. LiveIffThere'
  BY DEF TableInv, LiveIffThere
<1> QED
  BY <1>2, <1>4, <1>5, <1>6, <1>7, <1>8, <1>9, <1>10, <1>11, <1>12, <1>13 DEF TableInv

----------------------------------------------------------------------------
(* The next record of a call *)

LEMMA MovedTo ==
  ASSUME Types, NEW c \in Callers, NEW q \in CallRecords, call' = [call EXCEPT ![c] = q]
  PROVE  Moved(c, q)
  BY DEF Types, Moved, Alike

LEMMA NoCallIsOne ==
  /\ NoCall \in CallRecords /\ NoModules \in [Ids -> Holdings]
  /\ NoCall.pc = "idle" /\ NoCall.todo = <<>> /\ NoCall.targets = <<>> /\ NoCall.old = NoModules
  /\ \A id \in Ids : NoModules[id] = NoObject
<1>1. NoModules \in [Ids -> Holdings] /\ \A id \in Ids : NoModules[id] = NoObject
  BY Objects DEF NoModules
<1>2. <<>> \in Seq(Ids)
  BY EmptySeq
<1>3. NoObject \in AnyKind /\ "idle" \in CallStages /\ NoObject \in Holdings
  BY Stages, Objects DEF CallStages
<1> QED
  BY <1>1, <1>2, <1>3 DEF NoCall, CallRecords

\* Another stage of the same call.
LEMMA StageOf ==
  ASSUME NEW r \in CallRecords, NEW p \in CallStages
  PROVE  LET q == [r EXCEPT !.pc = p]
         IN  /\ q \in CallRecords /\ q.pc = p
             /\ q.kind = r.kind /\ q.id = r.id /\ q.object = r.object /\ q.todo = r.todo
             /\ q.targets = r.targets /\ q.at = r.at /\ q.old = r.old /\ q.clean = r.clean
             /\ Door(q) = Door(r) /\ Under(q) = Under(r)
<1> DEFINE q == [r EXCEPT !.pc = p]
<1>1. /\ q \in CallRecords /\ q.pc = p
      /\ q.kind = r.kind /\ q.id = r.id /\ q.object = r.object /\ q.todo = r.todo
      /\ q.targets = r.targets /\ q.at = r.at /\ q.old = r.old /\ q.clean = r.clean
  BY DEF CallRecords
<1> HIDE DEF q
<1>2. Door(q) = Door(r) /\ Under(q) = Under(r)
  BY <1>1, SameLoad
<1> QED
  BY <1>1, <1>2 DEF q

\* A call that has ended.
LEMMA Ended ==
  ASSUME Types, NEW c \in Callers, NEW q,
         \E k \in AnyKind : q = [NoCall EXCEPT !.kind = k, !.pc = "done"]
  PROVE  /\ q \in CallRecords /\ q.pc = "done" /\ q.todo = <<>> /\ Fits(c, q) /\ ~Running(q)
         /\ \A table : Ahead(table, q)
<1>1. PICK k \in AnyKind : q = [NoCall EXCEPT !.kind = k, !.pc = "done"]
  OBVIOUS
<1>2. /\ q \in CallRecords /\ q.kind = k /\ q.pc = "done" /\ q.todo = <<>> /\ q.old = NoModules
  BY <1>1, NoCallIsOne DEF CallRecords, CallStages
<1> HIDE <1>1
<1>3. Fits(c, q)
  BY <1>2, NoCallIsOne DEF Fits, Shape, GoesOn
<1>4. \A table : Ahead(table, q)
  BY <1>2, EmptySeq DEF Ahead
<1> QED
  BY <1>2, <1>3, <1>4 DEF Running

LEMMA OverEnds ==
  ASSUME Types, NEW c \in Callers
  PROVE  /\ Over(c) \in CallRecords /\ Over(c).pc = "done" /\ Over(c).todo = <<>>
         /\ Over(c).kind = call[c].kind /\ Fits(c, Over(c)) /\ ~Running(Over(c))
         /\ \A table : Ahead(table, Over(c))
<1>1. call[c].kind \in AnyKind
  BY Fields DEF Types
<1>2. \E k \in AnyKind : Over(c) = [NoCall EXCEPT !.kind = k, !.pc = "done"]
  BY <1>1 DEF Over
<1>3. Over(c).kind = call[c].kind
  BY NoCallIsOne DEF Over, CallRecords
<1> QED
  BY <1>2, <1>3, Ended
----------------------------------------------------------------------------
(* Entering *)

\* After the head of the list is registered the rest is still ahead.
LEMMA AheadTold ==
  ASSUME Types, NEW s \in CallRecords, s.pc # "told", Ahead(modules, s),
         NEW q \in CallRecords, q.pc = "told", q.todo = s.todo,
         NEW u \in Ids, s.todo # <<>> => u = Head(s.todo), NEW x \in Holdings
  PROVE  Ahead([modules EXCEPT ![u] = x], q) /\ Ahead(modules, q)
<1>1. /\ Len(s.todo) \in Nat /\ \A i \in 1..Len(s.todo) : s.todo[i] \in Ids
      /\ s.todo # <<>> => Head(s.todo) = s.todo[1] /\ Len(s.todo) > 0
      /\ s.todo # <<>> <=> Len(s.todo) > 0
  BY Fields, IdSeq
<1>2. \A i \in 1..Len(s.todo) : i = 1 \/ s.todo[i] # u
  BY <1>1 DEF Ahead
<1>3. \A i \in 1..Len(s.todo) : modules[s.todo[i]] = NoObject
  BY DEF Ahead
<1>4. \A i, j \in 1..Len(s.todo) : s.todo[i] = s.todo[j] => i = j
  BY DEF Ahead
<1>5. \A id \in Ids : id # u => [modules EXCEPT ![u] = x][id] = modules[id]
  BY DEF Types
<1> QED
  BY <1>1, <1>2, <1>3, <1>4, <1>5 DEF Ahead

\* Once u is back, a reload that loaded it owes it no more.
LEMMA OwesTold ==
  ASSUME NEW c \in Callers, NEW s \in CallRecords, s.pc \in {"loading", "pending"}, Loads(c, s),
         s.todo # <<>> => s.kind \in Finding, NEW debt, Owes(debt, s),
         NEW q \in CallRecords, q.pc = "told", q.kind = s.kind, q.todo = s.todo,
         q.targets = s.targets, q.old = s.old
  PROVE  Owes(debt \ {Under(s)}, q)
<1>1. CASE s.kind = "reload"
  <2>1. debt \subseteq {s.targets[1]} /\ Len(s.targets) = 1
    BY <1>1 DEF Owes
  <2>2. ASSUME s.todo = <<>> PROVE debt \ {Under(s)} = {}
    <3>1. PutsBack(s)
      BY <1>1, <2>2 DEF Loads, EntersBy, Finds, Entering
    <3>2. Under(s) = s.targets[1]
      BY <2>1, <3>1, Doors DEF PutsBack
    <3> QED
      BY <2>1, <3>2
  <2> QED
    BY <2>1, <2>2 DEF Owes
<1>2. CASE s.kind # "reload"
  BY <1>2 DEF Owes
<1> QED
  BY <1>1, <1>2

LEMMA OwesOver ==
  ASSUME NEW c \in Callers, NEW s \in CallRecords, s.pc \in {"loading", "pending"},
         EntersBy(c, s) \/ PutsBack(s),
         s.todo # <<>> => s.kind \in Finding, NEW debt, Owes(debt, s),
         NEW q \in CallRecords, q.pc = "done", q.kind = s.kind
  PROVE  Owes(debt \ {Under(s)}, q)
<1>1. CASE s.kind = "reload"
  <2>1. debt \subseteq {s.targets[1]} /\ Len(s.targets) = 1
    BY <1>1 DEF Owes
  <2>2. PutsBack(s)
    BY <1>1 DEF EntersBy, Entering
  <2>3. Under(s) = s.targets[1]
    BY <2>1, <2>2, Doors DEF PutsBack
  <2> QED
    BY <2>1, <2>3 DEF Owes
<1>2. CASE s.kind # "reload"
  BY <1>2 DEF Owes
<1> QED
  BY <1>1, <1>2

\* c may load r.
Ready(c, r) ==
  /\ r \in CallRecords /\ Loads(c, r) /\ (r.todo # <<>> => r.kind \in Finding)
  /\ GoesOn(c, r) /\ r.pc # "done"
  /\ r.kind \in Finding => InProgress(c) /\ call[c].kind = r.kind
  /\ r.old = call[c].old \/ (r.old = NoModules /\ EntersBy(c, r))
  /\ Ahead(modules, [r EXCEPT !.pc = "loading"])
  /\ Owes(owed[c], [r EXCEPT !.pc = "loading"])
  /\ c \notin Loading /\ call[c].pc # "using"
  /\ OnTop(c) \/ ~Running(call[c])

LEMMA TopRuns ==
  ASSUME Stacked, NEW c \in Callers, OnTop(c)
  PROVE  Running(call[c])
<1>1. Len(stack) > 0 /\ Len(stack) \in Nat /\ stack[1] = c
  BY StackSeq DEF OnTop
<1> QED
  BY <1>1 DEF Stacked, OnStack

\* What is loaded next, or restored, is known to c's call already.
LEMMA LoadKnown ==
  ASSUME Types, NEW c \in Callers, NEW r \in CallRecords, r.todo # <<>> => r.kind \in Finding,
         Finds(r) \/ (PutsBack(r) /\ r.old = call[c].old)
  PROVE  Known(r.object, Under(r)) \/ r.object = Under(r)
<1>1. CASE Finds(r)
  BY <1>1, Doors DEF Finds
<1>2. CASE PutsBack(r) /\ r.old = call[c].old
  BY <1>2, Doors DEF PutsBack, Known
<1> QED
  BY <1>1, <1>2

LEMMA EnterStep ==
  ASSUME TableInv, NEW c \in Callers, NEW r, Ready(c, r),
         modules[Under(r)] = NoObject, Under(r) \notin inFlight,
         Enter(c, r), UNCHANGED <<drains, hooked>>
  PROVE  TableInv'
<1>1. r \in CallRecords /\ Under(r) \in Ids /\ r.object \in ModuleObjects
  BY Doors DEF Ready
<1>2. /\ OnTop(c) => Running(call[c])
      /\ ~OnTop(c) => ~Running(call[c])
  BY TopRuns DEF Ready, TableInv
<1>3. "loading" \in CallStages /\ "told" \in CallStages
  BY DEF CallStages
<1>4. \A id \in Ids : \/ r.old[id] = NoObject \/ r.old[id] = call[c].old[id]
                      \/ r.old[id] = modules[id]
  BY NoCallIsOne DEF Ready
<1> DEFINE s == [r EXCEPT !.pc = "loading"]
<1>5. /\ s \in CallRecords /\ s.pc = "loading"
      /\ s.kind = r.kind /\ s.id = r.id /\ s.object = r.object /\ s.todo = r.todo
      /\ s.targets = r.targets /\ s.at = r.at /\ s.old = r.old
      /\ Door(s) = Door(r) /\ Under(s) = Under(r)
  BY <1>1, <1>3, StageOf
<1>6. Ahead(modules, s) /\ Owes(owed[c], s)
  BY DEF Ready
<1>7. CASE r.object \in hooked \cup Callers
  <2>1. /\ inFlight' = inFlight \cup {Under(r)}
        /\ meta' = IF Door(r) \in {"custom", "internal"}
                   THEN [meta EXCEPT ![Under(r)] = r.object] ELSE meta
        /\ call' = [call EXCEPT ![c] = s]
        /\ stack' = IF OnTop(c) THEN stack ELSE <<c>> \o stack
        /\ modules' = modules
        /\ UNCHANGED <<live, owed>>
    BY <1>7 DEF Enter, Deferred
  <2> HIDE DEF s
  <2>2. Moved(c, s)
    BY <1>5, <2>1, MovedTo DEF TableInv
  <2>3. Loads(c, s) /\ GoesOn(c, s)
    BY <1>5 DEF Ready, Loads, EntersBy, Finds, PutsBack, GoesOn
  <2>4. Fits(c, s)
    BY <1>4, <1>5, <2>3 DEF Fits, Shape, Ready
  <2>5. StackStep(c, s)
    BY <1>2, <1>5, <2>1 DEF StackStep, Running
  <2>6. c \notin Loading /\ call[c].pc # "using"
    BY DEF Ready
  <2>7. meta' = IF Door(s) \in {"custom", "internal"}
                THEN [meta EXCEPT ![Under(s)] = s.object] ELSE meta
    BY <1>5, <2>1
  <2>8. Under(s) \in Ids /\ modules[Under(s)] = NoObject /\ Under(s) \notin inFlight
        /\ inFlight' = inFlight \cup {Under(s)}
    BY <1>1, <1>5, <2>1
  <2> QED
    BY <1>5, <1>6, <2>1, <2>2, <2>4, <2>5, <2>6, <2>7, <2>8, TakeStep
<1>8. CASE r.object \notin hooked \cup Callers
  <2> HIDE DEF s
  <2>1. Publish(r) /\ Handled(c, r) /\ inFlight' = inFlight
    BY <1>8 DEF Enter
  <2>2. r.kind \in Finding /\ r.kind \notin Entering
    BY <1>8 DEF Ready, Loads, EntersBy, Finds, PutsBack, Finding, Entering
  <2>3. (Finds(r) \/ PutsBack(r)) /\ r.old = call[c].old
    BY <1>8 DEF Ready, Loads, EntersBy
  <2> DEFINE q == [r EXCEPT !.pc = "told"]
  <2>4. /\ q \in CallRecords /\ q.pc = "told"
        /\ q.kind = r.kind /\ q.id = r.id /\ q.object = r.object /\ q.todo = r.todo
        /\ q.targets = r.targets /\ q.at = r.at /\ q.old = r.old
    BY <1>1, <1>3, StageOf
  <2>5. /\ call' = [call EXCEPT ![c] = q]
        /\ stack' = IF OnTop(c) THEN stack ELSE <<c>> \o stack
    BY <2>1, <2>2 DEF Handled
  <2> HIDE DEF q
  <2>6. Moved(c, q)
    BY <2>4, <2>5, MovedTo DEF TableInv
  <2>7. GoesOn(c, q)
    BY <2>4 DEF Ready, GoesOn
  <2>8. Fits(c, q)
    BY <1>4, <2>2, <2>4, <2>7 DEF Fits, Shape
  <2>9. StackStep(c, q)
    BY <1>2, <2>4, <2>5 DEF StackStep, Running
  <2>10. /\ InProgress(c) /\ call[c].kind \in Entering \cup Finding /\ call[c].pc # "using"
         /\ c \notin Loading /\ inFlight' = inFlight \ {Under(r)}
    BY <2>1, <2>2 DEF Ready
  <2>11. Known(r.object, Under(r)) \/ r.object = Under(r)
    BY <1>1, <2>3, LoadKnown DEF Ready, TableInv
  <2>12. /\ modules' = [modules EXCEPT ![Under(r)] = r.object]
         /\ meta' = [meta EXCEPT ![Under(r)] = r.object]
         /\ live' = [live EXCEPT ![r.object] = @ + 1]
         /\ owed' = [d \in Callers |-> owed[d] \ {Under(r)}]
    BY <2>1 DEF Publish
  <2>13. Ahead(modules', q)
    <3>1. r.todo # <<>> => Under(r) = Head(r.todo)
      BY <1>1, <2>3, Doors DEF Ready, PutsBack
    <3>2. r.object \in Holdings
      BY <1>1, Fields
    <3> QED
      BY <1>1, <1>5, <1>6, <2>4, <2>12, <3>1, <3>2, AheadTold DEF TableInv
  <2>14. Owes(owed'[c], q)
    <3>1. Loads(c, s) /\ (s.todo # <<>> => s.kind \in Finding)
      BY <1>5 DEF Ready, Loads, EntersBy, Finds, PutsBack
    <3>2. owed'[c] = owed[c] \ {Under(s)}
      BY <1>5, <2>12
    <3> QED
      BY <1>5, <1>6, <2>4, <3>1, <3>2, OwesTold
  <2>15. q.pc \notin {"loading", "pending", "using"}
    BY <2>4
  <2> QED
    BY <1>1, <2>6, <2>8, <2>9, <2>10, <2>11, <2>12, <2>13, <2>14, <2>15, PublishStep
<1> QED
  BY <1>7, <1>8
\* A conflict ends the call.
LEMMA CheckedStep ==
  ASSUME TableInv, NEW c \in Callers, NEW r, Ready(c, r), EnterChecked(c, r),
         UNCHANGED <<drains, hooked>>, Conflict(Under(r)) => Owes(owed[c], Over(c))
  PROVE  TableInv'
<1>1. CASE ~Conflict(Under(r))
  <2>1. modules[Under(r)] = NoObject /\ Under(r) \notin inFlight
    BY <1>1 DEF Conflict
  <2>2. Enter(c, r)
    BY <1>1 DEF EnterChecked
  <2> QED
    BY <2>1, <2>2, EnterStep
<1>2. CASE Conflict(Under(r))
  <2> DEFINE q == Over(c)
  <2>1. /\ q \in CallRecords /\ q.pc = "done" /\ Fits(c, q) /\ ~Running(q)
        /\ Ahead(modules, q)
    BY OverEnds DEF TableInv
  <2>2. /\ call' = [call EXCEPT ![c] = q] /\ stack' = StackLess(c)
        /\ UNCHANGED <<tables, live, owed>>
    BY <1>2 DEF EnterChecked
  <2>3. Owes(owed[c], q)
    BY <1>2
  <2> HIDE DEF q
  <2>4. Moved(c, q)
    BY <2>1, <2>2, MovedTo DEF TableInv
  <2>5. StackStep(c, q)
    BY <2>1, <2>2 DEF StackStep, StackLess, Ready
  <2>6. c \notin Loading /\ call[c].pc # "using"
    BY DEF Ready
  <2>7. Counted'
    BY <2>1, <2>4, <2>6, CountedKept DEF TableInv
  <2>8. draining' \subseteq Ids /\ refs' \in [Ids -> Nat] /\ waiters' \in [Ids -> SUBSET Callers]
    BY DEF drains, TableInv, Types
  <2> QED
    BY <2>1, <2>2, <2>3, <2>4, <2>5, <2>6, <2>7, <2>8, QuietStep
<1> QED
  BY <1>1, <1>2

\* Where a call starts: MayStart is what GoesOn asks for.
LEMMA Starter ==
  ASSUME TableInv, Exclusive, NEW c \in Callers, NEW k, MayStart(c, k), NEW q, q.kind = k
  PROVE  /\ GoesOn(c, q) /\ call[c].pc = "idle" /\ owed[c] = {}
         /\ ~Running(call[c]) /\ c \notin Loading /\ ~InProgress(c)
<1>1. call[c].pc = "idle"
  BY DEF MayStart
<1>2. GoesOn(c, q)
  BY <1>1 DEF MayStart, GoesOn
<1>3. owed[c] = {}
  BY <1>1 DEF TableInv, Debts, Owes
<1> QED
  BY <1>1, <1>2, <1>3 DEF Running, Loading, InProgress

\* c starts something that takes nothing in and out at once.
LEMMA QuietStart ==
  ASSUME TableInv, Exclusive, NEW c \in Callers, NEW k, MayStart(c, k),
         NEW q \in CallRecords, q.kind = k, Shape(c, q), Owes({}, q), q.todo = <<>>,
         q.pc \notin {"idle", "loading", "pending", "told", "order"},
         \A id \in Ids : q.old[id] = NoObject \/ q.old[id] = modules[id],
         call' = [call EXCEPT ![c] = q], UNCHANGED <<tables, stack, hooked, live, owed>>,
         draining' \subseteq Ids, refs' \in [Ids -> Nat], waiters' \in [Ids -> SUBSET Callers],
         Counted'
  PROVE  TableInv'
<1>1. /\ GoesOn(c, q) /\ owed[c] = {} /\ ~Running(call[c]) /\ c \notin Loading
  BY Starter
<1>2. Moved(c, q)
  BY MovedTo DEF TableInv
<1>3. Fits(c, q)
  BY <1>1 DEF Fits
<1>4. StackStep(c, q)
  BY <1>1 DEF StackStep, Running
<1>5. Ahead(modules, q)
  BY EmptySeq DEF Ahead
<1>6. UNCHANGED <<tables, hooked, live, owed>> /\ Owes(owed[c], q)
  BY <1>1
<1> QED
  BY <1>1, <1>2, <1>3, <1>4, <1>5, <1>6, QuietStep

\* The same when the counts and the drains stay as well.
LEMMA StillStart ==
  ASSUME TableInv, Exclusive, NEW c \in Callers, NEW k, MayStart(c, k),
         NEW q \in CallRecords, q.kind = k, Shape(c, q), Owes({}, q), q.todo = <<>>,
         q.pc \notin {"idle", "loading", "pending", "told", "order", "using"},
         \A id \in Ids : q.old[id] = NoObject \/ q.old[id] = modules[id],
         call' = [call EXCEPT ![c] = q], UNCHANGED <<tables, drains, stack, hooked, live, owed>>
  PROVE  TableInv'
<1>1. Moved(c, q)
  BY MovedTo DEF TableInv
<1>2. Counted'
  <2>1. call[c].pc # "using"
    BY DEF MayStart
  <2> QED
    BY <1>1, <2>1, CountedKept DEF TableInv
<1>3. draining' \subseteq Ids /\ refs' \in [Ids -> Nat] /\ waiters' \in [Ids -> SUBSET Callers]
  BY DEF drains, TableInv, Types
<1>4. UNCHANGED <<tables, stack, hooked, live, owed>>
  OBVIOUS
<1> QED
  BY <1>2, <1>3, <1>4, QuietStart

\* c goes on between its synchronous parts, or ends there.
LEMMA QuietTurn ==
  ASSUME TableInv, NEW c \in Callers, InProgress(c), ~Running(call[c]), c \notin Loading,
         NEW q, Moved(c, q), Shape(c, q), q.pc \notin {"idle", "loading", "pending", "told", "order"},
         GoesOn(c, q), q.todo = <<>>, q.old \in {call[c].old, NoModules}, Owes(owed[c], q),
         UNCHANGED <<tables, stack, hooked, live, owed>>,
         draining' \subseteq Ids, refs' \in [Ids -> Nat], waiters' \in [Ids -> SUBSET Callers],
         Counted'
  PROVE  TableInv'
<1>1. Fits(c, q)
  BY NoCallIsOne DEF Fits
<1>2. StackStep(c, q)
  BY DEF StackStep, Running
<1>3. Ahead(modules, q)
  BY EmptySeq DEF Ahead
<1>4. UNCHANGED <<tables, hooked, live, owed>>
  OBVIOUS
<1> QED
  BY <1>1, <1>2, <1>3, <1>4, QuietStep

LEMMA StillTurn ==
  ASSUME TableInv, NEW c \in Callers, InProgress(c), ~Running(call[c]), c \notin Loading,
         NEW q \in CallRecords, Shape(c, q), call[c].pc # "using",
         q.pc \notin {"idle", "loading", "pending", "told", "order", "using"},
         GoesOn(c, q), q.todo = <<>>, q.old \in {call[c].old, NoModules}, Owes(owed[c], q),
         call' = [call EXCEPT ![c] = q], UNCHANGED <<tables, drains, stack, hooked, live, owed>>
  PROVE  TableInv'
<1>1. Moved(c, q)
  BY MovedTo DEF TableInv
<1>2. Counted'
  BY <1>1, CountedKept DEF TableInv
<1>3. draining' \subseteq Ids /\ refs' \in [Ids -> Nat] /\ waiters' \in [Ids -> SUBSET Callers]
  BY DEF drains, TableInv, Types
<1>4. UNCHANGED <<tables, stack, hooked, live, owed>>
  OBVIOUS
<1> QED
  BY <1>1, <1>2, <1>3, <1>4, QuietTurn
----------------------------------------------------------------------------
(* register(), registerInternal(), the custom discoverer *)

\* The record of a call that brings its own module.
Bring(c, k, id) == [NoCall EXCEPT !.kind = k, !.id = id, !.object = c]

LEMMA Bringer ==
  ASSUME TableInv, Exclusive, NEW c \in Callers, NEW id \in Ids, NEW k \in Entering,
         MayStart(c, k)
  PROVE  LET r == Bring(c, k, id)
         IN  /\ Ready(c, r) /\ EntersBy(c, r)
             /\ r.kind = k /\ r.todo = <<>> /\ r.old = NoModules
<1> DEFINE r == Bring(c, k, id)
<1>1. k \in AnyKind /\ c \in Holdings /\ k \notin Finding /\ k # "reload"
  BY Stages, Objects DEF Entering, Finding
<1>2. /\ r \in CallRecords /\ r.kind = k /\ r.id = id /\ r.object = c /\ r.todo = <<>>
      /\ r.old = NoModules /\ r.pc = "idle"
  BY <1>1, NoCallIsOne DEF CallRecords, Bring
<1> HIDE DEF r
<1>3. EntersBy(c, r)
  BY <1>2 DEF EntersBy
<1>4. /\ GoesOn(c, r) /\ owed[c] = {} /\ ~Running(call[c]) /\ c \notin Loading
      /\ call[c].pc = "idle"
  <2>1. PICK q : q = r
    OBVIOUS
  <2>2. q.kind = k
    BY <1>2, <2>1
  <2>3. /\ GoesOn(c, q) /\ owed[c] = {} /\ ~Running(call[c]) /\ c \notin Loading
        /\ call[c].pc = "idle"
    BY <2>2, Starter
  <2> QED
    BY <2>1, <2>3
<1> DEFINE s == [r EXCEPT !.pc = "loading"]
<1>5. s.kind = k /\ s.todo = <<>> /\ s.pc = "loading"
  BY <1>2, StageOf DEF CallStages
<1> HIDE DEF s
<1>6. Ahead(modules, s) /\ Owes(owed[c], s)
  BY <1>1, <1>4, <1>5, EmptySeq DEF Ahead, Owes
<1>7. Ready(c, r)
  BY <1>1, <1>2, <1>3, <1>4, <1>6 DEF Ready, Loads, s
<1> QED
  BY <1>2, <1>3, <1>7 DEF r

\* A call that was idle owes nothing when it ends.
LEMMA OwesNothing ==
  ASSUME TableInv, NEW c \in Callers, call[c].pc = "idle" \/ call[c].kind # "reload"
  PROVE  Owes(owed[c], Over(c))
<1>1. Over(c).pc = "done" /\ Over(c).kind = call[c].kind
  BY OverEnds DEF TableInv
<1>2. call[c].pc = "idle" => owed[c] = {}
  BY DEF TableInv, Debts, Owes
<1> QED
  BY <1>1, <1>2 DEF Owes

\* c waits for a validator, or for what a discoverer offers.
LEMMA Awaits ==
  ASSUME TableInv, Exclusive, NEW c \in Callers, NEW id \in Ids, NEW k \in {"register", "custom"},
         MayStart(c, k), NEW p \in {"validating", "asking"},
         call' = [call EXCEPT ![c] = [Bring(c, k, id) EXCEPT !.pc = p]],
         UNCHANGED <<tables, drains, stack, hooked, live, owed>>
  PROVE  TableInv'
<1> DEFINE r == Bring(c, k, id)
<1>1. k \in Entering /\ k # "reload" /\ k \notin Finding /\ p \in CallStages
  BY DEF Entering, Finding, CallStages
<1>2. Ready(c, r) /\ EntersBy(c, r) /\ r.kind = k /\ r.todo = <<>> /\ r.old = NoModules
  BY <1>1, Bringer, Zenon
<1> HIDE DEF r
<1>3. r \in CallRecords
  BY <1>2 DEF Ready
<1> DEFINE q == [r EXCEPT !.pc = p]
<1>4. /\ q \in CallRecords /\ q.pc = p /\ q.kind = k /\ q.id = r.id /\ q.object = r.object
      /\ q.todo = <<>> /\ q.old = NoModules
  BY <1>1, <1>2, <1>3, StageOf
<1>5. call' = [call EXCEPT ![c] = q]
  BY DEF r
<1> HIDE DEF q
<1>6. Shape(c, q)
  BY <1>1, <1>2, <1>4 DEF Shape, EntersBy
<1>7. Owes({}, q) /\ q.pc \notin {"idle", "loading", "pending", "told", "order", "using"}
  BY <1>1, <1>4 DEF Owes
<1>8. \A i \in Ids : q.old[i] = NoObject \/ q.old[i] = modules[i]
  BY <1>4, NoCallIsOne
<1> QED
  BY <1>4, <1>5, <1>6, <1>7, <1>8, StillStart

LEMMA RegisterStep ==
  ASSUME TableInv, Exclusive, NEW c \in Callers, NEW id \in Ids, RegisterCall(c, id)
  PROVE  TableInv'
<1> DEFINE r == Bring(c, "register", id)
<1>1. MayStart(c, "register") /\ UNCHANGED <<drains, hooked>>
  BY DEF RegisterCall
<1>2. "register" \in Entering
  BY DEF Entering
<1>3. CASE EnterChecked(c, r)
  <2>1. Ready(c, r)
    BY <1>1, <1>2, Bringer, Zenon
  <2>2. Owes(owed[c], Over(c))
    BY <1>1, OwesNothing DEF MayStart
  <2> QED
    BY <1>1, <1>3, <2>1, <2>2, CheckedStep
<1>4. CASE /\ call' = [call EXCEPT ![c] = [r EXCEPT !.pc = "validating"]]
           /\ UNCHANGED <<tables, stack, live, owed>>
  BY <1>1, <1>4, Awaits
<1> QED
  BY <1>3, <1>4 DEF RegisterCall, Bring

LEMMA RegisterInternalStep ==
  ASSUME TableInv, Exclusive, NEW c \in Callers, NEW id \in Ids, RegisterInternalCall(c, id)
  PROVE  TableInv'
<1> DEFINE r == Bring(c, "internal", id)
<1>1. MayStart(c, "internal") /\ UNCHANGED <<drains, hooked>> /\ EnterChecked(c, r)
  BY DEF RegisterInternalCall, Bring
<1>2. "internal" \in Entering
  BY DEF Entering
<1>4. Ready(c, r)
  BY <1>1, <1>2, Bringer, Zenon
<1>3. Owes(owed[c], Over(c))
  BY <1>1, OwesNothing DEF MayStart
<1> QED
  BY <1>1, <1>3, <1>4, CheckedStep

LEMMA DiscoverCustomStep ==
  ASSUME TableInv, Exclusive, NEW c \in Callers, NEW id \in Ids, DiscoverCustomCall(c, id)
  PROVE  TableInv'
<1> DEFINE r == Bring(c, "custom", id)
<1>1. [NoCall EXCEPT !.kind = "custom", !.pc = "asking", !.id = id, !.object = c]
        = [r EXCEPT !.pc = "asking"]
  BY DEF NoCall, Bring
<1>2. /\ MayStart(c, "custom") /\ call' = [call EXCEPT ![c] = [r EXCEPT !.pc = "asking"]]
      /\ UNCHANGED <<tables, drains, stack, hooked, live, owed>>
  BY <1>1 DEF DiscoverCustomCall
<1> QED
  BY <1>2, Awaits

\* The validator or the discoverer has answered.
LEMMA Answered ==
  ASSUME TableInv, NEW c \in Callers, call[c].pc \in {"validating", "asking"}
  PROVE  /\ Ready(c, call[c]) /\ Owes(owed[c], Over(c)) /\ InProgress(c)
         /\ ~Running(call[c]) /\ c \notin Loading
<1> DEFINE r == call[c]
<1>1. r \in CallRecords /\ Shape(c, r) /\ EntersBy(c, r)
  BY DEF TableInv, Types, Shapes, Shape
<1>2. r.todo = <<>> /\ r.kind \notin Finding /\ r.kind # "reload" /\ r.pc # "done"
  BY <1>1 DEF EntersBy, Entering, Finding, Shape
<1>3. InProgress(c) /\ ~Running(r) /\ c \notin Loading
  BY DEF InProgress, Running, Loading
<1> DEFINE s == [r EXCEPT !.pc = "loading"]
<1>4. s.kind = r.kind /\ s.todo = <<>> /\ s.pc = "loading"
  BY <1>1, <1>2, StageOf DEF CallStages
<1> HIDE DEF s
<1>5. Ahead(modules, s) /\ Owes(owed[c], s)
  BY <1>2, <1>4, EmptySeq DEF Ahead, Owes
<1>6. GoesOn(c, r)
  BY <1>3 DEF GoesOn
<1>7. Ready(c, r)
  BY <1>1, <1>2, <1>3, <1>5, <1>6 DEF Ready, Loads, s
<1> QED
  BY <1>2, <1>3, <1>7, OwesNothing

LEMMA AnswerStep ==
  ASSUME TableInv, NEW c \in Callers, Validated(c) \/ Offered(c) \/ TurnedDown(c)
  PROVE  TableInv'
<1>1. call[c].pc \in {"validating", "asking"}
  BY DEF Validated, Offered, TurnedDown, Resumes
<1>2. /\ Ready(c, call[c]) /\ Owes(owed[c], Over(c)) /\ InProgress(c)
      /\ ~Running(call[c]) /\ c \notin Loading
  BY <1>1, Answered
<1>3. CASE Validated(c) \/ Offered(c)
  <2>1. EnterChecked(c, call[c]) /\ UNCHANGED <<drains, hooked>>
    BY <1>3 DEF Validated, Offered
  <2> QED
    BY <1>2, <2>1, CheckedStep
<1>4. CASE TurnedDown(c)
  <2> DEFINE q == Over(c)
  <2>1. /\ q \in CallRecords /\ q.pc = "done" /\ q.todo = <<>> /\ Fits(c, q)
    BY OverEnds DEF TableInv
  <2>2. q.old = NoModules
    BY NoCallIsOne DEF Over, CallRecords
  <2>3. Owes(owed[c], q)
    BY <1>2
  <2>4. /\ call' = [call EXCEPT ![c] = q]
        /\ UNCHANGED <<tables, drains, stack, hooked, live, owed>>
    BY <1>4 DEF TurnedDown
  <2> HIDE DEF q
  <2>5. Shape(c, q) /\ GoesOn(c, q)
    BY <2>1 DEF Fits
  <2> QED
    BY <1>1, <1>2, <2>1, <2>2, <2>3, <2>4, <2>5, StillTurn
<1> QED
  BY <1>3, <1>4
----------------------------------------------------------------------------
(* The discovery of the extension roots *)

LEMMA OrdersAreSeqs ==
  ASSUME NEW S \in SUBSET Ids, NEW s \in Orders(S)
  PROVE  /\ s \in Seq(Ids) /\ Len(s) = Cardinality(S) /\ Len(s) \in Nat
         /\ \A i \in 1..Len(s) : s[i] \in S
         /\ \A i, j \in 1..Len(s) : s[i] = s[j] => i = j
<1>1. Cardinality(S) \in Nat
  BY RegistryAssumption, FS_Subset, FS_CardinalityType
<1>2. s \in [1..Cardinality(S) -> S] /\ \A i, j \in 1..Cardinality(S) : s[i] = s[j] => i = j
  BY DEF Orders
<1>3. s \in Seq(S) /\ Len(s) = Cardinality(S)
  <2>1. PICK n \in Nat : n = Cardinality(S)
    BY <1>1
  <2>2. s \in [1..n -> S]
    BY <1>2, <2>1
  <2> QED
    BY <2>1, <2>2
<1>4. s \in Seq(Ids)
  BY <1>3
<1> QED
  BY <1>1, <1>2, <1>3, <1>4

\* While a discovery or a reload is under way nobody else loads.
LEMMA NobodyElseLoads ==
  ASSUME TableInv, NEW c \in Callers, InProgress(c), call[c].kind \in Finding, c \notin Loading
  PROVE  inFlight = {}
<1>1. ASSUME NEW d \in Loading PROVE FALSE
  <2>1. d \in Callers /\ d # c /\ InProgress(d)
    BY DEF Loading, InProgress
  <2>2. call[d].kind \in Entering \cup Finding
    BY Loaders DEF TableInv, Loads, EntersBy, Finds, PutsBack
  <2> QED
    BY <2>1, <2>2 DEF TableInv, Excluded
<1> QED
  BY <1>1 DEF TableInv, Reserved, ReservedWhileLoading

LEMMA DiscoverStep ==
  ASSUME TableInv, Exclusive, NEW c \in Callers, DiscoverCall(c)
  PROVE  TableInv'
<1> DEFINE q == [NoCall EXCEPT !.kind = "discover", !.pc = "scanning"]
<1>1. "discover" \in AnyKind /\ "discover" \in Finding /\ "scanning" \in CallStages
  BY Stages DEF Finding, CallStages
<1>2. /\ q \in CallRecords /\ q.kind = "discover" /\ q.pc = "scanning" /\ q.todo = <<>>
      /\ q.old = NoModules
  BY <1>1, NoCallIsOne DEF CallRecords
<1>3. /\ MayStart(c, "discover") /\ call' = [call EXCEPT ![c] = q]
      /\ UNCHANGED <<tables, drains, stack, hooked, live, owed>>
  BY DEF DiscoverCall
<1> HIDE DEF q
<1>4. Shape(c, q) /\ Owes({}, q)
  BY <1>1, <1>2 DEF Shape, Owes
<1>5. \A id \in Ids : q.old[id] = NoObject \/ q.old[id] = modules[id]
  BY <1>2, NoCallIsOne
<1>6. q.pc \notin {"idle", "loading", "pending", "told", "order", "using"}
  BY <1>2
<1> QED
  BY <1>2, <1>3, <1>4, <1>5, <1>6, StillStart

LEMMA FilterStep ==
  ASSUME TableInv, NEW c \in Callers, Filter(c)
  PROVE  TableInv'
<1>1. /\ stack = <<>> /\ call[c].pc = "scanning" /\ stack' = <<c>>
      /\ UNCHANGED <<tables, drains, hooked, live, owed>>
  BY DEF Filter, Resumes
<1>2. PICK found \in SUBSET Ids : \E order \in Orders(Admitted(found)) :
        call' = [call EXCEPT ![c].pc = "order", ![c].todo = order]
  BY DEF Filter
<1>3. PICK order \in Orders(Admitted(found)) :
        call' = [call EXCEPT ![c].pc = "order", ![c].todo = order]
  BY <1>2, Zenon
<1>4. Admitted(found) \in SUBSET Ids /\ \A id \in Admitted(found) : modules[id] = NoObject
  BY DEF Admitted
<1>5. /\ order \in Seq(Ids) /\ Len(order) \in Nat
      /\ \A i \in 1..Len(order) : order[i] \in Admitted(found)
      /\ \A i, j \in 1..Len(order) : order[i] = order[j] => i = j
  BY <1>4, OrdersAreSeqs
<1>6. call[c] \in CallRecords /\ Shape(c, call[c]) /\ call[c].kind \in Finding
  BY <1>1 DEF TableInv, Types, Shapes, Shape
<1> DEFINE q == [call[c] EXCEPT !.pc = "order", !.todo = order]
<1>7. /\ q \in CallRecords /\ q.pc = "order" /\ q.todo = order /\ q.kind = call[c].kind
      /\ q.id = call[c].id /\ q.old = call[c].old /\ q.targets = call[c].targets
  BY <1>5, <1>6 DEF CallRecords, CallStages
<1>8. call' = [call EXCEPT ![c] = q]
  BY <1>3 DEF TableInv, Types
<1> HIDE DEF q
<1>9. Moved(c, q)
  BY <1>7, <1>8, MovedTo DEF TableInv
<1>10. GoesOn(c, q)
  BY <1>1, <1>7 DEF GoesOn, InProgress
<1>11. Fits(c, q)
  BY <1>6, <1>7, <1>10 DEF Fits, Shape
<1>12. StackStep(c, q)
  <2>1. stack' = <<c>> \o stack
    BY <1>1, ConcatEmptySeq
  <2> QED
    BY <1>1, <1>7, <2>1 DEF StackStep, Running
<1>13. Ahead(modules, q)
  BY <1>4, <1>5, <1>7 DEF Ahead
<1>14. Owes(owed[c], q)
  <2>1. Owes(owed[c], call[c])
    BY DEF TableInv, Debts
  <2> QED
    BY <1>1, <1>7, <2>1 DEF Owes
<1>15. c \notin Loading /\ call[c].pc # "using"
  BY <1>1 DEF Loading
<1>16. Counted'
  BY <1>1, <1>7, <1>9, <1>15, CountedKept DEF TableInv
<1>17. draining' \subseteq Ids /\ refs' \in [Ids -> Nat] /\ waiters' \in [Ids -> SUBSET Callers]
  BY <1>1 DEF drains, TableInv, Types
<1>18. q.pc \notin {"loading", "pending"}
  BY <1>7
<1> QED
  BY <1>1, <1>9, <1>11, <1>12, <1>13, <1>14, <1>15, <1>16, <1>17, <1>18, QuietStep

\* A call whose record says so is between its synchronous parts.
LEMMA Between ==
  ASSUME TableInv, NEW c \in Callers,
         call[c].pc \in {"scanning", "found", "failed", "draining", "drained", "unloaded",
                         "importing"}
  PROVE  /\ call[c] \in CallRecords /\ Shape(c, call[c]) /\ InProgress(c)
         /\ ~Running(call[c]) /\ c \notin Loading /\ call[c].pc # "using"
         /\ call[c].todo = <<>> /\ Owes(owed[c], call[c])
         /\ call[c].pc # "importing" => call[c].kind \in Finding \cup {"safe"}
  BY DEF TableInv, Types, Shapes, Shape, InProgress, Running, Loading, Debts

LEMMA DiscoveryFailsStep ==
  ASSUME TableInv, NEW c \in Callers, DiscoveryFails(c)
  PROVE  TableInv'
<1>1. /\ call[c].pc = "scanning" /\ call' = [call EXCEPT ![c] = AfterLoadFails(c)]
      /\ UNCHANGED <<tables, drains, stack, hooked, live, owed>>
  BY DEF DiscoveryFails, Resumes
<1>2. /\ call[c] \in CallRecords /\ Shape(c, call[c]) /\ InProgress(c)
      /\ ~Running(call[c]) /\ c \notin Loading /\ call[c].pc # "using"
      /\ call[c].todo = <<>> /\ Owes(owed[c], call[c])
  BY <1>1, Between
<1>3. CASE call[c].kind = "discover"
  <2> DEFINE q == Over(c)
  <2>1. /\ q \in CallRecords /\ q.pc = "done" /\ q.todo = <<>> /\ Fits(c, q)
        /\ q.kind = call[c].kind
    BY OverEnds DEF TableInv
  <2>2. q.old = NoModules
    BY NoCallIsOne DEF Over, CallRecords
  <2>3. call' = [call EXCEPT ![c] = q]
    BY <1>1, <1>3 DEF AfterLoadFails
  <2> HIDE DEF q
  <2>4. Shape(c, q) /\ GoesOn(c, q) /\ Owes(owed[c], q)
    BY <1>3, <2>1 DEF Fits, Owes
  <2> QED
    BY <1>1, <1>2, <2>1, <2>2, <2>3, <2>4, StillTurn
<1>4. CASE call[c].kind # "discover"
  <2> DEFINE q == [call[c] EXCEPT !.pc = "failed"]
  <2>1. /\ q \in CallRecords /\ q.pc = "failed" /\ q.todo = call[c].todo
        /\ q.kind = call[c].kind /\ q.id = call[c].id /\ q.old = call[c].old
        /\ q.targets = call[c].targets
    BY <1>2, StageOf DEF CallStages
  <2>2. call' = [call EXCEPT ![c] = q]
    BY <1>1, <1>4 DEF AfterLoadFails
  <2> HIDE DEF q
  <2>3. Shape(c, q) /\ GoesOn(c, q) /\ Owes(owed[c], q)
    BY <1>1, <1>2, <2>1 DEF Shape, GoesOn, Owes
  <2> QED
    BY <1>1, <1>2, <2>1, <2>2, <2>3, StillTurn
<1> QED
  BY <1>3, <1>4
\* What LoadNext takes next.
LEMMA NextReady ==
  ASSUME TableInv, NEW c \in Callers, OnTop(c),
         call[c].pc = "order" \/ (call[c].pc = "told" /\ call[c].todo # <<>>),
         NEW rest, rest = IF call[c].pc = "told" THEN Tail(call[c].todo) ELSE call[c].todo,
         rest # <<>>
  PROVE  LET s == [call[c] EXCEPT !.todo = rest, !.object = Head(rest)]
         IN  Ready(c, s) /\ modules[Under(s)] = NoObject /\ Under(s) \notin inFlight
<1> DEFINE r == call[c]
           s == [call[c] EXCEPT !.todo = rest, !.object = Head(rest)]
<1>1. /\ r \in CallRecords /\ Shape(c, r) /\ r.kind \in Finding /\ Ahead(modules, r)
      /\ Owes(owed[c], r)
  BY DEF TableInv, Types, Shapes, Shape, AheadFree, Debts
<1>2. InProgress(c) /\ c \notin Loading /\ r.pc # "using" /\ r.pc # "done" /\ r.pc # "idle"
  BY DEF InProgress, Loading
<1>3. /\ r.todo \in Seq(Ids) /\ Len(r.todo) \in Nat /\ \A i \in 1..Len(r.todo) : r.todo[i] \in Ids
      /\ r.todo # <<>> => /\ Tail(r.todo) \in Seq(Ids) /\ Len(Tail(r.todo)) = Len(r.todo) - 1
                          /\ \A i \in 1..Len(r.todo) - 1 : Tail(r.todo)[i] = r.todo[i + 1]
  BY <1>1, Fields, IdSeq
<1>4. rest \in Seq(Ids)
  BY <1>3
<1>5. /\ Head(rest) \in Ids /\ Head(rest) = rest[1] /\ Len(rest) > 0 /\ Len(rest) \in Nat
  BY <1>4, IdSeq
<1>6. /\ \A i, j \in 1..Len(rest) : rest[i] = rest[j] => i = j
      /\ \A i \in 1..Len(rest) : modules[rest[i]] = NoObject
  <2>1. CASE r.pc = "told"
    <3>1. /\ Len(rest) = Len(r.todo) - 1
          /\ \A i \in 1..Len(rest) : rest[i] = r.todo[i + 1] /\ i + 1 \in 1..Len(r.todo) /\ i + 1 # 1
      BY <1>3, <2>1
    <3>2. \A i \in 1..Len(rest) : modules[rest[i]] = NoObject
      BY <1>1, <3>1 DEF Ahead
    <3>3. ASSUME NEW i \in 1..Len(rest), NEW j \in 1..Len(rest), rest[i] = rest[j] PROVE i = j
      <4>1. i + 1 = j + 1
        BY <1>1, <3>1, <3>3 DEF Ahead
      <4> QED
        BY <1>5, <4>1
    <3> QED
      BY <3>2, <3>3
  <2>2. CASE r.pc # "told"
    <3>1. rest = r.todo
      BY <2>2
    <3> QED
      BY <1>1, <2>2, <3>1 DEF Ahead
  <2> QED
    BY <2>1, <2>2
<1>7. /\ s \in CallRecords /\ s.kind = r.kind /\ s.id = r.id /\ s.old = r.old
      /\ s.todo = rest /\ s.object = Head(rest) /\ s.pc = r.pc /\ s.targets = r.targets
  BY <1>1, <1>4, <1>5, Objects DEF CallRecords
<1> HIDE DEF s
<1>8. Finds(s) /\ (s.todo # <<>> => s.kind \in Finding)
  BY <1>1, <1>7 DEF Finds
<1>9. Under(s) = rest[1]
  BY <1>5, <1>7, <1>8, Doors
<1>10. modules[Under(s)] = NoObject
  BY <1>5, <1>6, <1>9
<1>11. inFlight = {}
  BY <1>1, <1>2, NobodyElseLoads
<1> DEFINE q == [s EXCEPT !.pc = "loading"]
<1>12. /\ q.pc = "loading" /\ q.todo = rest /\ q.kind = r.kind /\ q.targets = r.targets
       /\ q.old = r.old
  BY <1>7, StageOf DEF CallStages
<1> HIDE DEF q
<1>13. Ahead(modules, q)
  BY <1>6, <1>12 DEF Ahead
<1>14. Owes(owed[c], q)
  BY <1>1, <1>2, <1>12 DEF Owes
<1>15. GoesOn(c, s)
  BY <1>2, <1>7 DEF GoesOn
<1>16. Ready(c, s)
  BY <1>1, <1>2, <1>7, <1>8, <1>13, <1>14, <1>15 DEF Ready, Loads, q
<1> QED
  BY <1>10, <1>11, <1>16 DEF s

LEMMA LoadNextStep ==
  ASSUME TableInv, NEW c \in Callers, LoadNext(c)
  PROVE  TableInv'
<1> DEFINE r == call[c]
<1>1. PICK rest : rest = IF r.pc = "told" THEN Tail(r.todo) ELSE r.todo
  OBVIOUS
<1>2. /\ OnTop(c) /\ UNCHANGED <<drains, hooked>>
      /\ r.pc = "order" \/ (r.pc = "told" /\ r.todo # <<>>)
      /\ IF rest # <<>>
         THEN Enter(c, [r EXCEPT !.todo = rest, !.object = Head(rest)])
         ELSE /\ stack' = Tail(stack)
              /\ call' = [call EXCEPT ![c] = IF r.kind = "discover" THEN Over(c)
                          ELSE [r EXCEPT !.pc = "found", !.todo = <<>>, !.object = NoObject]]
              /\ UNCHANGED <<tables, live, owed>>
  BY <1>1 DEF LoadNext
<1>3. CASE rest # <<>>
  <2>1. PICK s : s = [r EXCEPT !.todo = rest, !.object = Head(rest)]
    OBVIOUS
  <2>2. Ready(c, s) /\ modules[Under(s)] = NoObject /\ Under(s) \notin inFlight
    BY <1>1, <1>2, <1>3, <2>1, NextReady
  <2>3. Enter(c, s)
    BY <1>2, <1>3, <2>1
  <2> QED
    BY <1>2, <2>2, <2>3, EnterStep
<1>4. CASE rest = <<>>
  <2>1. /\ r \in CallRecords /\ Shape(c, r) /\ r.kind \in Finding /\ Owes(owed[c], r)
    BY <1>2 DEF TableInv, Types, Shapes, Shape, Debts
  <2>2. InProgress(c) /\ c \notin Loading /\ r.pc # "using" /\ r.pc # "done" /\ r.pc # "idle"
    BY <1>2 DEF InProgress, Loading
  <2> DEFINE q == IF r.kind = "discover" THEN Over(c)
                  ELSE [r EXCEPT !.pc = "found", !.todo = <<>>, !.object = NoObject]
  <2>3. /\ q \in CallRecords /\ Fits(c, q) /\ Owes(owed[c], q) /\ q.todo = <<>>
        /\ q.pc \in {"done", "found"}
    <3>1. CASE r.kind = "discover"
      BY <3>1, OverEnds DEF Owes, TableInv
    <3>2. CASE r.kind # "discover"
      <4> DEFINE s == [r EXCEPT !.pc = "found", !.todo = <<>>, !.object = NoObject]
      <4>1. /\ s \in CallRecords /\ s.pc = "found" /\ s.todo = <<>> /\ s.kind = r.kind
            /\ s.id = r.id /\ s.old = r.old /\ s.targets = r.targets
        BY <2>1, Objects, EmptySeq DEF CallRecords, CallStages
      <4> HIDE DEF s
      <4>2. Shape(c, s) /\ GoesOn(c, s) /\ Owes(owed[c], s)
        BY <2>1, <2>2, <4>1 DEF Shape, GoesOn, Owes
      <4>3. Fits(c, s)
        BY <4>1, <4>2 DEF Fits
      <4> QED
        BY <3>2, <4>1, <4>2, <4>3 DEF s
    <3> QED
      BY <3>1, <3>2
  <2>4. call' = [call EXCEPT ![c] = q]
    BY <1>2, <1>4
  <2> HIDE DEF q
  <2>5. Moved(c, q)
    BY <2>3, <2>4, MovedTo DEF TableInv
  <2>6. StackStep(c, q)
    BY <1>2, <1>4, <2>3 DEF StackStep, Running
  <2>7. Ahead(modules, q)
    BY <2>3, EmptySeq DEF Ahead
  <2>8. Counted'
    BY <1>2, <2>2, <2>3, <2>5, CountedKept DEF TableInv
  <2>9. draining' \subseteq Ids /\ refs' \in [Ids -> Nat] /\ waiters' \in [Ids -> SUBSET Callers]
    BY <1>2 DEF drains, TableInv, Types
  <2>10. UNCHANGED <<tables, hooked, live, owed>> /\ q.pc \notin {"loading", "pending"}
    BY <1>2, <1>4, <2>3
  <2> QED
    BY <2>2, <2>3, <2>5, <2>6, <2>7, <2>8, <2>9, <2>10, QuietStep
<1> QED
  BY <1>3, <1>4

----------------------------------------------------------------------------
(* Loading *)

LEMMA Loader ==
  ASSUME TableInv, NEW c \in Callers, c \in Loading
  PROVE  /\ call[c] \in CallRecords /\ Loads(c, call[c]) /\ Under(call[c]) \in Ids
         /\ call[c].object \in ModuleObjects /\ modules[Under(call[c])] = NoObject
         /\ meta[Under(call[c])] = Foretold(call[c])
         /\ InProgress(c) /\ call[c].kind \in Entering \cup Finding
         /\ call[c].pc \notin {"using", "told", "idle", "done"}
         /\ Ahead(modules, call[c]) /\ Owes(owed[c], call[c])
         /\ call[c].todo # <<>> => call[c].kind \in Finding
         /\ Known(call[c].object, Under(call[c])) \/ call[c].object = Under(call[c])
<1> DEFINE r == call[c]
<1>1. /\ r \in CallRecords /\ Shape(c, r) /\ Ahead(modules, r) /\ Owes(owed[c], r)
      /\ modules[Under(r)] = NoObject /\ meta[Under(r)] = Foretold(r)
  BY DEF TableInv, Types, Shapes, AheadFree, Debts, Reserved
<1>2. InProgress(c) /\ r.pc \in {"loading", "pending"}
  BY DEF Loading, InProgress
<1>3. Loads(c, r) /\ (r.todo # <<>> => r.kind \in Finding)
  BY <1>1, <1>2 DEF Shape, Loads
<1>4. Under(r) \in Ids /\ r.object \in ModuleObjects
  BY <1>1, <1>3, Doors
<1>5. r.kind \in Entering \cup Finding
  BY <1>3 DEF Loads, EntersBy, Finds, PutsBack
<1>6. Known(r.object, Under(r)) \/ r.object = Under(r)
  <2>1. CASE EntersBy(c, r)
    <3>1. Under(r) = r.id
      BY <1>1, <1>3, <2>1, Doors
    <3> QED
      BY <1>2, <2>1, <3>1 DEF EntersBy, Known
  <2>2. CASE Finds(r) \/ PutsBack(r)
    BY <1>1, <1>3, <2>2, LoadKnown DEF TableInv
  <2> QED
    BY <1>3, <2>1, <2>2 DEF Loads
<1> QED
  BY <1>1, <1>2, <1>3, <1>4, <1>5, <1>6

\* The loop that loaded it has user callbacks to run.
LEMMA TellsOn ==
  ASSUME TableInv, NEW c \in Callers, c \in Loading, call[c].kind \in Finding
  PROVE  LET q == [call[c] EXCEPT !.pc = "told"]
         IN  /\ q \in CallRecords /\ q.pc = "told" /\ Fits(c, q) /\ Ahead(modules, q)
             /\ \A x \in Holdings : Ahead([modules EXCEPT ![Under(call[c])] = x], q)
             /\ Owes(owed[c] \ {Under(call[c])}, q)
<1> DEFINE r == call[c]
           q == [call[c] EXCEPT !.pc = "told"]
<1>1. /\ r \in CallRecords /\ Loads(c, r) /\ Under(r) \in Ids /\ Ahead(modules, r)
      /\ Owes(owed[c], r) /\ (r.todo # <<>> => r.kind \in Finding) /\ InProgress(c)
      /\ r.pc # "told"
  BY Loader
<1>2. /\ q \in CallRecords /\ q.pc = "told" /\ q.kind = r.kind /\ q.id = r.id
      /\ q.todo = r.todo /\ q.targets = r.targets /\ q.at = r.at /\ q.old = r.old
  <2>1. r \in CallRecords /\ "told" \in CallStages
    BY <1>1 DEF CallStages
  <2> QED
    BY <2>1, StageOf
<1> HIDE DEF q
<1>3. Fits(c, q)
  BY <1>1, <1>2 DEF Fits, Shape, GoesOn
<1>4. r.todo # <<>> => Under(r) = Head(r.todo)
  <2>1. Entering \cap Finding = {}
    BY DEF Entering, Finding
  <2> QED
    BY <1>1, <2>1, Doors DEF Loads, EntersBy, PutsBack
<1>5. \A x \in Holdings : Ahead([modules EXCEPT ![Under(r)] = x], q) /\ Ahead(modules, q)
  BY <1>1, <1>2, <1>4, AheadTold DEF TableInv
<1>6. Owes(owed[c] \ {Under(r)}, q)
  <2>1. r.pc \in {"loading", "pending"}
    BY DEF Loading
  <2> QED
    BY <1>1, <1>2, <2>1, OwesTold
<1> QED
  BY <1>2, <1>3, <1>5, <1>6, Objects DEF q
\* c's turn is over, or its loop goes on: what Handled makes of its call.
LEMMA HandledTo ==
  ASSUME TableInv, NEW c \in Callers, c \in Loading, Handled(c, call[c])
  PROVE  \E q \in CallRecords :
           /\ Moved(c, q) /\ Fits(c, q) /\ Ahead(modules, q)
           /\ \A x \in Holdings : Ahead([modules EXCEPT ![Under(call[c])] = x], q)
           /\ Owes(owed[c] \ {Under(call[c])}, q) /\ q.pc \in {"told", "done"}
           /\ (call[c].pc = "loading" /\ OnTop(c)) \/ (call[c].pc = "pending" /\ stack = <<>>)
                => StackStep(c, q)
<1> DEFINE r == call[c]
<1>1. /\ r \in CallRecords /\ Loads(c, r) /\ r.kind \in Entering \cup Finding
      /\ Owes(owed[c], r) /\ (r.todo # <<>> => r.kind \in Finding)
  BY Loader
<1>2. CASE r.kind \in Entering
  <2> DEFINE q == Over(c)
  <2>1. /\ q \in CallRecords /\ q.pc = "done" /\ q.todo = <<>> /\ Fits(c, q)
        /\ q.kind = r.kind /\ \A table : Ahead(table, q)
    BY OverEnds DEF TableInv
  <2>2. call' = [call EXCEPT ![c] = q] /\ stack' = StackLess(c)
    BY <1>2 DEF Handled
  <2> HIDE DEF q
  <2>3. Moved(c, q)
    BY <2>1, <2>2, MovedTo DEF TableInv
  <2>4. Owes(owed[c] \ {Under(r)}, q)
    BY <1>2, <2>1 DEF Owes, Entering
  <2>5. (r.pc = "loading" /\ OnTop(c)) \/ (r.pc = "pending" /\ stack = <<>>) => StackStep(c, q)
    BY <2>1, <2>2 DEF StackStep, StackLess, Running, OnTop
  <2> QED
    BY <2>1, <2>3, <2>4, <2>5
<1>3. CASE r.kind \notin Entering
  <2> DEFINE q == [r EXCEPT !.pc = "told"]
  <2>1. /\ q \in CallRecords /\ q.pc = "told" /\ Fits(c, q) /\ Ahead(modules, q)
        /\ \A x \in Holdings : Ahead([modules EXCEPT ![Under(r)] = x], q)
        /\ Owes(owed[c] \ {Under(r)}, q)
    BY <1>1, <1>3, TellsOn
  <2>2. /\ call' = [call EXCEPT ![c] = q]
        /\ stack' = IF OnTop(c) THEN stack ELSE <<c>> \o stack
    BY <1>3 DEF Handled
  <2> HIDE DEF q
  <2>3. Moved(c, q)
    BY <2>1, <2>2, MovedTo DEF TableInv
  <2>4. (r.pc = "loading" /\ OnTop(c)) \/ (r.pc = "pending" /\ stack = <<>>) => StackStep(c, q)
    BY <2>1, <2>2 DEF StackStep, Running, OnTop
  <2> QED
    BY <2>1, <2>3, <2>4
<1> QED
  BY <1>2, <1>3

LEMMA LoadReturnsStep ==
  ASSUME TableInv, NEW c \in Callers, LoadReturns(c) \/ LoadResolves(c)
  PROVE  TableInv'
<1> DEFINE r == call[c]
           u == Under(call[c])
<1>1. /\ c \in Loading /\ Handled(c, r) /\ UNCHANGED <<drains, hooked>>
      /\ inFlight' = inFlight \ {u} /\ modules' = [modules EXCEPT ![u] = r.object]
      /\ live' = [live EXCEPT ![r.object] = @ + 1]
      /\ owed' = [d \in Callers |-> owed[d] \ {u}]
      /\ (r.pc = "loading" /\ OnTop(c)) \/ (r.pc = "pending" /\ stack = <<>>)
  BY DEF LoadReturns, LoadResolves, Publish, Loading, Resumes
<1>2. /\ r \in CallRecords /\ Loads(c, r) /\ u \in Ids /\ r.object \in ModuleObjects
      /\ modules[u] = NoObject /\ meta[u] = Foretold(r) /\ InProgress(c)
      /\ r.kind \in Entering \cup Finding /\ r.pc # "using"
      /\ Known(r.object, u) \/ r.object = u
  BY <1>1, Loader
<1>3. meta' = [meta EXCEPT ![u] = r.object]
  <2>1. CASE LoadReturns(c)
    BY <2>1 DEF LoadReturns, Publish
  <2>2. CASE LoadResolves(c)
    <3>1. CASE Door(r) = "order"
      BY <2>2, <3>1 DEF LoadResolves
    <3>2. CASE Door(r) # "order"
      <4>1. meta' = meta /\ r.pc = "pending"
        BY <2>2, <3>2 DEF LoadResolves, Resumes
      <4>2. Shape(c, r) /\ (r.todo # <<>> => r.kind \in Finding)
        BY DEF TableInv, Shapes, Shape
      <4>3. Door(r) = "register"
        BY <1>2, <3>2, <4>1, <4>2, Doors DEF Shape
      <4>4. meta[u] = r.object
        BY <1>2, <4>1, <4>3 DEF Foretold
      <4> QED
        BY <4>1, <4>4 DEF TableInv, Types
    <3> QED
      BY <3>1, <3>2
  <2> QED
    BY <2>1, <2>2
<1>4. PICK q \in CallRecords :
        /\ Moved(c, q) /\ Fits(c, q)
        /\ \A x \in Holdings : Ahead([modules EXCEPT ![u] = x], q)
        /\ Owes(owed[c] \ {u}, q) /\ q.pc \in {"told", "done"}
        /\ StackStep(c, q)
  BY <1>1, HandledTo
<1>5. Ahead(modules', q) /\ Owes(owed'[c], q)
  BY <1>1, <1>2, <1>4, Fields
<1>6. q.pc \notin {"loading", "pending", "using"}
  BY <1>4
<1>7. IF c \in Loading THEN Under(call[c]) = u ELSE u \notin inFlight
  BY <1>1
<1> HIDE DEF r, u
<1> QED
  BY <1>1, <1>2, <1>3, <1>4, <1>5, <1>6, <1>7, PublishStep DEF r
\* Taking back what the door wrote leaves no metadata, wherever it was written.
LEMMA TakenBack ==
  ASSUME TableInv, NEW c \in Callers, call[c].pc = "loading"
  PROVE  RolledBack(call[c]) = [meta EXCEPT ![Under(call[c])] = NoObject]
<1> DEFINE r == call[c]
<1>1. c \in Loading
  BY DEF Loading
<1>2. Under(r) \in Ids /\ meta[Under(r)] = Foretold(r)
  BY <1>1, Loader
<1>3. CASE Door(r) \in {"custom", "internal"}
  BY <1>3 DEF RolledBack
<1>4. CASE Door(r) \notin {"custom", "internal"}
  <2>1. meta[Under(r)] = NoObject
    BY <1>2, <1>4 DEF Foretold
  <2> QED
    BY <1>4, <2>1 DEF RolledBack, TableInv, Types
<1> QED
  BY <1>3, <1>4

\* onLoad has failed, and the call ends.
LEMMA GivesUp ==
  ASSUME TableInv, NEW c \in Callers, call[c].pc = "loading", OnTop(c), Abandon(call[c]),
         Door(call[c]) # "order",
         call' = [call EXCEPT ![c] = Over(c)], stack' = Tail(stack),
         UNCHANGED <<drains, hooked>>
  PROVE  TableInv'
<1> DEFINE r == call[c]
           u == Under(call[c])
           q == Over(c)
<1>1. c \in Loading
  BY DEF Loading
<1>2. /\ r \in CallRecords /\ Loads(c, r) /\ u \in Ids /\ Owes(owed[c], r)
      /\ r.todo # <<>> => r.kind \in Finding
  BY <1>1, Loader
<1>3. /\ q \in CallRecords /\ q.pc = "done" /\ Fits(c, q) /\ ~Running(q) /\ q.kind = r.kind
      /\ Ahead(modules, q)
  BY OverEnds DEF TableInv
<1>4. /\ inFlight' = inFlight \ {u} /\ meta' = [meta EXCEPT ![u] = NoObject]
      /\ owed' = [d \in Callers |-> owed[d] \ {u}] /\ modules' = modules /\ live' = live
  BY TakenBack DEF Abandon
<1>5. Owes(owed'[c], q)
  <2>1. EntersBy(c, r) \/ PutsBack(r)
    BY <1>2, Doors DEF Loads
  <2>2. Owes(owed[c] \ {u}, q)
    BY <1>2, <1>3, <2>1, OwesOver
  <2> QED
    BY <1>4, <2>2
<1> HIDE DEF q
<1>6. Moved(c, q)
  BY <1>3, MovedTo DEF TableInv, q
<1>7. StackStep(c, q)
  BY <1>3 DEF StackStep
<1>8. q.pc \notin {"loading", "pending", "using"}
  BY <1>3
<1> QED
  BY <1>1, <1>2, <1>3, <1>4, <1>5, <1>6, <1>7, <1>8, AbandonStep

\* onLoad has failed, and Handled says how c goes on.
LEMMA GoesOnWithout ==
  ASSUME TableInv, NEW c \in Callers, c \in Loading, Handled(c, call[c]),
         (call[c].pc = "loading" /\ OnTop(c)) \/ (call[c].pc = "pending" /\ stack = <<>>),
         inFlight' = inFlight \ {Under(call[c])},
         meta' = [meta EXCEPT ![Under(call[c])] = NoObject],
         owed' = [d \in Callers |-> owed[d] \ {Under(call[c])}],
         UNCHANGED <<modules, live, drains, hooked>>
  PROVE  TableInv'
<1>1. PICK u \in Ids : u = Under(call[c])
  BY Loader
<1>2. PICK q \in CallRecords :
        /\ Moved(c, q) /\ Fits(c, q) /\ Ahead(modules, q)
        /\ Owes(owed[c] \ {Under(call[c])}, q) /\ q.pc \in {"told", "done"}
        /\ StackStep(c, q)
  BY HandledTo
<1>3. Owes(owed'[c], q) /\ q.pc \notin {"loading", "pending", "using"}
  BY <1>2
<1> QED
  BY <1>1, <1>2, <1>3, AbandonStep

LEMMA LoadThrowsStep ==
  ASSUME TableInv, NEW c \in Callers, LoadThrows(c)
  PROVE  TableInv'
<1>1. /\ call[c].pc = "loading" /\ OnTop(c) /\ Abandon(call[c]) /\ UNCHANGED <<drains, hooked>>
      /\ IF Door(call[c]) = "order" THEN Handled(c, call[c])
         ELSE /\ call' = [call EXCEPT ![c] = Over(c)]
              /\ stack' = Tail(stack)
  BY DEF LoadThrows
<1>2. CASE Door(call[c]) # "order"
  BY <1>1, <1>2, GivesUp
<1>3. CASE Door(call[c]) = "order"
  <2>1. c \in Loading
    BY <1>1 DEF Loading
  <2>2. /\ inFlight' = inFlight \ {Under(call[c])}
        /\ meta' = [meta EXCEPT ![Under(call[c])] = NoObject]
        /\ owed' = [d \in Callers |-> owed[d] \ {Under(call[c])}]
        /\ UNCHANGED <<modules, live, drains, hooked>>
    BY <1>1, TakenBack DEF Abandon
  <2> QED
    BY <1>1, <1>3, <2>1, <2>2, GoesOnWithout
<1> QED
  BY <1>2, <1>3

LEMMA LoadRejectsStep ==
  ASSUME TableInv, NEW c \in Callers, LoadRejects(c)
  PROVE  TableInv'
<1> DEFINE r == call[c]
<1>1. /\ r.pc = "pending" /\ stack = <<>> /\ Handled(c, r)
      /\ inFlight' = inFlight \ {Under(r)}
      /\ meta' = IF Door(r) = "register" THEN [meta EXCEPT ![Under(r)] = NoObject] ELSE meta
      /\ owed' = [d \in Callers |-> owed[d] \ {Under(r)}]
      /\ UNCHANGED <<modules, live, drains, hooked>>
  BY DEF LoadRejects, Resumes
<1>2. c \in Loading
  BY <1>1 DEF Loading
<1>3. /\ r \in CallRecords /\ Under(r) \in Ids /\ meta[Under(r)] = Foretold(r)
      /\ r.todo # <<>> => r.kind \in Finding
  BY <1>2, Loader
<1>4. meta' = [meta EXCEPT ![Under(r)] = NoObject]
  <2>1. CASE Door(r) = "register"
    BY <1>1, <2>1
  <2>2. CASE Door(r) # "register"
    <3>1. Shape(c, r)
      BY DEF TableInv, Shapes
    <3>2. Door(r) = "order"
      BY <1>1, <1>3, <2>2, <3>1, Doors DEF Shape
    <3>3. meta[Under(r)] = NoObject
      BY <1>3, <3>2 DEF Foretold
    <3> QED
      BY <1>1, <2>2, <3>3 DEF TableInv, Types
  <2> QED
    BY <2>1, <2>2
<1> QED
  BY <1>1, <1>2, <1>4, GoesOnWithout

LEMMA LoadWaitsStep ==
  ASSUME TableInv, NEW c \in Callers, LoadWaits(c)
  PROVE  TableInv'
<1> DEFINE r == call[c]
<1>1. r.pc = "loading" /\ OnTop(c) /\ stack' = Tail(stack) /\ UNCHANGED <<drains, hooked>>
  BY DEF LoadWaits
<1>2. c \in Loading
  BY <1>1 DEF Loading
<1>3. CASE Door(r) = "custom" /\ Abandon(r) /\ call' = [call EXCEPT ![c] = Over(c)]
  BY <1>1, <1>3, GivesUp
<1>4. CASE /\ Door(r) \in {"register", "order"}
           /\ IF Door(r) = "register" THEN meta' = [meta EXCEPT ![Under(r)] = r.object]
              ELSE meta' = meta
           /\ call' = [call EXCEPT ![c].pc = "pending"]
           /\ UNCHANGED <<modules, inFlight, live, owed>>
  <2>1. /\ r \in CallRecords /\ Loads(c, r) /\ Under(r) \in Ids /\ Owes(owed[c], r)
        /\ Ahead(modules, r) /\ (r.todo # <<>> => r.kind \in Finding) /\ InProgress(c)
        /\ meta[Under(r)] = Foretold(r)
    BY <1>2, Loader
  <2>2. "pending" \in CallStages
    BY DEF CallStages
  <2> DEFINE q == [r EXCEPT !.pc = "pending"]
  <2>3. /\ q \in CallRecords /\ q.pc = "pending" /\ q.kind = r.kind /\ q.id = r.id
        /\ q.object = r.object /\ q.todo = r.todo /\ q.targets = r.targets /\ q.at = r.at
        /\ q.old = r.old /\ Door(q) = Door(r) /\ Under(q) = Under(r)
    BY <2>1, <2>2, StageOf
  <2>4. call' = [call EXCEPT ![c] = q]
    BY <1>4 DEF TableInv, Types
  <2> HIDE DEF q
  <2>5. Moved(c, q)
    BY <2>3, <2>4, MovedTo DEF TableInv
  <2>6. (EntersBy(c, q) /\ q.kind = "register") \/ Finds(q)
    <3>1. CASE EntersBy(c, r)
      <4>1. Door(r) = r.kind /\ r.kind \in Entering
        BY <2>1, <3>1, Doors DEF EntersBy
      <4>2. r.kind = "register"
        BY <1>4, <4>1 DEF Entering
      <4> QED
        BY <2>3, <3>1, <4>2 DEF EntersBy
    <3>2. CASE Finds(r)
      BY <2>3, <3>2 DEF Finds
    <3>3. CASE PutsBack(r)
      <4>1. Door(r) = "internal"
        BY <2>1, <3>3, Doors
      <4> QED
        BY <1>4, <4>1
    <3> QED
      BY <2>1, <3>1, <3>2, <3>3 DEF Loads
  <2>7. Fits(c, q)
    BY <2>1, <2>3, <2>6 DEF Fits, Shape, GoesOn
  <2>8. StackStep(c, q)
    BY <1>1, <2>3 DEF StackStep, Running
  <2>9. meta' = [meta EXCEPT ![Under(q)] = Foretold(q)]
    <3>1. CASE Door(r) = "register"
      BY <1>4, <2>3, <3>1 DEF Foretold
    <3>2. CASE Door(r) = "order"
      <4>1. Foretold(q) = NoObject /\ Foretold(r) = NoObject
        BY <2>3, <3>2 DEF Foretold
      <4>2. meta' = meta
        BY <1>4, <3>2
      <4> QED
        BY <2>1, <2>3, <4>1, <4>2 DEF TableInv, Types
    <3> QED
      BY <1>4, <3>1, <3>2
  <2>10. Ahead(modules, q)
    BY <1>1, <2>1, <2>3 DEF Ahead
  <2>11. Owes(owed[c], q)
    BY <1>1, <2>1, <2>3 DEF Owes
  <2>12. UNCHANGED <<modules, inFlight, drains, hooked, live, owed>>
    BY <1>1, <1>4
  <2> QED
    BY <1>2, <2>3, <2>5, <2>7, <2>8, <2>9, <2>10, <2>11, <2>12, WaitStep
<1> QED
  <2>1. CASE /\ Door(r) = "register"
             /\ meta' = [meta EXCEPT ![Under(r)] = r.object]
             /\ call' = [call EXCEPT ![c].pc = "pending"]
             /\ UNCHANGED <<modules, inFlight, live, owed>>
    BY <1>4, <2>1
  <2>2. CASE /\ Door(r) = "order"
             /\ call' = [call EXCEPT ![c].pc = "pending"]
             /\ UNCHANGED <<tables, live, owed>>
    BY <1>4, <2>2 DEF tables
  <2> QED
    BY <1>3, <2>1, <2>2 DEF LoadWaits
----------------------------------------------------------------------------
(* Leaving the registry *)

\* unregister() and the deletion of a file take out what is there at once.
LEMMA OutAtOnce ==
  ASSUME TableInv, NEW c \in Callers, NEW id \in Ids, modules[id] # NoObject, Withdraw(id),
         NEW k \in {"unregister", "watch"}, call[c].pc = "idle",
         call' = [call EXCEPT ![c] = [NoCall EXCEPT !.kind = k, !.pc = "done"]],
         UNCHANGED <<inFlight, stack, hooked, owed>>
  PROVE  TableInv'
<1>1. PICK q : q = [NoCall EXCEPT !.kind = k, !.pc = "done"]
  OBVIOUS
<1>2. k \in AnyKind /\ k # "reload"
  BY Stages
<1>3. /\ q \in CallRecords /\ q.pc = "done" /\ q.todo = <<>> /\ Fits(c, q) /\ ~Running(q)
  BY <1>1, <1>2, Ended DEF TableInv
<1>4. Moved(c, q)
  BY <1>1, <1>3, MovedTo DEF TableInv
<1>5. ~Running(call[c]) /\ c \notin Loading /\ call[c].pc # "using" /\ owed[c] = {}
  BY DEF Running, Loading, TableInv, Debts, Owes
<1>6. owed' \in [Callers -> SUBSET Ids] /\ owed' = owed
  BY DEF TableInv, Types
<1>7. Owes(owed'[c], q)
  <2>1. owed'[c] = {}
    BY <1>5, <1>6
  <2> QED
    BY <1>3, <2>1 DEF Owes
<1> QED
  BY <1>3, <1>4, <1>5, <1>6, <1>7, WithdrawStep

LEMMA UnregisterStep ==
  ASSUME TableInv, NEW c \in Callers, NEW id \in Ids, UnregisterCall(c, id) \/ FileDeleted(c, id)
  PROVE  TableInv'
<1>1. CASE UnregisterCall(c, id)
  BY <1>1, OutAtOnce DEF UnregisterCall, MayStart
<1>2. CASE FileDeleted(c, id)
  BY <1>2, OutAtOnce DEF FileDeleted, MayStart, Visible
<1> QED
  BY <1>1, <1>2

LEMMA FileChangesStep ==
  ASSUME TableInv, Exclusive, NEW c \in Callers, NEW id \in Ids, FileChanges(c, id)
  PROVE  TableInv'
<1> DEFINE q == [NoCall EXCEPT !.kind = "watch", !.pc = "importing", !.id = id]
<1>1. "watch" \in AnyKind /\ "importing" \in CallStages
  BY Stages DEF CallStages
<1>2. /\ q \in CallRecords /\ q.kind = "watch" /\ q.pc = "importing" /\ q.todo = <<>>
      /\ q.old = NoModules /\ q.id = id
  BY <1>1, NoCallIsOne DEF CallRecords
<1>3. /\ MayStart(c, "watch") /\ call' = [call EXCEPT ![c] = q]
      /\ UNCHANGED <<tables, drains, stack, hooked, live, owed>>
  BY DEF FileChanges
<1> HIDE DEF q
<1>4. Shape(c, q) /\ Owes({}, q)
  BY <1>2 DEF Shape, Owes, Finding
<1>5. \A i \in Ids : q.old[i] = NoObject \/ q.old[i] = modules[i]
  BY <1>2, NoCallIsOne
<1>6. q.pc \notin {"idle", "loading", "pending", "told", "order", "using"}
  BY <1>2
<1> QED
  BY <1>2, <1>3, <1>4, <1>5, <1>6, StillStart

LEMMA HandleFileChangeStep ==
  ASSUME TableInv, NEW c \in Callers, HandleFileChange(c)
  PROVE  TableInv'
<1> DEFINE id == call[c].id
           q == Over(c)
<1>1. /\ call[c].pc = "importing" /\ stack = <<>> /\ call' = [call EXCEPT ![c] = q]
      /\ UNCHANGED <<inFlight, stack, hooked, owed>>
      /\ IF Visible(id) THEN Withdraw(id) ELSE UNCHANGED <<modules, meta, drains, live>>
  BY DEF HandleFileChange, Resumes
<1>2. /\ Shape(c, call[c]) /\ InProgress(c) /\ ~Running(call[c]) /\ c \notin Loading
      /\ call[c].pc # "using" /\ id \in Ids /\ call[c].kind # "reload"
  BY <1>1, Between DEF Shape, Finding
<1>3. /\ q \in CallRecords /\ q.pc = "done" /\ q.todo = <<>> /\ Fits(c, q) /\ ~Running(q)
      /\ q.kind = call[c].kind
  BY OverEnds DEF TableInv
<1>4. q.old = NoModules
  BY NoCallIsOne DEF Over, CallRecords
<1> HIDE DEF q
<1>5. Moved(c, q)
  BY <1>1, <1>3, MovedTo DEF TableInv
<1>6. Owes(owed[c], q)
  BY <1>2, <1>3 DEF Owes
<1>7. CASE Visible(id)
  <2>1. modules[id] # NoObject /\ Withdraw(id)
    BY <1>1, <1>7 DEF Visible
  <2>2. owed' \in [Callers -> SUBSET Ids] /\ owed' = owed
    BY <1>1 DEF TableInv, Types
  <2> QED
    BY <1>1, <1>2, <1>3, <1>5, <1>6, <2>1, <2>2, WithdrawStep
<1>8. CASE ~Visible(id)
  <2>1. UNCHANGED <<tables, drains, stack, hooked, live, owed>>
    BY <1>1, <1>8 DEF tables
  <2>2. Shape(c, q) /\ GoesOn(c, q)
    BY <1>3 DEF Fits
  <2> QED
    BY <1>1, <1>2, <1>3, <1>4, <1>6, <2>1, <2>2, StillTurn
<1> QED
  BY <1>7, <1>8
----------------------------------------------------------------------------
(* acquire(), release() and safeUnregister() *)

LEMMA AcquireStep ==
  ASSUME TableInv, Exclusive, NEW c \in Callers, NEW id \in Ids, Acquire(c, id)
  PROVE  TableInv'
<1> DEFINE q == [NoCall EXCEPT !.kind = "use", !.pc = "using", !.id = id, !.object = modules[id]]
<1>1. "use" \in AnyKind /\ "using" \in CallStages /\ modules[id] \in Holdings
  BY Stages DEF CallStages, TableInv, Types
<1>2. /\ q \in CallRecords /\ q.kind = "use" /\ q.pc = "using" /\ q.todo = <<>>
      /\ q.old = NoModules /\ q.id = id
  BY <1>1, NoCallIsOne DEF CallRecords
<1>3. /\ MayStart(c, "use") /\ call' = [call EXCEPT ![c] = q]
      /\ id \notin draining /\ refs' = [refs EXCEPT ![id] = @ + 1]
      /\ UNCHANGED <<tables, draining, waiters, stack, hooked, live, owed>>
  BY DEF Acquire
<1> HIDE DEF q
<1>4. Shape(c, q) /\ Owes({}, q)
  BY <1>2 DEF Shape, Owes, Finding
<1>5. \A i \in Ids : q.old[i] = NoObject \/ q.old[i] = modules[i]
  BY <1>2, NoCallIsOne
<1>6. Moved(c, q) /\ call[c].pc = "idle"
  BY <1>2, <1>3, MovedTo DEF TableInv, MayStart
<1>7. ASSUME NEW i \in Ids
      PROVE  /\ Users(i)' = IF i = id THEN Users(i) \cup {c} ELSE Users(i)
             /\ c \notin Users(i)
  <2>1. \A d \in Callers : d # c => (d \in Users(i)' <=> d \in Users(i))
    <3> SUFFICES ASSUME NEW d \in Callers, d # c PROVE d \in Users(i)' <=> d \in Users(i)
      OBVIOUS
    <3>1. /\ call'[d].pc = "using" <=> call[d].pc = "using"
          /\ call'[d].id = call[d].id
      BY <1>6, Unmoved DEF Alike, TableInv
    <3> QED
      BY <3>1 DEF Users
  <2>2. c \in Users(i)' <=> i = id
    BY <1>2, <1>6 DEF Users, Moved
  <2>3. c \notin Users(i)
    BY <1>6 DEF Users
  <2>4. Users(i) \subseteq Callers /\ Users(i)' \subseteq Callers
    BY DEF Users
  <2> QED
    BY <2>1, <2>2, <2>3, <2>4
<1>8. ASSUME NEW i \in Ids
      PROVE  /\ refs'[i] <= Cardinality(Users(i)')
             /\ waiters'[i] # {} => i \in draining' /\ refs'[i] >= 1
  <2>1. IsFiniteSet(Users(i)) /\ Cardinality(Users(i)) \in Nat /\ refs[i] \in Nat
    BY UsersFinite DEF TableInv, Types
  <2>2. CASE i = id
    <3>1. Users(i)' = Users(i) \cup {c} /\ c \notin Users(i)
      BY <1>7, <2>2
    <3>2. Cardinality(Users(i)') = Cardinality(Users(i)) + 1
      BY <2>1, <3>1, FS_AddElement
    <3>3. refs'[i] = refs[i] + 1
      BY <1>3, <2>2 DEF TableInv, Types
    <3>4. waiters'[i] = {}
      BY <1>3, <2>2 DEF TableInv, Counted
    <3> QED
      BY <2>1, <3>2, <3>3, <3>4 DEF TableInv, Counted
  <2>3. CASE i # id
    BY <1>3, <1>7, <2>3 DEF TableInv, Counted, Types
  <2> QED
    BY <2>2, <2>3
<1>9. Counted'
  BY <1>8 DEF Counted
<1>10. draining' \subseteq Ids /\ refs' \in [Ids -> Nat] /\ waiters' \in [Ids -> SUBSET Callers]
  BY <1>3 DEF TableInv, Types
<1>11. q.pc \notin {"idle", "loading", "pending", "told", "order"}
  BY <1>2
<1> QED
  BY <1>2, <1>3, <1>4, <1>5, <1>9, <1>10, <1>11, QuietStart

\* The calls that wait are woken and the rest stays.
LEMMA WokenMove ==
  ASSUME TableInv, NEW c \in Callers, NEW q \in CallRecords, NEW W \in SUBSET Callers,
         NEW f \in [Callers -> CallRecords], \A d \in Callers : d # c => f[d] = call[d],
         \/ c \notin Woken(W) /\ f[c] = q /\ call' = Wake(f, W)
         \/ call' = [d \in Callers |-> IF d = c THEN q ELSE Wake(f, W)[d]]
  PROVE  Moved(c, q)
<1>1. "drained" \in CallStages /\ TRUE \in BOOLEAN
  BY DEF CallStages
<1>2. ASSUME NEW d \in Callers
      PROVE  /\ Wake(f, W)[d] \in CallRecords
             /\ d \in Woken(W) => Wake(f, W)[d] = [f[d] EXCEPT !.pc = "drained", !.clean = TRUE]
             /\ d \notin Woken(W) => Wake(f, W)[d] = f[d]
  <2>1. PICK g \in CallRecords : g = f[d]
    OBVIOUS
  <2>2. [g EXCEPT !.pc = "drained", !.clean = TRUE] \in CallRecords
    BY <1>1 DEF CallRecords
  <2> QED
    BY <2>1, <2>2 DEF Wake
<1>3. call' \in [Callers -> CallRecords] /\ call'[c] = q
  BY <1>2 DEF Wake
<1>4. ASSUME NEW d \in Callers, d # c PROVE Alike(d)
  <2>1. call'[d] = Wake(f, W)[d] /\ f[d] = call[d] /\ call[d] \in CallRecords
    BY <1>4 DEF TableInv, Types
  <2>2. CASE d \in Woken(W)
    <3>1. call[d].pc = "draining"
      BY <2>2 DEF Woken
    <3>2. PICK g \in CallRecords : g = call[d]
      BY <2>1
    <3>3. call'[d] = [g EXCEPT !.pc = "drained", !.clean = TRUE]
      BY <1>2, <2>1, <2>2, <3>2
    <3> QED
      BY <3>1, <3>2, <3>3 DEF Alike, CallRecords
  <2>3. CASE d \notin Woken(W)
    BY <1>2, <2>1, <2>3 DEF Alike
  <2> QED
    BY <2>2, <2>3
<1> QED
  BY <1>3, <1>4 DEF Moved
LEMMA ReleaseStep ==
  ASSUME TableInv, NEW c \in Callers, Release(c)
  PROVE  TableInv'
<1> DEFINE q == Over(c)
           gone == [call EXCEPT ![c] = Over(c)]
<1>1. PICK id : id = call[c].id
  OBVIOUS
<1>2. /\ call[c].pc = "using" /\ refs' = [refs EXCEPT ![id] = Less(@)]
      /\ IF refs[id] = 1
         THEN call' = Wake(gone, waiters[id]) /\ waiters' = [waiters EXCEPT ![id] = {}]
         ELSE call' = gone /\ waiters' = waiters
      /\ UNCHANGED <<tables, draining, stack, hooked, live, owed>>
  BY <1>1 DEF Release
<1>3. /\ id \in Ids /\ call[c].kind # "reload" /\ InProgress(c) /\ ~Running(call[c])
      /\ c \notin Loading /\ call[c] \in CallRecords
  BY <1>1, <1>2 DEF TableInv, Types, Shapes, Shape, InProgress, Running, Loading, Finding
<1>4. /\ q \in CallRecords /\ q.pc = "done" /\ q.todo = <<>> /\ Fits(c, q)
      /\ q.kind = call[c].kind
  BY OverEnds DEF TableInv
<1>5. q.old = NoModules
  BY NoCallIsOne DEF Over, CallRecords
<1>6. Moved(c, q)
  <2>1. CASE refs[id] = 1
    <3>1. waiters[id] \in SUBSET Callers /\ c \notin Woken(waiters[id])
      BY <1>2, <1>3 DEF TableInv, Types, Woken
    <3>2. /\ gone \in [Callers -> CallRecords] /\ gone[c] = q
          /\ \A d \in Callers : d # c => gone[d] = call[d]
      BY <1>4 DEF TableInv, Types
    <3>3. call' = Wake(gone, waiters[id])
      BY <1>2, <2>1
    <3> HIDE DEF q, gone
    <3> QED
      BY <1>4, <3>1, <3>2, <3>3, WokenMove
  <2>2. CASE refs[id] # 1
    <3>1. call' = [call EXCEPT ![c] = q]
      BY <1>2, <2>2
    <3> HIDE DEF q, gone
    <3> QED
      BY <1>4, <3>1, MovedTo DEF TableInv
  <2> QED
    BY <2>1, <2>2
<1> HIDE DEF q, gone
<1>7. ASSUME NEW i \in Ids
      PROVE  Users(i)' = Users(i) \ {c} /\ (c \in Users(i) <=> i = id)
  <2>1. \A d \in Callers : d # c => (d \in Users(i)' <=> d \in Users(i))
    <3> SUFFICES ASSUME NEW d \in Callers, d # c PROVE d \in Users(i)' <=> d \in Users(i)
      OBVIOUS
    <3>1. /\ call'[d].pc = "using" <=> call[d].pc = "using"
          /\ call'[d].id = call[d].id
      BY <1>6, Unmoved DEF Alike, TableInv
    <3> QED
      BY <3>1 DEF Users
  <2>2. c \notin Users(i)'
    BY <1>4, <1>6 DEF Users, Moved
  <2>3. c \in Users(i) <=> i = id
    BY <1>1, <1>2 DEF Users
  <2>4. Users(i) \subseteq Callers /\ Users(i)' \subseteq Callers
    BY DEF Users
  <2> QED
    BY <2>1, <2>2, <2>3, <2>4
<1>8. ASSUME NEW i \in Ids
      PROVE  /\ refs'[i] <= Cardinality(Users(i)')
             /\ waiters'[i] # {} => i \in draining' /\ refs'[i] >= 1
  <2>1. /\ IsFiniteSet(Users(i)) /\ Cardinality(Users(i)) \in Nat /\ refs[i] \in Nat
        /\ refs[i] <= Cardinality(Users(i))
        /\ waiters[i] # {} => i \in draining /\ refs[i] >= 1
    BY UsersFinite DEF TableInv, Types, Counted
  <2>2. CASE i = id
    <3>1. Users(i)' = Users(i) \ {c} /\ c \in Users(i)
      BY <1>7, <2>2
    <3>2. Cardinality(Users(i)') = Cardinality(Users(i)) - 1
      BY <2>1, <3>1, FS_RemoveElement
    <3>3. Cardinality(Users(i)') \in Nat
      <4>1. IsFiniteSet(Users(i)')
        BY <2>1, <3>1, FS_RemoveElement
      <4> QED
        BY <4>1, FS_CardinalityType
    <3>4. refs'[i] = IF refs[i] = 0 THEN 0 ELSE refs[i] - 1
      BY <1>2, <2>2 DEF TableInv, Types, Less
    <3>5. refs'[i] <= Cardinality(Users(i)')
      BY <2>1, <3>2, <3>3, <3>4
    <3>6. waiters'[i] # {} => waiters[i] # {} /\ refs[i] # 1
      BY <1>2, <2>2 DEF TableInv, Types
    <3> QED
      BY <1>2, <2>1, <3>4, <3>5, <3>6
  <2>3. CASE i # id
    <3>1. Users(i)' = Users(i)
      BY <1>7, <2>3
    <3>2. refs'[i] = refs[i] /\ waiters'[i] = waiters[i] /\ draining' = draining
      BY <1>2, <2>3 DEF TableInv, Types
    <3> QED
      BY <2>1, <3>1, <3>2
  <2> QED
    BY <2>2, <2>3
<1>9. Counted'
  BY <1>8 DEF Counted
<1>10. draining' \subseteq Ids /\ waiters' \in [Ids -> SUBSET Callers]
  BY <1>2, <1>3 DEF TableInv, Types
<1>11. refs' \in [Ids -> Nat]
  <2>1. Less(refs[id]) \in Nat
    BY <1>3 DEF TableInv, Types, Less
  <2> QED
    BY <1>2, <2>1 DEF TableInv, Types
<1>12. Shape(c, q) /\ GoesOn(c, q) /\ Owes(owed[c], q)
  BY <1>3, <1>4 DEF Fits, Owes
<1>13. q.pc \notin {"idle", "loading", "pending", "told", "order"} /\ q.old \in {call[c].old, NoModules}
  BY <1>4, <1>5
<1> QED
  BY <1>2, <1>3, <1>4, <1>6, <1>9, <1>10, <1>11, <1>12, <1>13, QuietTurn

\* The synchronous part of a safeUnregister().
LEMMA DrainStep ==
  ASSUME TableInv, NEW c \in Callers, NEW r \in CallRecords, Drain(c, r),
         r.kind \in Finding \cup {"safe"}, r.at \in 1..Len(r.targets), r.todo = <<>>,
         GoesOn(c, r), r.pc # "done",
         \A id \in Ids : \/ r.old[id] = NoObject \/ r.old[id] = call[c].old[id]
                         \/ r.old[id] = modules[id],
         r.kind = "reload" => /\ Len(r.targets) = 1 /\ r.old[r.targets[1]] # NoObject
                              /\ owed[c] \subseteq {r.targets[1]},
         ~Running(call[c]), c \notin Loading, call[c].pc # "using",
         UNCHANGED <<tables, refs, stack, hooked, live, owed>>
  PROVE  TableInv'
<1>1. PICK id \in Ids : id = r.targets[r.at]
  BY Fields, IdSeq
<1>2. \E p \in {"unloaded", "drained", "draining"}, clean \in BOOLEAN :
        call' = [call EXCEPT ![c] = [r EXCEPT !.pc = p, !.clean = clean]]
  BY DEF Drain
<1>3. PICK p \in {"unloaded", "drained", "draining"}, clean \in BOOLEAN :
        call' = [call EXCEPT ![c] = [r EXCEPT !.pc = p, !.clean = clean]]
  BY <1>2, Zenon
<1>4. PICK q : q = [r EXCEPT !.pc = p, !.clean = clean]
  OBVIOUS
<1>5. /\ q \in CallRecords /\ q.pc = p /\ q.kind = r.kind /\ q.id = r.id /\ q.todo = <<>>
      /\ q.targets = r.targets /\ q.at = r.at /\ q.old = r.old
  BY <1>4 DEF CallRecords, CallStages
<1>6. Moved(c, q)
  BY <1>3, <1>4, <1>5, MovedTo DEF TableInv
<1>7. Fits(c, q)
  BY <1>5 DEF Fits, Shape, GoesOn
<1>8. StackStep(c, q)
  BY <1>5 DEF StackStep, Running
<1>9. Ahead(modules, q) /\ Owes(owed[c], q)
  BY <1>5, EmptySeq DEF Ahead, Owes
<1>10. q.pc \notin {"loading", "pending", "using"}
  BY <1>5
<1>11. /\ draining' \subseteq Ids /\ waiters' \in [Ids -> SUBSET Callers]
       /\ \A i \in Ids : i \in draining => i \in draining'
       /\ \A i \in Ids : \/ waiters'[i] = waiters[i]
                         \/ i = id /\ id \in draining' /\ refs[id] # 0
  BY <1>1 DEF Drain, TableInv, Types
<1>12. Counted'
  <2>1. \A i \in Ids : Users(i)' = Users(i)
    BY <1>6, <1>10, UsersKept DEF TableInv
  <2>2. refs' = refs /\ \A i \in Ids : refs[i] \in Nat
    BY DEF TableInv, Types
  <2> QED
    BY <1>11, <2>1, <2>2 DEF TableInv, Counted
<1>13. refs' \in [Ids -> Nat]
  BY DEF TableInv, Types
<1>14. UNCHANGED <<tables, hooked, live, owed>>
  OBVIOUS
<1> QED
  BY <1>6, <1>7, <1>8, <1>9, <1>10, <1>11, <1>12, <1>13, <1>14, QuietStep
LEMMA SafeUnregisterStep ==
  ASSUME TableInv, Exclusive, NEW c \in Callers, NEW id \in Ids, SafeUnregisterCall(c, id)
  PROVE  TableInv'
<1>1. PICK r : r = [NoCall EXCEPT !.kind = "safe", !.targets = <<id>>, !.at = 1]
  OBVIOUS
<1>2. /\ r \in CallRecords /\ r.kind = "safe" /\ r.targets = <<id>> /\ r.at = 1 /\ r.todo = <<>>
      /\ r.old = NoModules /\ r.pc = "idle"
  <2>1. "safe" \in AnyKind /\ <<id>> \in Seq(Ids)
    BY Stages
  <2> QED
    BY <1>1, <2>1, NoCallIsOne DEF CallRecords
<1>3. /\ MayStart(c, "safe") /\ Drain(c, r)
      /\ UNCHANGED <<tables, refs, stack, hooked, live, owed>>
  BY <1>1 DEF SafeUnregisterCall
<1>4. /\ GoesOn(c, r) /\ ~Running(call[c]) /\ c \notin Loading /\ call[c].pc # "using"
  BY <1>2, <1>3, Starter DEF MayStart
<1>5. r.at \in 1..Len(r.targets)
  BY <1>2
<1>6. \A i \in Ids : r.old[i] = NoObject
  BY <1>2, NoCallIsOne
<1> QED
  BY <1>2, <1>3, <1>4, <1>5, <1>6, DrainStep DEF Finding

LEMMA ReloadStep ==
  ASSUME TableInv, Exclusive, NEW c \in Callers, NEW id \in Ids, ReloadCall(c, id)
  PROVE  TableInv'
<1>1. PICK old : old = [NoModules EXCEPT ![id] = Get(id)]
  OBVIOUS
<1>2. PICK r : r = [NoCall EXCEPT !.kind = "reload", !.targets = <<id>>, !.at = 1, !.old = old]
  OBVIOUS
<1>3. /\ MayStart(c, "reload") /\ Drain(c, r) /\ Get(id) # NoObject
      /\ UNCHANGED <<tables, refs, stack, hooked, live, owed>>
  BY <1>1, <1>2 DEF ReloadCall
<1>4. Get(id) = modules[id] /\ modules[id] \in Holdings /\ modules[id] # NoObject
  BY <1>3 DEF Get, TableInv, Types
<1>5. /\ old \in [Ids -> Holdings] /\ old[id] # NoObject
      /\ \A i \in Ids : old[i] = NoObject \/ old[i] = modules[i]
  BY <1>1, <1>4, NoCallIsOne
<1>6. /\ r \in CallRecords /\ r.kind = "reload" /\ r.targets = <<id>> /\ r.at = 1 /\ r.todo = <<>>
      /\ r.old = old /\ r.pc = "idle"
  <2>1. "reload" \in AnyKind /\ <<id>> \in Seq(Ids)
    BY Stages
  <2> QED
    BY <1>2, <1>5, <2>1, NoCallIsOne DEF CallRecords
<1>7. /\ GoesOn(c, r) /\ ~Running(call[c]) /\ c \notin Loading /\ call[c].pc # "using"
      /\ owed[c] = {}
  BY <1>3, <1>6, Starter DEF MayStart
<1>8. r.at \in 1..Len(r.targets) /\ Len(r.targets) = 1 /\ r.targets[1] = id
  BY <1>6
<1>9. r.kind \in Finding \cup {"safe"}
  BY <1>6 DEF Finding
<1> QED
  BY <1>3, <1>5, <1>6, <1>7, <1>8, <1>9, DrainStep

LEMMA ReloadAllStep ==
  ASSUME TableInv, Exclusive, NEW c \in Callers, ReloadAllCall(c)
  PROVE  TableInv'
<1>1. PICK match \in SUBSET {id \in Ids : modules[id] # NoObject} : \E order \in Orders(match) :
        /\ match # {}
        /\ Drain(c, [NoCall EXCEPT !.kind = "reloadAll", !.targets = order, !.at = 1,
                     !.old = [id \in Ids |-> IF id \in match THEN Get(id) ELSE NoObject]])
  BY DEF ReloadAllCall
<1>2. PICK order \in Orders(match) :
        /\ match # {}
        /\ Drain(c, [NoCall EXCEPT !.kind = "reloadAll", !.targets = order, !.at = 1,
                     !.old = [id \in Ids |-> IF id \in match THEN Get(id) ELSE NoObject]])
  BY <1>1, Zenon
<1>3. PICK old : old = [id \in Ids |-> IF id \in match THEN Get(id) ELSE NoObject]
  OBVIOUS
<1>4. PICK r : r = [NoCall EXCEPT !.kind = "reloadAll", !.targets = order, !.at = 1, !.old = old]
  OBVIOUS
<1>5. /\ old \in [Ids -> Holdings] /\ \A i \in Ids : old[i] = NoObject \/ old[i] = modules[i]
  <2>1. \A i \in Ids : modules[i] \in Holdings
    BY DEF TableInv, Types
  <2> QED
    BY <1>3, <2>1, Objects DEF Get
<1>6. order \in Seq(Ids) /\ Len(order) = Cardinality(match) /\ Len(order) \in Nat
  BY OrdersAreSeqs
<1>7. Len(order) >= 1
  <2>1. IsFiniteSet(match)
    BY RegistryAssumption, FS_Subset
  <2>2. Cardinality(match) # 0
    BY <1>2, <2>1, FS_EmptySet
  <2> QED
    BY <1>6, <2>2
<1>8. /\ r \in CallRecords /\ r.kind = "reloadAll" /\ r.targets = order /\ r.at = 1
      /\ r.todo = <<>> /\ r.old = old /\ r.pc = "idle"
  <2>1. "reloadAll" \in AnyKind
    BY Stages
  <2> QED
    BY <1>4, <1>5, <1>6, <2>1, NoCallIsOne DEF CallRecords
<1>9. /\ MayStart(c, "reloadAll") /\ Drain(c, r)
      /\ UNCHANGED <<tables, refs, stack, hooked, live, owed>>
  BY <1>2, <1>3, <1>4 DEF ReloadAllCall
<1>10. /\ GoesOn(c, r) /\ ~Running(call[c]) /\ c \notin Loading /\ call[c].pc # "using"
  BY <1>8, <1>9, Starter DEF MayStart
<1>11. r.at \in 1..Len(r.targets) /\ r.kind \in Finding \cup {"safe"} /\ r.kind # "reload"
  BY <1>6, <1>7, <1>8 DEF Finding
<1> QED
  BY <1>5, <1>8, <1>9, <1>10, <1>11, DrainStep

LEMMA DrainTimesOutStep ==
  ASSUME TableInv, NEW c \in Callers, DrainTimesOut(c)
  PROVE  TableInv'
<1>1. /\ call[c].pc = "draining" /\ call' = [call EXCEPT ![c].pc = "drained"]
      /\ UNCHANGED <<tables, drains, stack, hooked, live, owed>>
  BY DEF DrainTimesOut, Resumes
<1>2. /\ call[c] \in CallRecords /\ Shape(c, call[c]) /\ InProgress(c)
      /\ ~Running(call[c]) /\ c \notin Loading /\ call[c].pc # "using"
      /\ call[c].todo = <<>> /\ Owes(owed[c], call[c])
  BY <1>1, Between
<1>3. "drained" \in CallStages
  BY DEF CallStages
<1> DEFINE q == [call[c] EXCEPT !.pc = "drained"]
<1>4. /\ q \in CallRecords /\ q.pc = "drained" /\ q.kind = call[c].kind /\ q.id = call[c].id
      /\ q.todo = call[c].todo /\ q.targets = call[c].targets /\ q.at = call[c].at
      /\ q.old = call[c].old
  BY <1>2, <1>3, StageOf
<1>5. call' = [call EXCEPT ![c] = q]
  BY <1>1 DEF TableInv, Types
<1> HIDE DEF q
<1>6. Shape(c, q) /\ GoesOn(c, q) /\ Owes(owed[c], q)
  BY <1>1, <1>2, <1>4 DEF Shape, GoesOn, Owes
<1> QED
  BY <1>1, <1>2, <1>4, <1>5, <1>6, StillTurn

LEMMA UnloadStep ==
  ASSUME TableInv, NEW c \in Callers, Unload(c)
  PROVE  TableInv'
<1>1. PICK id : id = call[c].targets[call[c].at]
  OBVIOUS
<1>2. /\ call[c].pc = "drained"
      /\ call' = [Wake(call, waiters[id]) EXCEPT ![c].pc = "unloaded"]
      /\ IF modules[id] # NoObject
         THEN /\ Withdraw(id)
              /\ owed' = [owed EXCEPT ![c] = IF call[c].kind = "safe" THEN @ ELSE @ \cup {id}]
         ELSE /\ draining' = draining \ {id}
              /\ waiters' = [waiters EXCEPT ![id] = {}]
              /\ refs' = [refs EXCEPT ![id] = 0]
              /\ UNCHANGED <<modules, meta, live, owed>>
      /\ UNCHANGED <<inFlight, stack, hooked>>
  BY <1>1 DEF Unload, Resumes
<1>3. /\ call[c] \in CallRecords /\ Shape(c, call[c]) /\ InProgress(c)
      /\ ~Running(call[c]) /\ c \notin Loading /\ call[c].pc # "using"
      /\ call[c].todo = <<>> /\ Owes(owed[c], call[c])
  BY <1>2, Between
<1>4. id \in Ids /\ call[c].at \in 1..Len(call[c].targets)
  BY <1>1, <1>2, <1>3, Fields, IdSeq DEF Shape
<1>5. "unloaded" \in CallStages
  BY DEF CallStages
<1> DEFINE q == [call[c] EXCEPT !.pc = "unloaded"]
<1>6. /\ q \in CallRecords /\ q.pc = "unloaded" /\ q.kind = call[c].kind /\ q.id = call[c].id
      /\ q.todo = call[c].todo /\ q.targets = call[c].targets /\ q.at = call[c].at
      /\ q.old = call[c].old
  BY <1>3, <1>5, StageOf
<1>7. Moved(c, q)
  <2>1. waiters[id] \in SUBSET Callers /\ call \in [Callers -> CallRecords]
    BY <1>4 DEF TableInv, Types
  <2>2. c \notin Woken(waiters[id])
    BY <1>2 DEF Woken
  <2>3. call' = [d \in Callers |-> IF d = c THEN q ELSE Wake(call, waiters[id])[d]]
    <3>1. Wake(call, waiters[id])[c] = call[c]
      BY <2>2 DEF Wake
    <3>2. PICK w : w = Wake(call, waiters[id])
      OBVIOUS
    <3>3. w = [d \in Callers |-> w[d]]
      BY <3>2 DEF Wake
    <3> QED
      BY <1>2, <3>1, <3>2, <3>3
  <2> HIDE DEF q
  <2> QED
    BY <1>6, <2>1, <2>3, WokenMove
<1> HIDE DEF q
<1>8. GoesOn(c, q) /\ Shape(c, q)
  BY <1>2, <1>3, <1>6 DEF GoesOn, Shape
<1>9. Fits(c, q)
  BY <1>6, <1>8 DEF Fits
<1>10. ~Running(q) /\ q.pc \notin {"using", "pending"} /\ q.todo = <<>>
  BY <1>3, <1>6 DEF Running
<1>11. CASE modules[id] # NoObject
  <2>1. /\ Withdraw(id)
        /\ owed' = [owed EXCEPT ![c] = IF call[c].kind = "safe" THEN @ ELSE @ \cup {id}]
        /\ UNCHANGED <<inFlight, stack, hooked>>
    BY <1>2, <1>11
  <2>2. /\ owed' \in [Callers -> SUBSET Ids] /\ \A d \in Callers : d # c => owed'[d] = owed[d]
        /\ owed'[c] \subseteq owed[c] \cup {id}
    BY <1>4, <2>1 DEF TableInv, Types
  <2>3. Owes(owed'[c], q)
    <3>1. CASE q.kind = "reload"
      <4>1. /\ Len(call[c].targets) = 1 /\ owed[c] \subseteq {call[c].targets[1]}
            /\ call[c].old[call[c].targets[1]] # NoObject
        BY <1>2, <1>3, <1>6, <3>1 DEF Owes
      <4>2. id = call[c].targets[1]
        BY <1>1, <1>4, <4>1
      <4> QED
        BY <1>6, <2>2, <4>1, <4>2 DEF Owes
    <3>2. CASE q.kind # "reload"
      BY <1>6, <3>2 DEF Owes
    <3> QED
      BY <3>1, <3>2
  <2> QED
    BY <1>3, <1>4, <1>7, <1>9, <1>10, <1>11, <2>1, <2>2, <2>3, WithdrawStep
<1>12. CASE modules[id] = NoObject
  <2>1. /\ draining' = draining \ {id} /\ waiters' = [waiters EXCEPT ![id] = {}]
        /\ refs' = [refs EXCEPT ![id] = 0]
        /\ UNCHANGED <<tables, stack, hooked, live, owed>>
    BY <1>2, <1>12 DEF tables
  <2>2. Counted' /\ draining' \subseteq Ids /\ refs' \in [Ids -> Nat] /\ waiters' \in [Ids -> SUBSET Callers]
    BY <1>3, <1>4, <1>7, <1>10, <2>1, CountedForgotten DEF TableInv
  <2>3. Owes(owed[c], q)
    BY <1>2, <1>3, <1>6 DEF Owes
  <2>4. q.pc \notin {"idle", "loading", "pending", "told", "order"} /\ q.old \in {call[c].old, NoModules}
    BY <1>6
  <2> QED
    BY <1>3, <1>7, <1>8, <1>10, <2>1, <2>2, <2>3, <2>4, QuietTurn
<1> QED
  BY <1>11, <1>12

LEMMA UnloadedStep ==
  ASSUME TableInv, NEW c \in Callers, Unloaded(c)
  PROVE  TableInv'
<1> DEFINE r == call[c]
<1>1. r.pc = "unloaded" /\ UNCHANGED <<tables, refs, stack, hooked, live, owed>>
  BY DEF Unloaded, Resumes
<1>2. /\ r \in CallRecords /\ Shape(c, r) /\ InProgress(c)
      /\ ~Running(r) /\ c \notin Loading /\ r.pc # "using"
      /\ r.todo = <<>> /\ Owes(owed[c], r) /\ r.kind \in Finding \cup {"safe"}
  BY <1>1, Between
<1>3. r.at \in 1..Len(r.targets) /\ r.at \in Nat /\ Len(r.targets) \in Nat
  BY <1>1, <1>2, Fields, IdSeq DEF Shape
<1>4. CASE /\ r.kind = "safe" /\ call' = [call EXCEPT ![c] = Over(c)]
           /\ UNCHANGED <<draining, waiters>>
  <2> DEFINE q == Over(c)
  <2>1. /\ q \in CallRecords /\ q.pc = "done" /\ q.todo = <<>> /\ Fits(c, q)
        /\ q.kind = r.kind
    BY OverEnds DEF TableInv
  <2>2. q.old = NoModules
    BY NoCallIsOne DEF Over, CallRecords
  <2>3. call' = [call EXCEPT ![c] = q]
    BY <1>4
  <2> HIDE DEF q
  <2>4. Shape(c, q) /\ GoesOn(c, q) /\ Owes(owed[c], q)
    BY <1>4, <2>1 DEF Fits, Owes
  <2>5. UNCHANGED <<tables, drains, stack, hooked, live, owed>>
    BY <1>1, <1>4 DEF drains
  <2> QED
    BY <1>2, <2>1, <2>2, <2>3, <2>4, <2>5, StillTurn
<1>5. CASE r.kind # "safe" /\ r.at < Len(r.targets) /\ Drain(c, [r EXCEPT !.at = @ + 1])
  <2>1. PICK s : s = [r EXCEPT !.at = @ + 1]
    OBVIOUS
  <2>2. /\ s \in CallRecords /\ s.kind = r.kind /\ s.id = r.id /\ s.todo = <<>> /\ s.pc = r.pc
        /\ s.targets = r.targets /\ s.at = r.at + 1 /\ s.old = r.old
    BY <1>2, <1>3, <2>1 DEF CallRecords
  <2>3. Drain(c, s)
    BY <1>5, <2>1
  <2>4. s.at \in 1..Len(s.targets) /\ GoesOn(c, s) /\ s.pc # "done"
    BY <1>1, <1>2, <1>3, <1>5, <2>2 DEF GoesOn
  <2>5. s.kind = "reload" => /\ Len(s.targets) = 1 /\ s.old[s.targets[1]] # NoObject
                             /\ owed[c] \subseteq {s.targets[1]}
    BY <1>1, <1>2, <2>2 DEF Owes
  <2>6. \A i \in Ids : s.old[i] = call[c].old[i]
    BY <2>2
  <2>7. s.kind \in Finding \cup {"safe"}
    BY <1>2, <2>2
  <2> QED
    BY <1>1, <1>2, <2>2, <2>3, <2>4, <2>5, <2>6, <2>7, DrainStep
<1>6. CASE /\ r.kind # "safe" /\ call' = [call EXCEPT ![c].pc = "scanning"]
           /\ UNCHANGED <<draining, waiters>>
  <2>1. "scanning" \in CallStages
    BY DEF CallStages
  <2> DEFINE q == [call[c] EXCEPT !.pc = "scanning"]
  <2>2. /\ q \in CallRecords /\ q.pc = "scanning" /\ q.kind = call[c].kind /\ q.id = call[c].id
        /\ q.todo = call[c].todo /\ q.targets = call[c].targets /\ q.at = call[c].at
        /\ q.old = call[c].old
    BY <1>2, <2>1, StageOf
  <2>3. call' = [call EXCEPT ![c] = q]
    BY <1>6 DEF TableInv, Types
  <2> HIDE DEF q
  <2>4. Shape(c, q) /\ GoesOn(c, q) /\ Owes(owed[c], q)
    BY <1>1, <1>2, <1>6, <2>2 DEF Shape, GoesOn, Owes
  <2>5. UNCHANGED <<tables, drains, stack, hooked, live, owed>>
    BY <1>1, <1>6 DEF drains
  <2> QED
    BY <1>2, <2>2, <2>3, <2>4, <2>5, StillTurn
<1> QED
  BY <1>4, <1>5, <1>6 DEF Unloaded
----------------------------------------------------------------------------
(* Putting back *)

LEMMA LeastIsOne ==
  ASSUME NEW T \in SUBSET Nat, T # {}
  PROVE  (CHOOSE i \in T : \A j \in T : i <= j) \in T
<1>1. PICK n \in T : \A k \in T : ~(<<k, n>> \in OpToRel(<, Nat))
  BY NatLessThanWellFounded, WFMin
<1>2. \A k \in T : ~(k < n)
  BY <1>1 DEF OpToRel
<1>3. \A k \in T : n <= k
  BY <1>2
<1> QED
  BY <1>3

LEMMA RestoringStep ==
  ASSUME TableInv, NEW c \in Callers, NEW r \in CallRecords, NEW from \in Nat,
         from >= 1, Restore(c, r, from), UNCHANGED <<drains, hooked>>,
         call[c].pc \in {"found", "failed"} \/ (call[c].pc = "told" /\ OnTop(c)),
         call[c].todo = <<>>, from = 1 \/ call[c].pc = "told",
         r.kind = call[c].kind, r.pc = call[c].pc, r.id = call[c].id, r.todo = <<>>,
         r.old = call[c].old, r.targets = call[c].targets
  PROVE  TableInv'
<1>1. /\ call[c].kind \in Finding /\ InProgress(c) /\ c \notin Loading /\ call[c].pc # "using"
      /\ Owes(owed[c], call[c])
      /\ (OnTop(c) \/ ~Running(call[c]))
  BY DEF TableInv, Shapes, Shape, InProgress, Loading, Debts, Running
<1>2. call[c].pc \notin {"idle", "done"}
  OBVIOUS
<1>3. inFlight = {}
  BY <1>1, NobodyElseLoads
<1>4. /\ r.targets \in Seq(Ids) /\ Len(r.targets) \in Nat
      /\ \A i \in 1..Len(r.targets) : r.targets[i] \in Ids
      /\ r.old \in [Ids -> Holdings]
  BY Fields, IdSeq
<1>5. ASSUME r.kind = "reload"
      PROVE  /\ Len(r.targets) = 1 /\ r.old[r.targets[1]] # NoObject
             /\ owed[c] \subseteq {r.targets[1]} /\ r.targets[1] \in Ids
             /\ modules[r.targets[1]] # NoObject => owed[c] = {}
             /\ from # 1 => owed[c] = {}
  <2>1. /\ Len(r.targets) = 1 /\ r.old[r.targets[1]] # NoObject
        /\ owed[c] \subseteq {r.targets[1]}
        /\ (call[c].pc = "told" => owed[c] = {})
    BY <1>1, <1>2, <1>5 DEF Owes
  <2>2. \A id \in owed[c] : modules[id] = NoObject
    BY DEF TableInv, Debts
  <2>3. r.targets[1] \in Ids
    BY <1>4, <2>1
  <2> QED
    BY <2>1, <2>2, <2>3
<1>6. Over(c).pc = "done" /\ Over(c).kind = r.kind
  BY OverEnds DEF TableInv
<1>7. CASE ToRestore(r, from) = {}
  <2> DEFINE q == Over(c)
  <2>1. /\ q \in CallRecords /\ q.pc = "done" /\ Fits(c, q) /\ ~Running(q) /\ Ahead(modules, q)
    BY OverEnds DEF TableInv
  <2>2. /\ call' = [call EXCEPT ![c] = q] /\ stack' = StackLess(c)
        /\ UNCHANGED <<tables, live, owed>>
    BY <1>7 DEF Restore
  <2>3. Owes(owed[c], q)
    <3>1. CASE r.kind = "reload"
      <4>1. owed[c] = {}
        <5>1. CASE from # 1
          BY <1>5, <3>1, <5>1
        <5>2. CASE from = 1
          <6>1. 1 \in from..Len(r.targets) /\ r.old[r.targets[1]] # NoObject
            BY <1>5, <3>1, <5>2
          <6>2. Get(r.targets[1]) # NoObject
            BY <1>7, <6>1 DEF ToRestore
          <6>3. modules[r.targets[1]] # NoObject
            BY <6>2 DEF Get
          <6> QED
            BY <1>5, <3>1, <6>3
        <5> QED
          BY <5>1, <5>2
      <4> QED
        BY <1>6, <4>1 DEF Owes
    <3>2. CASE r.kind # "reload"
      BY <1>6, <3>2 DEF Owes
    <3> QED
      BY <3>1, <3>2
  <2> HIDE DEF q
  <2>4. Moved(c, q)
    BY <2>1, <2>2, MovedTo DEF TableInv
  <2>5. StackStep(c, q)
    BY <1>1, <2>1, <2>2 DEF StackStep, StackLess
  <2>6. Counted'
    BY <1>1, <2>1, <2>4, CountedKept DEF TableInv
  <2>7. draining' \subseteq Ids /\ refs' \in [Ids -> Nat] /\ waiters' \in [Ids -> SUBSET Callers]
    BY DEF drains, TableInv, Types
  <2>8. UNCHANGED <<tables, hooked, live, owed>> /\ q.pc \notin {"loading", "pending"}
    BY <2>1, <2>2
  <2> QED
    BY <1>1, <2>1, <2>3, <2>4, <2>5, <2>6, <2>7, <2>8, QuietStep
<1>8. CASE ToRestore(r, from) # {}
  <2> DEFINE T == ToRestore(r, from)
  <2>1. T \in SUBSET Nat
    BY <1>4 DEF ToRestore
  <2>2. PICK i \in T : i = CHOOSE k \in T : \A j \in T : k <= j
    BY <1>8, <2>1, LeastIsOne
  <2>3. /\ i \in 1..Len(r.targets) /\ i \in Nat /\ r.targets[i] \in Ids
        /\ r.old[r.targets[i]] # NoObject /\ r.old[r.targets[i]] \in Holdings
    <3>1. i \in T
      OBVIOUS
    <3>2. i \in from..Len(r.targets) /\ r.old[r.targets[i]] # NoObject
      BY <3>1 DEF ToRestore
    <3>3. i \in 1..Len(r.targets) /\ i \in Nat
      BY <1>4, <3>2
    <3> QED
      BY <1>4, <3>2, <3>3
  <2>4. PICK s : s = [r EXCEPT !.at = i, !.object = r.old[r.targets[i]]]
    OBVIOUS
  <2>5. /\ s \in CallRecords /\ s.kind = r.kind /\ s.id = r.id /\ s.todo = <<>> /\ s.pc = r.pc
        /\ s.targets = r.targets /\ s.at = i /\ s.old = r.old
        /\ s.object = r.old[r.targets[i]]
    BY <2>3, <2>4 DEF CallRecords
  <2>6. EnterChecked(c, s)
    BY <1>8, <2>2, <2>4 DEF Restore
  <2>7. PutsBack(s) /\ Under(s) = r.targets[i]
    <3>1. PutsBack(s)
      BY <1>1, <2>3, <2>5 DEF PutsBack
    <3> QED
      BY <2>5, <3>1, Doors
  <2> DEFINE q == [s EXCEPT !.pc = "loading"]
  <2>8. q.pc = "loading" /\ q.todo = <<>> /\ q.kind = r.kind /\ q.targets = r.targets /\ q.old = r.old
    <3>1. "loading" \in CallStages
      BY DEF CallStages
    <3> QED
      BY <2>5, <3>1, StageOf
  <2> HIDE DEF q
  <2>9. Ahead(modules, q) /\ Owes(owed[c], q)
    BY <1>5, <2>8, EmptySeq DEF Ahead, Owes
  <2>10. GoesOn(c, s)
    BY <1>1, <2>5 DEF GoesOn
  <2>11. Ready(c, s)
    BY <1>1, <1>2, <2>5, <2>7, <2>9, <2>10 DEF Ready, Loads, q
  <2>12. Conflict(Under(s)) => Owes(owed[c], Over(c))
    <3>1. CASE r.kind = "reload"
      <4>1. i = 1
        BY <1>5, <2>3, <3>1
      <4> QED
        BY <1>3, <1>5, <1>6, <2>7, <3>1, <4>1 DEF Conflict, Owes
    <3>2. CASE r.kind # "reload"
      BY <1>6, <3>2 DEF Owes
    <3> QED
      BY <3>1, <3>2
  <2> QED
    BY <2>6, <2>11, <2>12, CheckedStep
<1> QED
  BY <1>7, <1>8

LEMMA RestoreSteps ==
  ASSUME TableInv, NEW c \in Callers, BeginRestore(c) \/ RestoreNext(c)
  PROVE  TableInv'
<1>1. call[c] \in CallRecords /\ Shape(c, call[c])
  BY DEF TableInv, Types, Shapes
<1>2. CASE BeginRestore(c)
  <2>1. PICK r : r = [call[c] EXCEPT !.clean = call[c].pc = "found"]
    OBVIOUS
  <2>2. /\ call[c].pc \in {"found", "failed"} /\ Restore(c, r, 1) /\ UNCHANGED <<drains, hooked>>
    BY <1>2, <2>1 DEF BeginRestore, Resumes
  <2>3. call[c].todo = <<>>
    BY <2>2, Between
  <2>4. /\ r \in CallRecords /\ r.kind = call[c].kind /\ r.pc = call[c].pc /\ r.id = call[c].id
        /\ r.todo = call[c].todo /\ r.old = call[c].old /\ r.targets = call[c].targets
    <3>1. PICK b \in BOOLEAN : b = (call[c].pc = "found")
      OBVIOUS
    <3>2. r = [call[c] EXCEPT !.clean = b]
      BY <2>1, <3>1
    <3> QED
      BY <1>1, <3>2 DEF CallRecords
  <2> QED
    BY <2>2, <2>3, <2>4, RestoringStep
<1>3. CASE RestoreNext(c)
  <2>1. /\ OnTop(c) /\ call[c].pc = "told" /\ call[c].todo = <<>>
        /\ Restore(c, call[c], call[c].at + 1) /\ UNCHANGED <<drains, hooked>>
    BY <1>3 DEF RestoreNext
  <2>2. call[c].at + 1 \in Nat /\ call[c].at + 1 >= 1
    BY <1>1, Fields
  <2> QED
    BY <1>1, <2>1, <2>2, RestoringStep
<1> QED
  BY <1>2, <1>3

----------------------------------------------------------------------------
(* The theorems *)

LEMMA TableInvStart ==
  ASSUME RegistryInit
  PROVE  TableInv
<1>1. PICK start \in SUBSET Ids : modules = [id \in Ids |-> IF id \in start THEN id ELSE NoObject]
  BY DEF RegistryInit
<1>2. \A c \in Callers : /\ call[c] = NoCall /\ call[c].pc = "idle" /\ call[c].kind = NoObject
                         /\ call[c].todo = <<>> /\ call[c].old = NoModules
  BY NoCallIsOne DEF RegistryInit, NoCall
<1>3. \A id \in Ids : modules[id] \in Holdings /\ (modules[id] = NoObject \/ modules[id] = id)
  BY <1>1, Objects
<1>4. Types
  <2>1. call \in [Callers -> CallRecords]
    BY NoCallIsOne DEF RegistryInit
  <2>2. modules \in [Ids -> Holdings] /\ meta \in [Ids -> Holdings]
    BY <1>1, Objects DEF RegistryInit
  <2> QED
    BY <2>1, <2>2 DEF Types, RegistryInit
<1>5. Shapes
  BY <1>2 DEF Shapes, Shape
<1>6. Excluded
  BY <1>2 DEF Excluded, InProgress
<1>7. Stacked
  <2>1. stack = <<>> /\ Len(<<>>) = 0 /\ <<>> \in Seq(Callers)
    BY EmptySeq DEF RegistryInit
  <2> QED
    BY <1>2, <2>1 DEF Stacked, OnStack, Running
<1>8. Homes
  <2>1. \A o \in ModuleObjects, id \in Ids : Known(o, id) => o = id
    BY <1>2, <1>3, NoCallIsOne, Objects DEF Known, InProgress
  <2> QED
    BY <2>1, Objects DEF Homes
<1>9. AheadFree
  BY <1>2, EmptySeq DEF AheadFree, Ahead
<1>10. Reserved
  <2>1. Loading = {}
    BY <1>2 DEF Loading
  <2> QED
    BY <2>1 DEF Reserved, ReservedWhileLoading, RegistryInit
<1>11. IdsIndexed /\ LiveIffThere
  BY DEF IdsIndexed, LiveIffThere, RegistryInit
<1>12. Counted
  BY UsersFinite DEF Counted, RegistryInit
<1>13. Debts
  BY <1>2 DEF Debts, Owes, RegistryInit
<1> QED
  BY <1>4, <1>5, <1>6, <1>7, <1>8, <1>9, <1>10, <1>11, <1>12, <1>13 DEF TableInv

LEMMA TableInvStep ==
  ASSUME TableInv, Exclusive, [RegistryNext]_registryVars
  PROVE  TableInv'
<1>1. ASSUME NEW c \in Callers, Starts(c)
      PROVE  TableInv'
  <2>1. CASE DiscoverCall(c) \/ ReloadAllCall(c)
    BY <2>1, DiscoverStep, ReloadAllStep
  <2>2. CASE \E id \in Ids : \/ RegisterCall(c, id) \/ RegisterInternalCall(c, id)
                             \/ DiscoverCustomCall(c, id) \/ UnregisterCall(c, id)
                             \/ FileChanges(c, id) \/ FileDeleted(c, id) \/ Acquire(c, id)
                             \/ SafeUnregisterCall(c, id) \/ ReloadCall(c, id)
    BY <2>2, RegisterStep, RegisterInternalStep, DiscoverCustomStep, UnregisterStep,
       FileChangesStep, AcquireStep, SafeUnregisterStep, ReloadStep
  <2> QED
    BY <1>1, <2>1, <2>2 DEF Starts
<1>2. ASSUME NEW c \in Callers, CallGoes(c)
      PROVE  TableInv'
  BY <1>2, LoadReturnsStep, LoadThrowsStep, LoadWaitsStep, LoadNextStep, FilterStep,
     DiscoveryFailsStep, HandleFileChangeStep, DrainTimesOutStep, UnloadStep, UnloadedStep,
     RestoreSteps
  DEF CallGoes
<1>3. ASSUME NEW c \in Callers, Answers(c)
      PROVE  TableInv'
  BY <1>3, AnswerStep, LoadReturnsStep, LoadRejectsStep, ReleaseStep DEF Answers
<1>4. CASE UNCHANGED registryVars
  <2>1. UNCHANGED <<modules, meta, inFlight, draining, refs, waiters, call, stack, hooked, live, owed>>
    BY <1>4 DEF registryVars, tables, drains
  <2>2. /\ Types' /\ Shapes' /\ Excluded' /\ Stacked' /\ Homes' /\ AheadFree'
        /\ IdsIndexed' /\ LiveIffThere' /\ Debts'
    BY <2>1
    DEF TableInv, Types, Shapes, Excluded, InProgress, Stacked, OnStack, Homes, Known, AheadFree,
        IdsIndexed, LiveIffThere, Debts
  <2>3. Reserved' /\ Counted'
    BY <2>1 DEF TableInv, Reserved, ReservedWhileLoading, Loading, Counted, Users
  <2> QED
    BY <2>2, <2>3 DEF TableInv
<1> QED
  BY <1>1, <1>2, <1>3, <1>4 DEF RegistryNext

LEMMA TypesFollow ==
  ASSUME TableInv
  PROVE  RegistryTypeOK
<1>1. refs \in [Ids -> 0..Cardinality(Callers)]
  <2>1. \A id \in Ids : /\ refs[id] \in Nat /\ refs[id] <= Cardinality(Users(id))
    BY DEF TableInv, Types, Counted
  <2>2. \A id \in Ids : /\ Cardinality(Users(id)) \in Nat
                        /\ Cardinality(Users(id)) <= Cardinality(Callers)
    BY UsersFinite
  <2>3. Cardinality(Callers) \in Nat
    BY RegistryAssumption, FS_CardinalityType
  <2>4. \A id \in Ids : refs[id] \in 0..Cardinality(Callers)
    BY <2>1, <2>2, <2>3
  <2> QED
    BY <2>4 DEF TableInv, Types
<1>2. stack \in Seq(Callers) /\ \A i, j \in DOMAIN stack : stack[i] = stack[j] => i = j
  BY StackSeq DEF TableInv, Stacked
<1>3. \A c \in Callers : call[c].kind \in AllKinds \cup {NoObject} /\ call[c].pc \in CallStages
  <2>1. \A c \in Callers : call[c].kind \in AnyKind /\ call[c].pc \in CallStages
    BY Fields DEF TableInv, Types
  <2> QED
    BY <2>1 DEF AnyKind
<1>4. /\ modules \in [Ids -> Holdings] /\ meta \in [Ids -> Holdings]
      /\ inFlight \subseteq Ids /\ draining \subseteq Ids
      /\ waiters \in [Ids -> SUBSET Callers] /\ hooked \subseteq Ids
      /\ live \in [ModuleObjects -> 0..1] /\ owed \in [Callers -> SUBSET Ids]
  BY DEF TableInv, Types
<1> QED
  BY <1>1, <1>2, <1>3, <1>4 DEF RegistryTypeOK

LEMMA LiveFollows ==
  ASSUME TableInv
  PROVE  LiveWhilePublished
<1> SUFFICES ASSUME NEW o \in ModuleObjects
             PROVE  live[o] = Cardinality({id \in Ids : modules[id] = o})
  BY DEF LiveWhilePublished
<1>1. CASE \E id \in Ids : modules[id] = o
  <2>1. PICK i \in Ids : modules[i] = o
    BY <1>1
  <2>2. \A j \in Ids : modules[j] = o => j = i
    BY <2>1 DEF TableInv, Homes, Known
  <2>3. {id \in Ids : modules[id] = o} = {i}
    BY <2>1, <2>2
  <2>4. Cardinality({id \in Ids : modules[id] = o}) = 1
    BY <2>3, FS_Singleton
  <2> QED
    BY <1>1, <2>4 DEF TableInv, LiveIffThere
<1>2. CASE ~\E id \in Ids : modules[id] = o
  <2>1. {id \in Ids : modules[id] = o} = {}
    BY <1>2
  <2>2. Cardinality({id \in Ids : modules[id] = o}) = 0
    BY <2>1, FS_EmptySet
  <2> QED
    BY <1>2, <2>2 DEF TableInv, LiveIffThere
<1> QED
  BY <1>1, <1>2

LEMMA WaitersFollow ==
  ASSUME TableInv
  PROVE  WaitersAwaitHolders
<1> SUFFICES ASSUME NEW id \in Ids, Woken(waiters[id]) # {}
             PROVE  id \in draining /\ refs[id] \in 1..Cardinality(Users(id))
  BY DEF WaitersAwaitHolders, Users
<1>1. waiters[id] # {}
  BY DEF Woken
<1>2. /\ refs[id] \in Nat /\ refs[id] <= Cardinality(Users(id))
      /\ id \in draining /\ refs[id] >= 1
  BY <1>1 DEF TableInv, Types, Counted
<1> QED
  BY <1>2, UsersFinite

\* When the host awaits discover() and reload before it registers more, the
\* tables of the registry never disagree, for any ids, callers and mixture of
\* the ten operations: a module object is live exactly while it is registered,
\* an id is reserved exactly while one onLoad runs for it, the metadata is that
\* of the registered module, and who waits for a drain waits for a holder.
THEOREM TablesNeverDisagree ==
  ASSUME Exclusive
  PROVE  RegistrySpec => []TablesAgree
<1>1. RegistryInit => TableInv
  BY TableInvStart
<1>2. TableInv /\ [RegistryNext]_registryVars => TableInv'
  BY TableInvStep
<1>3. TableInv => TablesAgree
  <2> SUFFICES ASSUME TableInv PROVE TablesAgree
    OBVIOUS
  <2> QED
    BY TypesFollow, LiveFollows, WaitersFollow DEF TablesAgree, TableInv, Reserved
<1> QED
  BY <1>1, <1>2, <1>3, PTL DEF RegistrySpec

\* Under the same assumption a reload that has ended owes nothing: its id came
\* back by the discovery or by the restored object, or the onLoad of what was to
\* come back has failed.
THEOREM ReloadsGiveBack ==
  ASSUME Exclusive
  PROVE  RegistrySpec => []ReloadGivesBack
<1>1. TableInv => ReloadGivesBack
  BY DEF TableInv, Debts, Owes, ReloadGivesBack
<1> QED
  BY <1>1, TableInvStart, TableInvStep, PTL DEF RegistrySpec

----------------------------------------------------------------------------
(* LoadOrder: lists in the order of a rank                                  *)

LEMMA LeastOf ==
  ASSUME NEW T \in SUBSET Nat, T # {}
  PROVE  \E n \in T : /\ \A k \in T : n <= k
                     /\ \A k \in Nat : k < n => k \notin T
<1>1. PICK n \in T : \A k \in T : ~(<<k, n>> \in OpToRel(<, Nat))
  BY NatLessThanWellFounded, WFMin, Zenon
<1>2. \A k \in T : ~(k < n)
  BY <1>1 DEF OpToRel
<1> QED
  BY <1>2

\* A finite set has an element of the highest rank.
LEMMA HighestRank ==
  ASSUME NEW S, IsFiniteSet(S), NEW rank \in [S -> Int], NEW U \in SUBSET S, U # {}
  PROVE  \E x \in U : \A y \in U : rank[y] <= rank[x]
<1> DEFINE Fails(T) == T # {} /\ ~\E x \in T : \A y \in T : rank[y] <= rank[x]
           Sizes == {Cardinality(T) : T \in {T \in SUBSET S : Fails(T)}}
<1> SUFFICES ASSUME Fails(U) PROVE FALSE
  OBVIOUS
<1>1. \A T \in SUBSET S : IsFiniteSet(T) /\ Cardinality(T) \in Nat
  BY FS_Subset, FS_CardinalityType
<1>2. Sizes \in SUBSET Nat /\ Sizes # {}
  BY <1>1
<1>3. PICK n \in Sizes : \A k \in Sizes : n <= k
  BY <1>2, LeastOf
<1>4. PICK T \in SUBSET S : Fails(T) /\ n = Cardinality(T)
  BY <1>3
<1>5. PICK y \in T : TRUE
  BY <1>4
<1>6. IsFiniteSet(T \ {y}) /\ Cardinality(T \ {y}) = n - 1
  BY <1>1, <1>4, <1>5, FS_RemoveElement
<1>7. ~Fails(T \ {y})
  <2>1. T \ {y} \in SUBSET S /\ n \in Nat BY <1>2, <1>3, <1>4
  <2>2. n - 1 \notin Sizes
    <3>1. n - 1 \in Sizes => n <= n - 1 BY <1>3
    <3> QED BY <2>1, <3>1
  <2>3. Cardinality(T \ {y}) \notin Sizes BY <1>6, <2>2
  <2> QED BY <2>1, <2>3
<1>8. CASE T \ {y} = {}
  <2>1. T = {y} BY <1>5, <1>8
  <2> QED BY <2>1, <1>4
<1>9. CASE T \ {y} # {}
  <2>1. PICK x \in T \ {y} : \A z \in T \ {y} : rank[z] <= rank[x]
    BY <1>7, <1>9
  <2>2. rank[x] \in Int /\ rank[y] \in Int /\ \A z \in T : rank[z] \in Int
    BY <1>4, <1>5, <2>1
  <2>3. CASE rank[y] <= rank[x]
    BY <1>4, <2>1, <2>3
  <2>4. CASE rank[x] < rank[y]
    <3>1. \A z \in T : rank[z] <= rank[y]
      BY <2>1, <2>2, <2>4
    <3> QED BY <1>4, <1>5, <3>1
  <2> QED BY <2>2, <2>3, <2>4
<1> QED BY <1>8, <1>9

\* s lists the elements of T, each once, by their rank.
Lists(s, T, rank) ==
  /\ s \in [1..Cardinality(T) -> T]
  /\ \A x \in T : \E i \in 1..Cardinality(T) : s[i] = x
  /\ \A i, j \in 1..Cardinality(T) : i < j => s[i] # s[j] /\ rank[s[i]] <= rank[s[j]]

LEMMA RankedList ==
  ASSUME NEW S, IsFiniteSet(S), NEW rank \in [S -> Int], NEW U \in SUBSET S
  PROVE  \E s : Lists(s, U, rank)
<1> DEFINE Fails(T) == ~\E s : Lists(s, T, rank)
           Sizes == {Cardinality(T) : T \in {T \in SUBSET S : Fails(T)}}
<1> SUFFICES ASSUME Fails(U) PROVE FALSE
  OBVIOUS
<1>1. \A T \in SUBSET S : IsFiniteSet(T) /\ Cardinality(T) \in Nat
  BY FS_Subset, FS_CardinalityType
<1>2. Sizes \in SUBSET Nat /\ Sizes # {}
  BY <1>1
<1>3. PICK n \in Sizes : \A k \in Sizes : n <= k
  BY <1>2, LeastOf
<1>4. PICK T \in SUBSET S : Fails(T) /\ n = Cardinality(T)
  BY <1>3
<1>5. T # {}
  <2> SUFFICES ASSUME T = {} PROVE FALSE OBVIOUS
  <2>1. Cardinality(T) = 0 BY FS_EmptySet
  <2>2. Lists(<<>>, T, rank) BY <2>1 DEF Lists
  <2> QED BY <1>4, <2>2
<1>6. PICK y \in T : \A z \in T : rank[z] <= rank[y]
  BY <1>5, HighestRank
<1>7. IsFiniteSet(T \ {y}) /\ Cardinality(T \ {y}) = n - 1
  BY <1>1, <1>4, <1>6, FS_RemoveElement
<1>8. n \in Nat /\ n - 1 \in Nat
  BY <1>1, <1>2, <1>3, <1>7
<1>9. PICK s : Lists(s, T \ {y}, rank)
  BY <1>1, <1>3, <1>4, <1>7, <1>8
<1> DEFINE more == [i \in 1..n |-> IF i = n THEN y ELSE s[i]]
<1>10. /\ s \in [1..(n - 1) -> T \ {y}]
       /\ \A x \in T \ {y} : \E i \in 1..(n - 1) : s[i] = x
       /\ \A i, j \in 1..(n - 1) : i < j => s[i] # s[j] /\ rank[s[i]] <= rank[s[j]]
  BY <1>7, <1>9 DEF Lists
<1>11. more \in [1..n -> T]
  BY <1>6, <1>8, <1>10
<1>12. \A x \in T : \E i \in 1..n : more[i] = x
  <2> TAKE x \in T
  <2>1. CASE x = y BY <1>5, <1>7, <1>8, <2>1
  <2>2. CASE x # y
    <3>1. PICK i \in 1..(n - 1) : s[i] = x BY <1>10, <2>2
    <3>2. i \in 1..n /\ i # n BY <1>8, <3>1
    <3>3. more[i] = x BY <3>1, <3>2
    <3> QED BY <3>2, <3>3
  <2> QED BY <2>1, <2>2
<1>13. ASSUME NEW i \in 1..n, NEW j \in 1..n, i < j
       PROVE  more[i] # more[j] /\ rank[more[i]] <= rank[more[j]]
  <2>1. i \in 1..(n - 1) /\ i # n /\ more[i] = s[i] /\ s[i] \in T \ {y}
    BY <1>8, <1>10, <1>13
  <2>2. CASE j = n
    BY <1>6, <2>1, <2>2
  <2>3. CASE j # n
    <3>1. j \in 1..(n - 1) /\ more[j] = s[j] BY <1>8, <2>3
    <3> QED BY <1>10, <1>13, <2>1, <3>1
  <2> QED BY <2>2, <2>3
<1>14. Lists(more, T, rank)
  BY <1>4, <1>11, <1>12, <1>13 DEF Lists
<1> QED BY <1>4, <1>14

\* What Array.sort() makes of a set of ids.
LEMMA SortedLists ==
  ASSUME NEW S \in SUBSET Int, IsFiniteSet(S)
  PROVE  /\ Sorted(S) \in Seq(S) /\ Len(Sorted(S)) = Cardinality(S)
         /\ ToSet(Sorted(S)) = S
         /\ \A i, j \in 1..Len(Sorted(S)) : Sorted(S)[i] = Sorted(S)[j] => i = j
<1> DEFINE rank == [x \in S |-> x]
           P(s) == \A i, j \in 1..Cardinality(S) : i < j => s[i] < s[j]
<1>0. IsFiniteSet(S) OBVIOUS
<1>1. Cardinality(S) \in Nat
  BY FS_CardinalityType
<1>2. PICK s : Lists(s, S, rank)
  <2>1. rank \in [S -> Int] OBVIOUS
  <2> QED BY <2>1, RankedList
<1>3. s \in [1..Cardinality(S) -> S]
  BY <1>2 DEF Lists
<1>4. ASSUME NEW i \in 1..Cardinality(S), NEW j \in 1..Cardinality(S), i < j PROVE s[i] < s[j]
  <2>1. s[i] \in Int /\ s[j] \in Int /\ s[i] # s[j] /\ s[i] <= s[j]
    BY <1>2, <1>3, <1>4 DEF Lists
  <2> QED BY <2>1
<1>5. \E t \in [1..Cardinality(S) -> S] : P(t)
  BY <1>3, <1>4
<1>6. Sorted(S) \in [1..Cardinality(S) -> S] /\ P(Sorted(S))
  BY <1>5 DEF Sorted
<1> HIDE DEF P
<1> DEFINE t == Sorted(S)
<1>7. t \in Seq(S) /\ Len(t) = Cardinality(S) /\ DOMAIN t = 1..Cardinality(S)
  BY <1>1, <1>6
<1>8. ASSUME NEW i \in 1..Cardinality(S), NEW j \in 1..Cardinality(S), t[i] = t[j] PROVE i = j
  <2>1. t[i] \in Int /\ t[j] \in Int BY <1>6
  <2>2. ~(i < j) /\ ~(j < i) BY <1>6, <1>8, <2>1 DEF P
  <2> QED BY <1>1, <2>2
<1>9. ToSet(t) = S
  <2>1. t \in Injection(1..Cardinality(S), S) BY <1>6, <1>8 DEF Injection, IsInjective
  <2>2. IsFiniteSet(1..Cardinality(S)) /\ Cardinality(1..Cardinality(S)) = Cardinality(S)
    BY <1>1, FS_Interval
  <2>3. t \in Surjection(1..Cardinality(S), S)
    BY <1>0, <2>1, <2>2, FS_Injection
  <2> QED BY <1>7, <2>3 DEF ToSet, Surjection
<1> QED BY <1>7, <1>8, <1>9

----------------------------------------------------------------------------
(* FlattenSeq                                                               *)

\* all has the elements of the first n of lists, place says where from.
Gathers(place, all, lists, n) ==
  /\ place \in [1..Len(all) -> Nat \X Nat]
  /\ \A p \in 1..Len(all) : /\ place[p][1] \in 1..n
                            /\ place[p][2] \in 1..Len(lists[place[p][1]])
                            /\ all[p] = lists[place[p][1]][place[p][2]]
  /\ \A p, q \in 1..Len(all) : place[p] = place[q] => p = q
  /\ \A i \in 1..n : \A j \in 1..Len(lists[i]) : \E p \in 1..Len(all) : place[p] = <<i, j>>

LEMMA GathersMore ==
  ASSUME NEW A, NEW lists \in Seq(Seq(A)), NEW n \in 0..(Len(lists) - 1),
         NEW all \in Seq(A), NEW place, Gathers(place, all, lists, n)
  PROVE  \E more : Gathers(more, all \o lists[n + 1], lists, n + 1)
<1> DEFINE l == Len(all)
           last == lists[n + 1]
           whole == all \o last
           more == [p \in 1..Len(whole) |-> IF p <= l THEN place[p] ELSE <<n + 1, p - l>>]
<1>1. /\ n \in Nat /\ n + 1 \in 1..Len(lists) /\ last \in Seq(A) /\ Len(last) \in Nat /\ l \in Nat
      /\ Len(whole) = l + Len(last) /\ whole \in Seq(A)
      /\ \A p \in 1..l : whole[p] = all[p]
      /\ \A p \in (l + 1)..Len(whole) : whole[p] = last[p - l]
  OBVIOUS
<1>2. /\ place \in [1..l -> Nat \X Nat]
      /\ \A p \in 1..l : /\ place[p][1] \in 1..n
                         /\ place[p][2] \in 1..Len(lists[place[p][1]])
                         /\ all[p] = lists[place[p][1]][place[p][2]]
      /\ \A p, q \in 1..l : place[p] = place[q] => p = q
      /\ \A i \in 1..n : \A j \in 1..Len(lists[i]) : \E p \in 1..l : place[p] = <<i, j>>
  BY DEF Gathers
<1> HIDE DEF whole, last, l
<1>3. ASSUME NEW p \in 1..Len(whole)
      PROVE  \/ p \in 1..l /\ more[p] = place[p]
             \/ p \in (l + 1)..Len(whole) /\ p - l \in 1..Len(last) /\ more[p] = <<n + 1, p - l>>
  BY <1>1
<1>4. more \in [1..Len(whole) -> Nat \X Nat]
  BY <1>1, <1>2
<1> HIDE DEF more
<1>5. ASSUME NEW p \in 1..Len(whole)
      PROVE  /\ more[p][1] \in 1..(n + 1)
             /\ more[p][2] \in 1..Len(lists[more[p][1]])
             /\ whole[p] = lists[more[p][1]][more[p][2]]
  <2>1. CASE p \in 1..l /\ more[p] = place[p]
    <3>1. place[p][1] \in 1..(n + 1) BY <1>1, <1>2, <2>1
    <3> QED BY <1>1, <1>2, <2>1, <3>1
  <2>2. CASE p \in (l + 1)..Len(whole) /\ p - l \in 1..Len(last) /\ more[p] = <<n + 1, p - l>>
    <3>1. more[p][1] = n + 1 /\ more[p][2] = p - l BY <2>2
    <3>2. n + 1 \in 1..(n + 1) BY <1>1
    <3> QED BY <1>1, <2>2, <3>1, <3>2 DEF last
  <2> QED BY <1>3, <2>1, <2>2
<1>6. ASSUME NEW p \in 1..Len(whole), NEW q \in 1..Len(whole), more[p] = more[q] PROVE p = q
  <2>1. \A r \in 1..l : place[r][1] # n + 1 BY <1>1, <1>2
  <2>2. \A r \in 1..Len(whole) : more[r][1] = n + 1 <=> r \notin 1..l
    <3> TAKE r \in 1..Len(whole)
    <3>1. CASE r \in 1..l /\ more[r] = place[r] BY <2>1, <3>1
    <3>2. CASE r \in (l + 1)..Len(whole) /\ more[r] = <<n + 1, r - l>>
      <4>1. r \notin 1..l BY <1>1, <3>2
      <4>2. more[r][1] = n + 1 BY <3>2
      <4> QED BY <4>1, <4>2
    <3> QED BY <1>3, <3>1, <3>2
  <2>3. CASE p \in 1..l /\ q \in 1..l
    <3>1. more[p] = place[p] /\ more[q] = place[q] BY <1>1, <1>3, <2>3
    <3> QED BY <1>2, <1>6, <2>3, <3>1
  <2>4. CASE p \notin 1..l /\ q \notin 1..l
    <3>1. more[p] = <<n + 1, p - l>> /\ more[q] = <<n + 1, q - l>> BY <1>3, <2>4
    <3>2. more[p][2] = p - l /\ more[q][2] = q - l BY <3>1
    <3> QED BY <1>1, <1>6, <3>2
  <2> QED BY <1>6, <2>2, <2>3, <2>4
<1>7. ASSUME NEW i \in 1..(n + 1), NEW j \in 1..Len(lists[i])
      PROVE  \E p \in 1..Len(whole) : more[p] = <<i, j>>
  <2>1. CASE i \in 1..n
    <3>1. PICK p \in 1..l : place[p] = <<i, j>> BY <1>2, <2>1
    <3>2. p \in 1..Len(whole) /\ more[p] = place[p] BY <1>1, <3>1 DEF more
    <3> QED BY <3>1, <3>2
  <2>2. CASE i = n + 1
    <3>1. j \in 1..Len(last) BY <2>2 DEF last
    <3>2. l + j \in 1..Len(whole) /\ ~(l + j <= l) /\ (l + j) - l = j BY <1>1, <3>1
    <3>3. more[l + j] = <<i, j>> BY <2>2, <3>2 DEF more
    <3> QED BY <3>2, <3>3
  <2>3. i \in 1..n \/ i = n + 1 BY <1>1
  <2> QED BY <2>1, <2>2, <2>3
<1>8. Gathers(more, whole, lists, n + 1)
  BY <1>4, <1>5, <1>6, <1>7 DEF Gathers
<1> QED BY <1>8 DEF whole, last

\* What FlattenSeq has made of the first n lists.
Flattens(g, lists, n) == g = [i \in 1..n |-> IF i = 1 THEN lists[i] ELSE g[i - 1] \o lists[i]]

LEMMA FlattenExists ==
  ASSUME NEW lists, NEW n \in Nat
  PROVE  \E g : Flattens(g, lists, n)
<1> DEFINE T == {k \in 0..n : ~\E g : Flattens(g, lists, k)}
<1> SUFFICES ASSUME T # {} PROVE FALSE
  OBVIOUS
<1>1. T \in SUBSET Nat
  OBVIOUS
<1>2. PICK k \in T : \A j \in T : k <= j
  BY <1>1, LeastOf
<1>3. k # 0
  <2>1. Flattens([i \in 1..0 |-> {}], lists, 0) BY DEF Flattens
  <2> QED BY <1>2, <2>1
<1>4. k - 1 \in 0..n /\ k - 1 \notin T
  BY <1>2, <1>3
<1>5. PICK g : Flattens(g, lists, k - 1)
  BY <1>4
<1> DEFINE h == [i \in 1..k |-> IF i = k THEN (IF k = 1 THEN lists[k] ELSE g[k - 1] \o lists[k]) ELSE g[i]]
<1>6. ASSUME NEW i \in 1..k
      PROVE  h[i] = IF i = 1 THEN lists[i] ELSE h[i - 1] \o lists[i]
  <2>1. CASE i = k
    <3>1. i # 1 => h[i - 1] = g[k - 1] BY <1>2, <1>3, <2>1
    <3> QED BY <1>2, <1>3, <2>1, <3>1
  <2>2. CASE i # k
    <3>1. i \in 1..(k - 1) /\ h[i] = g[i] /\ (i # 1 => h[i - 1] = g[i - 1])
      BY <1>2, <1>3, <2>2
    <3>2. g[i] = IF i = 1 THEN lists[i] ELSE g[i - 1] \o lists[i]
      BY <1>5, <3>1 DEF Flattens
    <3> QED BY <3>1, <3>2
  <2> QED BY <2>1, <2>2
<1>7. h = [i \in 1..k |-> h[i]]
  OBVIOUS
<1> HIDE DEF h
<1>8. Flattens(h, lists, k)
  BY <1>6, <1>7 DEF Flattens
<1> QED BY <1>2, <1>8

LEMMA FlattenGathers ==
  ASSUME NEW A, NEW lists \in Seq(Seq(A))
  PROVE  FlattenSeq(lists) \in Seq(A) /\ \E place : Gathers(place, FlattenSeq(lists), lists, Len(lists))
<1> DEFINE n == Len(lists)
           F(f) == [i \in 1..n |-> IF i = 1 THEN lists[i] ELSE f[i - 1] \o lists[i]]
           g == CHOOSE f : f = F(f)
           T == {k \in 1..n : ~(g[k] \in Seq(A) /\ \E place : Gathers(place, g[k], lists, k))}
<1>0. n \in Nat OBVIOUS
<1>1. CASE n = 0
  <2>1. FlattenSeq(lists) = <<>> BY <1>1 DEF FlattenSeq
  <2>2. Gathers(<<>>, <<>>, lists, 0) BY DEF Gathers
  <2> QED BY <1>1, <2>1, <2>2
<1>2. CASE n # 0
  <2>1. FlattenSeq(lists) = g[n]
    BY <1>2 DEF FlattenSeq
  <2>2. g = F(g)
    <3>1. PICK h : h = F(h) BY <1>0, FlattenExists DEF Flattens
    <3> QED BY <3>1
  <2>3. \A i \in 1..n : g[i] = IF i = 1 THEN lists[i] ELSE g[i - 1] \o lists[i]
    BY <2>2
  <2> HIDE DEF g
  <2>4. T = {}
    <3> SUFFICES ASSUME T # {} PROVE FALSE OBVIOUS
    <3>1. T \in SUBSET Nat BY <1>0
    <3>2. PICK k \in T : \A j \in Nat : j < k => j \notin T BY <3>1, LeastOf
    <3>3. k \in 1..n BY <3>2
    <3>4. CASE k = 1
      <4>1. Gathers(<<>>, <<>>, lists, 0) BY DEF Gathers
      <4>2. 0 \in 0..(Len(lists) - 1) /\ <<>> \in Seq(A) BY <3>3, <3>4
      <4>3. \E more : Gathers(more, <<>> \o lists[0 + 1], lists, 0 + 1) BY <4>1, <4>2, GathersMore
      <4>4. lists[1] \in Seq(A) BY <3>3, <3>4
      <4>5. <<>> \o lists[0 + 1] = lists[1] /\ 0 + 1 = 1 BY <4>4
      <4> QED BY <2>3, <3>2, <3>3, <3>4, <4>3, <4>4, <4>5
    <3>5. CASE k # 1
      <4>0. k - 1 \in 1..n /\ k - 1 \in Nat /\ k - 1 < k BY <1>0, <3>3, <3>5
      <4>1. k - 1 \notin T BY <3>2, <4>0
      <4>2. g[k - 1] \in Seq(A) /\ \E place : Gathers(place, g[k - 1], lists, k - 1) BY <4>0, <4>1
      <4>3. k - 1 \in 0..(Len(lists) - 1) /\ (k - 1) + 1 = k BY <3>3, <3>5
      <4>4. \E more : Gathers(more, g[k - 1] \o lists[k], lists, k) BY <4>2, <4>3, GathersMore
      <4>5. g[k] = g[k - 1] \o lists[k] BY <2>3, <3>3, <3>5
      <4>6. g[k - 1] \o lists[k] \in Seq(A) BY <3>3, <4>2
      <4> QED BY <3>2, <4>4, <4>5, <4>6
    <3> QED BY <3>4, <3>5
  <2>5. n \in 1..n BY <1>0, <1>2
  <2> QED BY <2>1, <2>4, <2>5
<1> QED BY <1>1, <1>2

----------------------------------------------------------------------------
(* The invariant of the edges and of the sort                               *)

Read == 1..(Len(Declarations(batch)) - Len(unread))
Declared(p) == Declarations(batch)[p]
Holds(d) == ~Missing(d) /\ ~Misfit(d)

\* What has been read of the declarations is enforced or skipped, and is in the
\* graph if it is enforced.
EdgesRead ==
  /\ unread \in Seq([of : Int, dep : Dependency]) /\ Len(unread) <= Len(Declarations(batch))
  /\ \A i \in 1..Len(unread) : unread[i] = Declared(Len(Declarations(batch)) - Len(unread) + i)
  /\ \A p \in Read : Holds(Declared(p).dep) \/ Skipped(Declared(p).dep)
  /\ graph \in [batch.known \cup ModuleIds -> SUBSET ModuleIds]
  /\ \A id \in batch.known \cup ModuleIds : \A m \in ModuleIds :
       m \in graph[id] <=> \E p \in Read : /\ Declared(p).of = m /\ Declared(p).dep.to = id
                                           /\ Holds(Declared(p).dep)

ListsOnce(m) == \A i, j \in DOMAIN batch.deps[m] : batch.deps[m][i].to = batch.deps[m][j].to => i = j

\* What m still waits for.
Awaited(m) == {id \in batch.known \cup ModuleIds : m \in graph[id] /\ id \notin ToSet(loadOrder)}

\* A degree counts what its module waits for, and each repetition on top.
DegreesCount ==
  /\ inDegree \in [ModuleIds -> Int]
  /\ \A m \in ModuleIds :
       /\ inDegree[m] >= Cardinality(Awaited(m))
       /\ ListsOnce(m) => inDegree[m] = Cardinality(Awaited(m))

\* The order and the queue hold each module that waits for nothing, once, and a
\* module in the order is behind all it waited for.
Line == loadOrder \o queue
LineHolds ==
  /\ loadOrder \in Seq(ModuleIds) /\ queue \in Seq(ModuleIds)
  /\ \A i, j \in 1..Len(Line) : Line[i] = Line[j] => i = j
  /\ ToSet(Line) = Free(inDegree)
  /\ \A j \in 1..Len(loadOrder) : \A id \in batch.known \cup ModuleIds :
       loadOrder[j] \in graph[id] => \E i \in 1..(j - 1) : loadOrder[i] = id

WasRefused == resolution.kind \in Refusals

SortInv ==
  /\ batch \in Batches /\ loop \in {"edges", "sort", "search", "done"}
  /\ resolution.kind \in Refusals \cup {"none", "ordered", "circular", "blocked"}
  /\ (resolution.kind = "none") <=> (loop # "done")
  /\ EdgesRead /\ DegreesCount
  /\ loop = "edges" \/ WasRefused => loadOrder = <<>> /\ queue = <<>>
  /\ WasRefused => resolution.path[1] \in Refusing
  /\ ~(loop = "edges" \/ WasRefused) => unread = <<>> /\ LineHolds
  /\ loop \in {"search", "done"} => queue = <<>>
  /\ resolution.kind = "ordered" => Remaining = {} /\ resolution.path = loadOrder
  /\ loop = "search" \/ resolution.kind \in {"circular", "blocked"} => Remaining # {}

----------------------------------------------------------------------------
(* The declarations of a batch                                              *)

LEMMA BatchTyped ==
  ASSUME batch \in Batches
  PROVE  /\ IsBatch(batch) /\ IsFiniteSet(batch.known)
         /\ ModuleIds \in SUBSET Int /\ IsFiniteSet(ModuleIds)
         /\ \A m \in ModuleIds : batch.deps[m] \in Seq(Dependency)
<1>1. IsBatch(batch)
  BY LoadOrderAssumption
<1> DEFINE ms == batch.modules
<1>2. ms \in Seq(Int) /\ IsFiniteSet(batch.known) /\ \A i \in DOMAIN ms : batch.deps[ms[i]] \in Seq(Dependency)
  BY <1>1 DEF IsBatch
<1> HIDE DEF ms
<1>3. Len(ms) \in Nat /\ DOMAIN ms = 1..Len(ms) /\ \A i \in DOMAIN ms : ms[i] \in Int
  BY <1>2
<1>4. ModuleIds = {ms[i] : i \in DOMAIN ms}
  BY DEF ModuleIds, ToSet, ms
<1>5. [i \in 1..Len(ms) |-> ms[i]] \in Surjection(1..Len(ms), ModuleIds)
  BY <1>3, <1>4 DEF Surjection
<1>6. IsFiniteSet(1..Len(ms))
  BY <1>3, FS_Interval
<1>7. IsFiniteSet(ModuleIds)
  BY <1>5, <1>6, FS_Surjection
<1> QED BY <1>1, <1>2, <1>3, <1>4, <1>7

LEMMA ListOfLength ==
  ASSUME NEW A, NEW n \in Nat, NEW s \in [1..n -> A]
  PROVE  s \in Seq(A) /\ Len(s) = n /\ DOMAIN s = 1..n
OBVIOUS

\* What cannot be told to match does not match.
LEMMA GarbledMisfits ==
  ASSUME NEW d, Garbled(d)
  PROVE  ~Missing(d) /\ Misfit(d)
<1> DEFINE v == batch.versions[d.to]
<1>1. d.to \in DOMAIN batch.versions /\ ~Missing(d) /\ ThrowsOn(v, d.hint)
  BY DEF Garbled
<1>2. PICK i \in DOMAIN d.hint : d.hint[i].op = "unreadable"
  BY <1>1 DEF ThrowsOn
<1>3. ~CheckSingleConstraint(v, d.hint[i])
  BY <1>2 DEF CheckSingleConstraint
<1> HIDE DEF v
<1>4. ~MatchesVersionHint(v, d.hint)
  BY <1>2, <1>3 DEF MatchesVersionHint
<1> QED BY <1>1, <1>4 DEF Misfit, v

\* Every dependency of every module is declared, in one place.
LEMMA DeclarationsAll ==
  ASSUME batch \in Batches
  PROVE  /\ Declarations(batch) \in Seq([of : Int, dep : Dependency])
         /\ \A p \in 1..Len(Declarations(batch)) :
              Declared(p).of \in ModuleIds /\ Declared(p).dep \in DependenciesOf(Declared(p).of)
         /\ \A m \in ModuleIds : \A d \in DependenciesOf(m) :
              \E p \in 1..Len(Declarations(batch)) : Declared(p).of = m /\ Declared(p).dep = d
         /\ \A p, q \in 1..Len(Declarations(batch)) :
              /\ Declared(p).of = Declared(q).of /\ Declared(p).dep.to = Declared(q).dep.to
              /\ ListsOnce(Declared(p).of)
              => p = q
<1> DEFINE ms == batch.modules
           A == [of : Int, dep : Dependency]
           lists == [i \in DOMAIN ms |-> [j \in DOMAIN batch.deps[ms[i]] |->
                                         [of |-> ms[i], dep |-> batch.deps[ms[i]][j]]]]
           all == Declarations(batch)
<1>1. ms \in Seq(Int) /\ IsInjective(ms) /\ \A i \in DOMAIN ms : batch.deps[ms[i]] \in Seq(Dependency)
  BY BatchTyped DEF IsBatch
<1>2. all = FlattenSeq(lists)
  BY DEF Declarations
<1> HIDE DEF ms, all
<1>3. Len(ms) \in Nat /\ DOMAIN ms = 1..Len(ms) /\ ModuleIds = {ms[i] : i \in 1..Len(ms)}
      /\ \A i \in 1..Len(ms) : ms[i] \in Int
  BY <1>1 DEF ModuleIds, ToSet, ms
<1>4. ASSUME NEW i \in 1..Len(ms)
      PROVE  /\ lists[i] \in Seq(A) /\ Len(lists[i]) = Len(batch.deps[ms[i]])
             /\ \A j \in 1..Len(lists[i]) : lists[i][j] = [of |-> ms[i], dep |-> batch.deps[ms[i]][j]]
  <2>1. ms[i] \in Int /\ batch.deps[ms[i]] \in Seq(Dependency) BY <1>1, <1>3
  <2> DEFINE deps == batch.deps[ms[i]]
  <2>2. Len(deps) \in Nat /\ DOMAIN deps = 1..Len(deps) /\ \A j \in 1..Len(deps) : deps[j] \in Dependency
    BY <2>1
  <2>3. lists[i] = [j \in 1..Len(deps) |-> [of |-> ms[i], dep |-> deps[j]]] BY <1>3, <2>2
  <2> HIDE DEF lists, deps
  <2>4. lists[i] \in [1..Len(deps) -> A] BY <2>1, <2>2, <2>3
  <2>5. lists[i] \in Seq(A) /\ Len(lists[i]) = Len(deps) BY <2>2, <2>4, ListOfLength
  <2> QED BY <2>3, <2>5 DEF deps
<1>5. lists \in Seq(Seq(A)) /\ Len(lists) = Len(ms)
  <2>1. lists \in [1..Len(ms) -> Seq(A)] BY <1>3, <1>4
  <2> HIDE DEF lists, A
  <2> QED BY <1>3, <2>1
<1> HIDE DEF lists, A
<1>6. all \in Seq(A)
  BY <1>2, <1>5, FlattenGathers
<1>7. PICK place : Gathers(place, all, lists, Len(ms))
  BY <1>2, <1>5, FlattenGathers
<1>8. ASSUME NEW p \in 1..Len(all)
      PROVE  /\ place[p][1] \in 1..Len(ms) /\ place[p][2] \in 1..Len(batch.deps[ms[place[p][1]]])
             /\ all[p] = [of |-> ms[place[p][1]], dep |-> batch.deps[ms[place[p][1]]][place[p][2]]]
             /\ place[p] = <<place[p][1], place[p][2]>>
             /\ all[p].of = ms[place[p][1]] /\ all[p].dep = batch.deps[ms[place[p][1]]][place[p][2]]
  <2>1. place[p] \in Nat \X Nat BY <1>7 DEF Gathers
  <2>2. place[p][1] \in 1..Len(ms) /\ place[p][2] \in 1..Len(lists[place[p][1]])
        /\ all[p] = lists[place[p][1]][place[p][2]]
    BY <1>7 DEF Gathers
  <2>3. all[p] = [of |-> ms[place[p][1]], dep |-> batch.deps[ms[place[p][1]]][place[p][2]]]
        /\ Len(lists[place[p][1]]) = Len(batch.deps[ms[place[p][1]]])
    BY <1>4, <2>2
  <2>4. all[p].of = ms[place[p][1]] /\ all[p].dep = batch.deps[ms[place[p][1]]][place[p][2]]
    BY <2>3
  <2> QED BY <2>1, <2>2, <2>3, <2>4
<1>9. ASSUME NEW i \in 1..Len(ms)
      PROVE  DependenciesOf(ms[i]) = {batch.deps[ms[i]][j] : j \in 1..Len(batch.deps[ms[i]])}
  <2>1. batch.deps[ms[i]] \in Seq(Dependency) BY <1>1, <1>3
  <2> QED BY <2>1 DEF DependenciesOf, ToSet
<1>10. ASSUME NEW p \in 1..Len(all) PROVE all[p].of \in ModuleIds /\ all[p].dep \in DependenciesOf(all[p].of)
  <2>1. PICK i \in 1..Len(ms) : i = place[p][1] BY <1>8
  <2>2. all[p].of = ms[i] /\ place[p][2] \in 1..Len(batch.deps[ms[i]])
        /\ all[p].dep = batch.deps[ms[i]][place[p][2]]
    BY <1>8, <2>1
  <2>3. all[p].dep \in DependenciesOf(ms[i]) BY <1>9, <2>2
  <2> QED BY <1>3, <2>2, <2>3
<1>11. ASSUME NEW m \in ModuleIds, NEW d \in DependenciesOf(m)
       PROVE  \E p \in 1..Len(all) : all[p].of = m /\ all[p].dep = d
  <2>1. PICK i \in 1..Len(ms) : m = ms[i] BY <1>3
  <2>2. PICK j \in 1..Len(batch.deps[ms[i]]) : d = batch.deps[ms[i]][j] BY <1>9, <2>1
  <2>3. j \in 1..Len(lists[i]) BY <1>4, <2>2
  <2>4. PICK p \in 1..Len(all) : place[p] = <<i, j>> BY <1>7, <2>3 DEF Gathers
  <2>5. place[p][1] = i /\ place[p][2] = j BY <2>4
  <2> QED BY <1>8, <2>1, <2>2, <2>5
<1>12. ASSUME NEW p \in 1..Len(all), NEW q \in 1..Len(all), all[p].of = all[q].of,
              all[p].dep.to = all[q].dep.to, ListsOnce(all[p].of)
       PROVE  p = q
  <2>1. ms[place[p][1]] = ms[place[q][1]] BY <1>8, <1>12
  <2>2. place[p][1] = place[q][1] BY <1>1, <1>3, <1>8, <2>1 DEF IsInjective
  <2> DEFINE m == ms[place[p][1]]
  <2>3. ListsOnce(m) BY <1>8, <1>12
  <2>4. batch.deps[m][place[p][2]].to = batch.deps[m][place[q][2]].to BY <1>8, <1>12, <2>2
  <2>5. place[p][2] \in DOMAIN batch.deps[m] /\ place[q][2] \in DOMAIN batch.deps[m]
    <3>1. batch.deps[m] \in Seq(Dependency) BY <1>1, <1>3, <1>8
    <3>2. DOMAIN batch.deps[m] = 1..Len(batch.deps[m]) BY <3>1
    <3>3. place[p][2] \in 1..Len(batch.deps[m]) BY <1>8
    <3>4. place[q][2] \in 1..Len(batch.deps[m]) BY <1>8, <2>2
    <3> QED BY <3>2, <3>3, <3>4
  <2>6. place[p][2] = place[q][2] BY <2>3, <2>4, <2>5 DEF ListsOnce
  <2>7. place[p] = place[q] BY <1>8, <2>2, <2>6
  <2> QED BY <1>7, <2>7 DEF Gathers
<1> QED BY <1>6, <1>10, <1>11, <1>12 DEF all, A, Declared

----------------------------------------------------------------------------
(* The edges                                                                *)

Pair == [of : Int, dep : Dependency]
HowMany == Len(Declarations(batch)) - Len(unread)

LEMMA SortInitially == OrderInit => SortInv
<1> SUFFICES ASSUME OrderInit PROVE SortInv
  OBVIOUS
<1>1. /\ batch \in Batches /\ loop = "edges" /\ unread = Declarations(batch)
      /\ graph = [id \in batch.known \cup ModuleIds |-> {}]
      /\ inDegree = [m \in ModuleIds |-> 0]
      /\ queue = <<>> /\ loadOrder = <<>> /\ resolution.kind = "none"
  BY DEF OrderInit, Undecided
<1>2. unread \in Seq(Pair) /\ Len(unread) \in Nat
  BY <1>1, DeclarationsAll DEF Pair
<1>3. Read = {}
  BY <1>1, <1>2 DEF Read
<1>4. EdgesRead
  BY <1>1, <1>2, <1>3 DEF EdgesRead, Declared, Pair
<1>5. \A m \in ModuleIds : Awaited(m) = {}
  BY <1>1 DEF Awaited
<1>6. DegreesCount
  <2>1. Cardinality({}) = 0 BY FS_EmptySet
  <2>2. ASSUME NEW m \in ModuleIds PROVE inDegree[m] = Cardinality(Awaited(m)) /\ inDegree[m] = 0
    BY <1>1, <1>5, <2>1
  <2>3. inDegree \in [ModuleIds -> Int] BY <1>1
  <2>4. ASSUME NEW m \in ModuleIds PROVE inDegree[m] >= Cardinality(Awaited(m)) BY <2>2
  <2> QED BY <2>2, <2>3, <2>4 DEF DegreesCount
<1> QED
  BY <1>1, <1>4, <1>6 DEF SortInv, WasRefused, Refusals

LEMMA ReadMore ==
  ASSUME SortInv, unread # <<>>, unread' = Tail(unread), batch' = batch
  PROVE  /\ HowMany + 1 \in 1..Len(Declarations(batch)) /\ Declared(HowMany + 1) = Head(unread)
         /\ Read' = Read \cup {HowMany + 1} /\ HowMany + 1 \notin Read
         /\ unread' \in Seq(Pair) /\ Len(unread') <= Len(Declarations(batch))
         /\ \A i \in 1..Len(unread') : unread'[i] = Declared(Len(Declarations(batch)) - Len(unread') + i)
         /\ Head(unread).of \in ModuleIds /\ Head(unread).dep \in DependenciesOf(Head(unread).of)
<1> DEFINE l == Len(Declarations(batch))
<1>1. /\ unread \in Seq(Pair) /\ Len(unread) <= l
      /\ \A i \in 1..Len(unread) : unread[i] = Declared(l - Len(unread) + i)
  BY DEF SortInv, EdgesRead, Pair
<1>2. l \in Nat
  BY DeclarationsAll DEF SortInv
<1>3. Len(unread) \in Nat /\ Len(unread) > 0 /\ Head(unread) = unread[1]
      /\ Tail(unread) \in Seq(Pair) /\ Len(Tail(unread)) = Len(unread) - 1
      /\ \A i \in 1..(Len(unread) - 1) : Tail(unread)[i] = unread[i + 1]
  BY <1>1
<1> HIDE DEF l
<1>4. HowMany = l - Len(unread) /\ Read = 1..(l - Len(unread)) /\ Read' = 1..(l - (Len(unread) - 1))
  BY <1>3 DEF HowMany, Read, l
<1>5. HowMany + 1 \in 1..l /\ Declared(HowMany + 1) = Head(unread)
  BY <1>1, <1>2, <1>3, <1>4
<1>6. Read' = Read \cup {HowMany + 1} /\ HowMany + 1 \notin Read
  BY <1>1, <1>2, <1>3, <1>4
<1>7. ASSUME NEW i \in 1..Len(unread')
      PROVE  unread'[i] = Declared(l - Len(unread') + i)
  <2>1. i + 1 \in 1..Len(unread) /\ unread'[i] = unread[i + 1] BY <1>3
  <2>2. l - Len(unread) + (i + 1) = l - Len(unread') + i BY <1>2, <1>3
  <2> QED BY <1>1, <2>1, <2>2
<1>8. Head(unread).of \in ModuleIds /\ Head(unread).dep \in DependenciesOf(Head(unread).of)
  <2>1. HowMany + 1 \in 1..Len(Declarations(batch)) BY <1>5 DEF l
  <2> QED BY <1>5, <2>1, DeclarationsAll DEF SortInv
<1>9. unread' \in Seq(Pair) /\ Len(unread') <= l
  BY <1>1, <1>2, <1>3
<1> QED BY <1>5, <1>6, <1>7, <1>8, <1>9 DEF l

\* One more declaration is read, and is in the graph if it holds.
LEMMA EdgesMore ==
  ASSUME SortInv, unread # <<>>, unread' = Tail(unread), batch' = batch,
         Holds(Head(unread).dep) \/ Skipped(Head(unread).dep),
         graph' \in [batch.known \cup ModuleIds -> SUBSET ModuleIds],
         \A id \in batch.known \cup ModuleIds : \A m \in ModuleIds :
           m \in graph'[id] <=> \/ m \in graph[id]
                               \/ /\ Holds(Head(unread).dep)
                                  /\ Head(unread).of = m /\ Head(unread).dep.to = id
  PROVE  EdgesRead'
<1> DEFINE k == HowMany + 1
<1>1. /\ Declared(k) = Head(unread) /\ Read' = Read \cup {k}
      /\ unread' \in Seq(Pair) /\ Len(unread') <= Len(Declarations(batch))
      /\ \A i \in 1..Len(unread') : unread'[i] = Declared(Len(Declarations(batch)) - Len(unread') + i)
  BY ReadMore
<1> HIDE DEF k
<1>2. ModuleIds' = ModuleIds /\ Declarations(batch)' = Declarations(batch)
      /\ (\A p : Declared(p)' = Declared(p)) /\ \A d : Holds(d)' = Holds(d) /\ Skipped(d)' = Skipped(d)
  BY DEF ModuleIds, Declared, Holds, Skipped, Garbled, Missing, Misfit
<1>3. /\ \A p \in Read : Holds(Declared(p).dep) \/ Skipped(Declared(p).dep)
      /\ \A id \in batch.known \cup ModuleIds : \A m \in ModuleIds :
           m \in graph[id] <=> \E p \in Read : /\ Declared(p).of = m /\ Declared(p).dep.to = id
                                               /\ Holds(Declared(p).dep)
  BY DEF SortInv, EdgesRead
<1>4. \A p \in Read' : Holds(Declared(p).dep) \/ Skipped(Declared(p).dep)
  BY <1>1, <1>3
<1>5. ASSUME NEW id \in batch.known \cup ModuleIds, NEW m \in ModuleIds
      PROVE  m \in graph'[id] <=> \E p \in Read' : /\ Declared(p).of = m /\ Declared(p).dep.to = id
                                                   /\ Holds(Declared(p).dep)
  BY <1>1, <1>3
<1>6. (\A i \in 1..Len(unread) : unread[i] = Declared(Len(Declarations(batch)) - Len(unread) + i))'
  BY <1>1, <1>2 DEF Declared
<1>7. \A p \in Read' : Holds(Declared(p).dep)' \/ Skipped(Declared(p).dep)'
  BY <1>2, <1>4
<1>8. \A id \in (batch.known \cup ModuleIds)' : \A m \in ModuleIds' :
        m \in graph'[id] <=> \E p \in Read' : /\ Declared(p)'.of = m /\ Declared(p)'.dep.to = id
                                              /\ Holds(Declared(p).dep)'
  BY <1>2, <1>5
<1>9. Len(Declarations(batch))' = Len(Declarations(batch)) BY <1>2
<1> HIDE DEF Read
<1> QED BY <1>1, <1>2, <1>6, <1>7, <1>8, <1>9 DEF EdgesRead, Pair

LEMMA SkipStep ==
  ASSUME SortInv, SkipDependency
  PROVE  SortInv'
<1>1. loop = "edges" /\ unread # <<>> /\ Skipped(Head(unread).dep) /\ unread' = Tail(unread)
      /\ UNCHANGED <<batch, loop, graph, inDegree, queue, loadOrder, dfs, resolution>>
  BY DEF SkipDependency
<1>2. ~Holds(Head(unread).dep) /\ Skipped(Head(unread).dep)
  BY <1>1 DEF Skipped, Holds
<1>3. ModuleIds' = ModuleIds
  BY <1>1 DEF ModuleIds
<1>4. graph \in [batch.known \cup ModuleIds -> SUBSET ModuleIds]
  BY DEF SortInv, EdgesRead
<1>5. EdgesRead'
  BY <1>1, <1>2, <1>4, EdgesMore
<1>6. DegreesCount'
  BY <1>1, <1>3 DEF SortInv, DegreesCount, Awaited, ListsOnce
<1> QED BY <1>1, <1>5, <1>6 DEF SortInv, WasRefused, Refusals

LEMMA AwaitedFinite ==
  ASSUME SortInv, NEW m \in ModuleIds
  PROVE  IsFiniteSet(Awaited(m)) /\ Cardinality(Awaited(m)) \in Nat
<1>1. IsFiniteSet(batch.known \cup ModuleIds)
  BY BatchTyped, FS_Union DEF SortInv
<1>2. Awaited(m) \in SUBSET (batch.known \cup ModuleIds)
  BY DEF Awaited
<1> QED BY <1>1, <1>2, FS_Subset, FS_CardinalityType

LEMMA AddStep ==
  ASSUME SortInv, AddEdge
  PROVE  SortInv'
<1> DEFINE of == Head(unread).of
           d  == Head(unread).dep
           known == batch.known \cup ModuleIds
<1>1. /\ loop = "edges" /\ unread # <<>> /\ Holds(d) /\ unread' = Tail(unread)
      /\ graph' = [graph EXCEPT ![d.to] = @ \cup {of}]
      /\ inDegree' = [inDegree EXCEPT ![of] = @ + 1]
      /\ UNCHANGED <<batch, loop, queue, loadOrder, dfs, resolution>>
  BY DEF AddEdge, Holds
<1>2. /\ of \in ModuleIds /\ d \in DependenciesOf(of)
      /\ HowMany + 1 \in 1..Len(Declarations(batch)) /\ Declared(HowMany + 1) = Head(unread)
      /\ HowMany + 1 \notin Read
  BY <1>1, ReadMore
<1>3. d.to \in known
  BY <1>1 DEF Holds, Missing
<1>4. graph \in [known -> SUBSET ModuleIds] /\ inDegree \in [ModuleIds -> Int] /\ loadOrder = <<>>
  BY <1>1 DEF SortInv, EdgesRead, DegreesCount
<1>5. ModuleIds' = ModuleIds
  BY <1>1 DEF ModuleIds
<1>6. of \notin graph[d.to] \/ ~ListsOnce(of)
  <2> SUFFICES ASSUME of \in graph[d.to], ListsOnce(of) PROVE FALSE OBVIOUS
  <2>0. \A id \in known : \A m \in ModuleIds : m \in graph[id] =>
          \E p \in Read : Declared(p).of = m /\ Declared(p).dep.to = id
    BY DEF SortInv, EdgesRead
  <2> HIDE DEF of, d, known
  <2>1. PICK p \in Read : Declared(p).of = of /\ Declared(p).dep.to = d.to
    BY <1>2, <1>3, <2>0
  <2>2. p \in 1..Len(Declarations(batch))
    <3>1. Len(Declarations(batch)) \in Nat BY DeclarationsAll DEF SortInv
    <3>2. Len(unread) \in Nat BY DEF SortInv, EdgesRead
    <3> QED BY <2>1, <3>1, <3>2 DEF Read
  <2>3. Declared(HowMany + 1).of = of /\ Declared(HowMany + 1).dep.to = d.to
    BY <1>2 DEF of, d
  <2>4. \A q \in 1..Len(Declarations(batch)) :
          Declared(p).of = Declared(q).of /\ Declared(p).dep.to = Declared(q).dep.to /\ ListsOnce(Declared(p).of)
          => p = q
    BY <2>2, DeclarationsAll DEF SortInv
  <2>5. p = HowMany + 1
    BY <1>2, <2>1, <2>3, <2>4
  <2> QED BY <1>2, <2>1, <2>5
<1> HIDE DEF of, d
<1>7. \A id \in known : graph'[id] = IF id = d.to THEN graph[id] \cup {of} ELSE graph[id]
  BY <1>1, <1>3, <1>4
<1>8. EdgesRead'
  <2>1. graph' \in [known -> SUBSET ModuleIds] BY <1>1, <1>2, <1>3, <1>4
  <2>2. \A id \in known : \A m \in ModuleIds :
          m \in graph'[id] <=> \/ m \in graph[id]
                               \/ /\ Holds(Head(unread).dep)
                                  /\ Head(unread).of = m /\ Head(unread).dep.to = id
    <3>1. \A id \in known : \A m \in ModuleIds :
            m \in graph'[id] <=> m \in graph[id] \/ (Holds(d) /\ of = m /\ d.to = id)
      <4> TAKE id \in known
      <4> TAKE m \in ModuleIds
      <4>1. Holds(d) BY <1>1
      <4>2. CASE id = d.to BY <1>7, <4>1, <4>2
      <4>3. CASE id # d.to BY <1>7, <4>3
      <4> QED BY <4>2, <4>3
    <3> QED BY <3>1 DEF of, d
  <2> HIDE DEF known
  <2>3. Holds(Head(unread).dep) BY <1>1 DEF d
  <2> QED BY <1>1, <2>1, <2>2, <2>3, EdgesMore DEF known
<1>9. ASSUME NEW m \in ModuleIds
      PROVE  Awaited(m)' = IF m = of THEN Awaited(m) \cup {d.to} ELSE Awaited(m)
  <2>1. Awaited(m)' = {id \in known : m \in graph'[id]}
    BY <1>1, <1>4, <1>5 DEF Awaited, ToSet
  <2>2. Awaited(m) = {id \in known : m \in graph[id]}
    BY <1>4 DEF Awaited, ToSet
  <2> QED BY <1>3, <1>7, <2>1, <2>2
<1>10. inDegree' \in [ModuleIds -> Int] /\ \A m \in ModuleIds : inDegree'[m] = IF m = of THEN inDegree[m] + 1 ELSE inDegree[m]
  BY <1>1, <1>2, <1>4
<1>11. ASSUME NEW m \in ModuleIds
       PROVE  /\ inDegree'[m] >= Cardinality(Awaited(m)')
              /\ ListsOnce(m) => inDegree'[m] = Cardinality(Awaited(m)')
  <2>1. inDegree[m] >= Cardinality(Awaited(m)) /\ (ListsOnce(m) => inDegree[m] = Cardinality(Awaited(m)))
    BY DEF SortInv, DegreesCount
  <2>2. CASE m # of
    BY <1>9, <1>10, <2>1, <2>2
  <2>3. CASE m = of
    <3>1. IsFiniteSet(Awaited(m)) /\ Cardinality(Awaited(m)) \in Nat /\ inDegree[m] \in Int
      BY <1>4, AwaitedFinite
    <3>2. Cardinality(Awaited(m) \cup {d.to}) = IF d.to \in Awaited(m) THEN Cardinality(Awaited(m)) ELSE Cardinality(Awaited(m)) + 1
      BY <3>1, FS_AddElement
    <3>3. ListsOnce(m) => d.to \notin Awaited(m)
      BY <1>6, <2>3 DEF Awaited
    <3>4. Awaited(m)' = Awaited(m) \cup {d.to} /\ inDegree'[m] = inDegree[m] + 1
      BY <1>9, <1>10, <2>3
    <3> QED BY <2>1, <3>1, <3>2, <3>3, <3>4
  <2> QED BY <2>2, <2>3
<1>12. \A m : ListsOnce(m)' = ListsOnce(m)
  BY <1>1 DEF ListsOnce
<1>13. DegreesCount'
  BY <1>5, <1>10, <1>11, <1>12 DEF DegreesCount
<1> QED BY <1>1, <1>8, <1>13 DEF SortInv, WasRefused, Refusals

LEMMA RefuseStep ==
  ASSUME SortInv, RefuseDependency
  PROVE  SortInv' /\ WasRefused'
<1> DEFINE of == Head(unread).of
           d  == Head(unread).dep
<1>1. /\ loop = "edges" /\ unread # <<>> /\ Refused(d)
      /\ loop' = "done" /\ WasRefused' /\ resolution'.path[1] = of
      /\ UNCHANGED <<batch, unread, graph, inDegree, queue, loadOrder, dfs>>
  BY DEF RefuseDependency, Decided, WasRefused, Refusals
<1>2. of \in ModuleIds /\ d \in DependenciesOf(of)
  <2>1. Len(unread) \in Nat \ {0} /\ Len(unread) <= Len(Declarations(batch))
        /\ unread[1] = Declared(Len(Declarations(batch)) - Len(unread) + 1)
    BY <1>1 DEF SortInv, EdgesRead
  <2>2. Len(Declarations(batch)) \in Nat BY DeclarationsAll DEF SortInv
  <2>3. Len(Declarations(batch)) - Len(unread) + 1 \in 1..Len(Declarations(batch)) BY <2>1, <2>2
  <2>4. Head(unread) = unread[1] BY <1>1 DEF SortInv, EdgesRead
  <2> QED BY <2>1, <2>3, <2>4, DeclarationsAll DEF SortInv
<1>3. of \in Refusing
  BY <1>1, <1>2 DEF Refusing
<1> HIDE DEF of, d
<1>4. ModuleIds' = ModuleIds /\ Refusing' = Refusing /\ EdgesRead' = EdgesRead /\ DegreesCount' = DegreesCount
  BY <1>1 DEF ModuleIds, Refusing, Refused, Garbled, DependenciesOf, Missing, Misfit, EdgesRead, DegreesCount, Declared,
     Holds, Skipped, Read, Awaited, ListsOnce
<1> QED BY <1>1, <1>3, <1>4 DEF SortInv, WasRefused, Refusals

----------------------------------------------------------------------------
(* The sort                                                                 *)

LEMMA FreeModules ==
  ASSUME SortInv
  PROVE  Free(inDegree) \in SUBSET ModuleIds /\ Free(inDegree) \in SUBSET Int /\ IsFiniteSet(Free(inDegree))
<1>1. Free(inDegree) \in SUBSET ModuleIds
  BY DEF SortInv, DegreesCount, Free
<1> QED BY <1>1, BatchTyped, FS_Subset DEF SortInv

LEMMA SameEdges ==
  ASSUME SortInv, UNCHANGED <<batch, unread, graph>>
  PROVE  EdgesRead' /\ ModuleIds' = ModuleIds
<1>1. ModuleIds' = ModuleIds /\ EdgesRead' = EdgesRead
  BY DEF EdgesRead, ModuleIds, Declared, Holds, Skipped, Garbled, Missing, Misfit, Read
<1> QED BY <1>1 DEF SortInv

LEMMA StartStep ==
  ASSUME SortInv, SortStarts
  PROVE  SortInv'
<1>1. /\ loop = "edges" /\ unread = <<>> /\ loop' = "sort" /\ queue' = Sorted(Free(inDegree))
      /\ loadOrder = <<>> /\ ~WasRefused
      /\ UNCHANGED <<batch, unread, graph, inDegree, loadOrder, dfs, resolution>>
  BY DEF SortStarts, SortInv, WasRefused, Refusals
<1>2. EdgesRead' /\ ModuleIds' = ModuleIds
  BY <1>1, SameEdges
<1>3. DegreesCount'
  BY <1>1, <1>2 DEF SortInv, DegreesCount, Awaited, ListsOnce
<1> DEFINE starts == Sorted(Free(inDegree))
<1>4. /\ starts \in Seq(Free(inDegree)) /\ ToSet(starts) = Free(inDegree)
      /\ \A i, j \in 1..Len(starts) : starts[i] = starts[j] => i = j
  BY FreeModules, SortedLists
<1> HIDE DEF starts
<1>5. Line' = starts /\ queue' = starts
  <2>1. queue' = starts /\ loadOrder' = <<>> BY <1>1 DEF starts
  <2>2. <<>> \o starts = starts BY <1>4
  <2> QED BY <2>1, <2>2 DEF Line
<1>6. starts \in Seq(ModuleIds)
  BY <1>4, FreeModules
<1>7. Free(inDegree)' = Free(inDegree)
  BY <1>1 DEF Free
<1>8. LineHolds'
  <2>1. loadOrder' \in Seq(ModuleIds') /\ queue' \in Seq(ModuleIds') BY <1>1, <1>2, <1>5, <1>6
  <2>2. Len(loadOrder') = 0 BY <1>1
  <2> QED BY <1>4, <1>5, <1>7, <2>1, <2>2 DEF LineHolds
<1> QED BY <1>1, <1>2, <1>3, <1>8 DEF SortInv, WasRefused, Refusals

LEMMA LineGrows ==
  ASSUME NEW A, NEW s \in Seq(A), NEW q \in Seq(A), q # <<>>, NEW app \in Seq(A),
         NEW old, old = s \o q, NEW new, new = Append(s, Head(q)) \o (Tail(q) \o app)
  PROVE  /\ Len(old) \in Nat /\ Len(app) \in Nat /\ Len(new) = Len(old) + Len(app)
         /\ \A j \in 1..Len(old) : new[j] = old[j]
         /\ \A j \in (Len(old) + 1)..Len(new) : new[j] = app[j - Len(old)]
<1> DEFINE front == Append(s, Head(q))
           rest == Tail(q) \o app
<1>0. new = front \o rest
  OBVIOUS
<1>1. /\ Len(s) \in Nat /\ Len(q) \in Nat \ {0} /\ Len(app) \in Nat
      /\ Len(old) = Len(s) + Len(q) /\ Len(front) = Len(s) + 1 /\ Len(rest) = Len(q) - 1 + Len(app)
      /\ front \in Seq(A) /\ rest \in Seq(A)
  OBVIOUS
<1>2. /\ \A j \in 1..Len(s) : old[j] = s[j] /\ front[j] = s[j]
      /\ \A j \in (Len(s) + 1)..(Len(s) + Len(q)) : old[j] = q[j - Len(s)]
      /\ front[Len(s) + 1] = q[1]
  OBVIOUS
<1>3. /\ \A j \in 1..(Len(q) - 1) : rest[j] = q[j + 1]
      /\ \A j \in Len(q)..(Len(q) - 1 + Len(app)) : rest[j] = app[j - (Len(q) - 1)]
  OBVIOUS
<1> HIDE DEF front, rest
<1>4. /\ Len(new) = Len(front) + Len(rest)
      /\ \A j \in 1..Len(front) : new[j] = front[j]
      /\ \A j \in (Len(front) + 1)..(Len(front) + Len(rest)) : new[j] = rest[j - Len(front)]
  <2>0. front \in Seq(A) /\ rest \in Seq(A) BY <1>1
  <2>1. /\ Len(front \o rest) = Len(front) + Len(rest)
        /\ \A j \in 1..Len(front) : (front \o rest)[j] = front[j]
        /\ \A j \in (Len(front) + 1)..(Len(front) + Len(rest)) : (front \o rest)[j] = rest[j - Len(front)]
    BY <2>0
  <2> QED BY <1>0, <2>1
<1>5. ASSUME NEW j \in 1..Len(old) PROVE new[j] = old[j]
  <2>1. CASE j <= Len(s) BY <1>1, <1>2, <1>4, <2>1
  <2>2. CASE j = Len(s) + 1
    <3>1. j \in (Len(s) + 1)..(Len(s) + Len(q)) /\ j - Len(s) = 1 /\ j \in 1..Len(front) BY <1>1, <2>2
    <3>2. old[j] = q[1] /\ new[j] = front[Len(s) + 1] BY <1>2, <1>4, <2>2, <3>1
    <3> QED BY <1>2, <3>2
  <2>3. CASE j > Len(s) + 1
    <3>0. j \in (Len(s) + 1)..(Len(s) + Len(q)) /\ j \in (Len(front) + 1)..(Len(front) + Len(rest))
      BY <1>1, <2>3
    <3>1. old[j] = q[j - Len(s)] BY <1>2, <3>0
    <3>2. new[j] = rest[j - Len(front)] BY <1>4, <3>0
    <3>3. j - Len(front) \in 1..(Len(q) - 1) /\ j - Len(front) + 1 = j - Len(s) BY <1>1, <2>3
    <3> QED BY <1>3, <3>1, <3>2, <3>3
  <2> QED BY <1>1, <2>1, <2>2, <2>3
<1>6. ASSUME NEW j \in (Len(old) + 1)..Len(new) PROVE new[j] = app[j - Len(old)]
  <2>0. j \in (Len(front) + 1)..(Len(front) + Len(rest)) BY <1>1, <1>4
  <2>1. new[j] = rest[j - Len(front)] BY <1>4, <2>0
  <2>2. j - Len(front) \in Len(q)..(Len(q) - 1 + Len(app)) /\ (j - Len(front)) - (Len(q) - 1) = j - Len(old)
    BY <1>1, <1>4
  <2> QED BY <1>3, <2>1, <2>2
<1>7. Len(old) \in Nat /\ Len(new) = Len(old) + Len(app)
  <2>1. Len(new) = Len(front) + Len(rest) BY <1>4
  <2> QED BY <1>1, <2>1
<1> QED BY <1>1, <1>5, <1>6, <1>7

LEMMA TakeFromQueue ==
  ASSUME SortInv, TakeNext
  PROVE  SortInv'
<1> DEFINE m == Head(queue)
           New == {w \in graph[m] : inDegree'[w] = 0}
           app == Sorted(New)
           known == batch.known \cup ModuleIds
<1>1. /\ loop = "sort" /\ queue # <<>> /\ loadOrder' = Append(loadOrder, m) /\ inDegree' = Released(m)
      /\ queue' = Tail(queue) \o app
      /\ UNCHANGED <<batch, loop, unread, graph, dfs, resolution>>
  BY DEF TakeNext
<1>2. EdgesRead' /\ ModuleIds' = ModuleIds
  BY <1>1, SameEdges
<1>3. ~WasRefused /\ unread = <<>> /\ LineHolds /\ DegreesCount /\ graph \in [known -> SUBSET ModuleIds]
  BY <1>1 DEF SortInv, WasRefused, Refusals, EdgesRead
<1>4. /\ loadOrder \in Seq(ModuleIds) /\ queue \in Seq(ModuleIds)
      /\ \A i, j \in 1..Len(Line) : Line[i] = Line[j] => i = j
      /\ ToSet(Line) = Free(inDegree)
      /\ \A j \in 1..Len(loadOrder) : \A id \in known :
           loadOrder[j] \in graph[id] => \E i \in 1..(j - 1) : loadOrder[i] = id
  BY <1>3 DEF LineHolds
<1> DEFINE l == Len(loadOrder)
<1>5. /\ m \in ModuleIds /\ m \in known /\ l \in Nat /\ Line \in Seq(ModuleIds)
      /\ l + 1 \in 1..Len(Line) /\ Line[l + 1] = m
      /\ (\A i \in 1..l : i \in 1..Len(Line) /\ Line[i] = loadOrder[i])
      /\ ToSet(loadOrder) = {loadOrder[i] : i \in 1..l}
  BY <1>1, <1>4 DEF Line, ToSet
<1>6. m \notin ToSet(loadOrder)
  BY <1>4, <1>5
<1>7. m \in Free(inDegree)
  BY <1>4, <1>5 DEF ToSet
<1>8. inDegree \in [ModuleIds -> Int] /\ inDegree[m] = 0
  BY <1>3, <1>7 DEF DegreesCount, Free
<1>9. ASSUME NEW w \in ModuleIds, inDegree[w] = 0 PROVE Awaited(w) = {}
  <2>1. IsFiniteSet(Awaited(w)) /\ Cardinality(Awaited(w)) \in Nat BY AwaitedFinite
  <2>2. Cardinality(Awaited(w)) = 0 BY <1>3, <1>9, <2>1 DEF DegreesCount
  <2> QED BY <2>1, <2>2, FS_EmptySet
<1>10. /\ loadOrder' \in Seq(ModuleIds) /\ Len(loadOrder') = l + 1 /\ loadOrder'[l + 1] = m
       /\ \A i \in 1..l : loadOrder'[i] = loadOrder[i]
  BY <1>1, <1>4, <1>5
<1>11. ToSet(loadOrder') = ToSet(loadOrder) \cup {m}
  BY <1>5, <1>10 DEF ToSet
<1>12. \A w \in ModuleIds : m \in Awaited(w) <=> w \in graph[m]
  BY <1>5, <1>6 DEF Awaited
<1>13. \A w \in ModuleIds : Awaited(w)' = Awaited(w) \ {m}
  BY <1>1, <1>2, <1>11 DEF Awaited
<1>14. inDegree' \in [ModuleIds -> Int]
       /\ \A w \in ModuleIds : inDegree'[w] = IF w \in graph[m] THEN inDegree[w] - 1 ELSE inDegree[w]
  BY <1>1, <1>8 DEF Released
<1> HIDE DEF m, l
<1>15. ASSUME NEW w \in ModuleIds
       PROVE  /\ inDegree'[w] >= Cardinality(Awaited(w)')
              /\ ListsOnce(w) => inDegree'[w] = Cardinality(Awaited(w)')
  <2>1. IsFiniteSet(Awaited(w)) /\ Cardinality(Awaited(w)) \in Nat BY AwaitedFinite
  <2>2. Cardinality(Awaited(w) \ {m}) = IF m \in Awaited(w) THEN Cardinality(Awaited(w)) - 1 ELSE Cardinality(Awaited(w))
    BY <2>1, FS_RemoveElement
  <2>3. inDegree[w] >= Cardinality(Awaited(w)) /\ (ListsOnce(w) => inDegree[w] = Cardinality(Awaited(w)))
    BY <1>3 DEF DegreesCount
  <2>4. inDegree[w] \in Int BY <1>8
  <2>5. Awaited(w)' = Awaited(w) \ {m} BY <1>13
  <2>6. CASE w \in graph[m]
    <3>1. Cardinality(Awaited(w)') = Cardinality(Awaited(w)) - 1 /\ inDegree'[w] = inDegree[w] - 1
      BY <1>12, <1>14, <2>2, <2>5, <2>6
    <3> QED BY <2>1, <2>3, <2>4, <3>1
  <2>7. CASE w \notin graph[m]
    <3>1. Cardinality(Awaited(w)') = Cardinality(Awaited(w)) /\ inDegree'[w] = inDegree[w]
      BY <1>12, <1>14, <2>2, <2>5, <2>7
    <3> QED BY <2>3, <3>1
  <2> QED BY <2>6, <2>7
<1>16. DegreesCount'
  <2>1. \A w : ListsOnce(w)' = ListsOnce(w) BY <1>1 DEF ListsOnce
  <2> QED BY <1>2, <1>14, <1>15, <2>1 DEF DegreesCount
<1>17. \A w \in ModuleIds : inDegree[w] = 0 => w \notin graph[m]
  BY <1>9, <1>12
<1>18. New \in SUBSET ModuleIds /\ New \in SUBSET Int /\ IsFiniteSet(New)
  <2>1. New \in SUBSET ModuleIds BY <1>3, <1>5
  <2> QED BY <2>1, BatchTyped, FS_Subset DEF SortInv
<1>19. Free(inDegree)' = Free(inDegree) \cup New /\ Free(inDegree) \cap New = {}
  <2>1. Free(inDegree) = {w \in ModuleIds : inDegree[w] = 0} BY <1>8 DEF Free
  <2>2. Free(inDegree)' = {w \in ModuleIds : inDegree'[w] = 0} BY <1>14 DEF Free
  <2> QED BY <1>14, <1>17, <1>18, <2>1, <2>2
<1>20. /\ app \in Seq(New) /\ ToSet(app) = New /\ app \in Seq(ModuleIds)
       /\ \A i, j \in 1..Len(app) : app[i] = app[j] => i = j
  <2> HIDE DEF New
  <2>1. /\ app \in Seq(New) /\ ToSet(app) = New
        /\ \A i, j \in 1..Len(app) : app[i] = app[j] => i = j
    BY <1>18, SortedLists
  <2> HIDE DEF app
  <2>2. Len(app) \in Nat /\ app \in [1..Len(app) -> New] BY <2>1
  <2>3. app \in [1..Len(app) -> ModuleIds] BY <1>18, <2>2
  <2>4. app \in Seq(ModuleIds) BY <2>2, <2>3, ListOfLength
  <2> QED BY <2>1, <2>4
<1> HIDE DEF app, New
<1>21. /\ Len(Line) \in Nat /\ Len(app) \in Nat /\ Len(Line') = Len(Line) + Len(app)
       /\ \A j \in 1..Len(Line) : Line'[j] = Line[j]
       /\ \A j \in (Len(Line) + 1)..Len(Line') : Line'[j] = app[j - Len(Line)]
  <2>1. Line = loadOrder \o queue /\ Line' = Append(loadOrder, Head(queue)) \o (Tail(queue) \o app)
    BY <1>1 DEF Line, m
  <2>2. loadOrder \in Seq(ModuleIds) /\ queue \in Seq(ModuleIds) /\ queue # <<>> /\ app \in Seq(ModuleIds)
    BY <1>1, <1>4, <1>20
  <2> QED BY <2>1, <2>2, LineGrows
<1>22. queue' \in Seq(ModuleIds)
  BY <1>1, <1>4, <1>20
<1>23. Line' \in Seq(ModuleIds)
  BY <1>10, <1>22 DEF Line
<1>24. \A j \in (Len(Line) + 1)..Len(Line') : j - Len(Line) \in 1..Len(app)
  BY <1>21
<1>25. ASSUME NEW i \in 1..Len(Line'), NEW j \in 1..Len(Line'), Line'[i] = Line'[j] PROVE i = j
  <2>1. \A k \in 1..Len(Line') : IF k <= Len(Line) THEN Line'[k] \in Free(inDegree) ELSE Line'[k] \in New
    <3> TAKE k \in 1..Len(Line')
    <3>1. CASE k <= Len(Line)
      <4>1. k \in 1..Len(Line) /\ Line'[k] = Line[k] BY <1>21, <3>1
      <4>2. Line[k] \in ToSet(Line) BY <1>5, <4>1 DEF ToSet
      <4> QED BY <1>4, <3>1, <4>1, <4>2
    <3>2. CASE ~(k <= Len(Line))
      <4>1. k \in (Len(Line) + 1)..Len(Line') BY <1>21, <3>2
      <4>2. Line'[k] = app[k - Len(Line)] /\ k - Len(Line) \in 1..Len(app) BY <1>21, <1>24, <4>1
      <4>3. app[k - Len(Line)] \in New BY <1>20, <4>2
      <4> QED BY <3>2, <4>2, <4>3
    <3> QED BY <3>1, <3>2
  <2>2. (i <= Len(Line)) = (j <= Len(Line)) BY <1>19, <1>25, <2>1
  <2>3. CASE i <= Len(Line)
    <3>1. i \in 1..Len(Line) /\ j \in 1..Len(Line) BY <1>21, <2>2, <2>3
    <3> QED BY <1>4, <1>21, <1>25, <3>1
  <2>4. CASE ~(i <= Len(Line))
    <3>1. i \in (Len(Line) + 1)..Len(Line') /\ j \in (Len(Line) + 1)..Len(Line') BY <1>21, <2>2, <2>4
    <3>2. app[i - Len(Line)] = app[j - Len(Line)] BY <1>21, <1>25, <3>1
    <3>3. i - Len(Line) = j - Len(Line) BY <1>20, <1>24, <3>1, <3>2
    <3> QED BY <1>21, <3>3
  <2> QED BY <2>3, <2>4
<1>26. ToSet(Line') = ToSet(Line) \cup New
  <2>1. ToSet(Line') = {Line'[j] : j \in 1..Len(Line')} BY <1>23 DEF ToSet
  <2>2. ToSet(Line) = {Line[j] : j \in 1..Len(Line)} BY <1>5 DEF ToSet
  <2>3. New = {app[j] : j \in 1..Len(app)} BY <1>20 DEF ToSet
  <2>4. \A j \in 1..Len(Line') : Line'[j] \in ToSet(Line) \cup New
    <3> TAKE j \in 1..Len(Line')
    <3>1. j \in 1..Len(Line) \/ j \in (Len(Line) + 1)..Len(Line') BY <1>21
    <3> QED BY <1>21, <1>24, <2>2, <2>3, <3>1
  <2>5. \A j \in 1..Len(Line) : j \in 1..Len(Line') /\ Line[j] = Line'[j] BY <1>21
  <2>6. ASSUME NEW j \in 1..Len(app) PROVE app[j] \in ToSet(Line')
    <3>1. Len(Line) + j \in (Len(Line) + 1)..Len(Line') /\ (Len(Line) + j) - Len(Line) = j
          /\ Len(Line) + j \in 1..Len(Line')
      BY <1>21
    <3>2. Line'[Len(Line) + j] = app[j] BY <1>21, <3>1
    <3> QED BY <2>1, <3>1, <3>2
  <2>7. ToSet(Line) \subseteq ToSet(Line') BY <2>1, <2>2, <2>5
  <2>8. New \subseteq ToSet(Line') BY <2>3, <2>6
  <2> QED BY <2>1, <2>4, <2>7, <2>8
<1>27. ASSUME NEW j \in 1..Len(loadOrder'), NEW id \in known, loadOrder'[j] \in graph[id]
       PROVE  \E i \in 1..(j - 1) : loadOrder'[i] = id
  <2>1. CASE j = l + 1
    <3>1. Awaited(m) = {} BY <1>5, <1>8, <1>9
    <3>2. id \in ToSet(loadOrder) BY <1>10, <1>27, <2>1, <3>1 DEF Awaited
    <3>3. PICK i \in 1..l : loadOrder[i] = id BY <1>5, <3>2
    <3>4. i \in 1..(j - 1) BY <1>5, <2>1, <3>3
    <3> QED BY <1>10, <3>3, <3>4
  <2>2. CASE j # l + 1
    <3>1. j \in 1..l /\ loadOrder[j] \in graph[id] BY <1>5, <1>10, <1>27, <2>2
    <3>2. PICK i \in 1..(j - 1) : loadOrder[i] = id BY <1>4, <3>1 DEF l
    <3>3. i \in 1..l BY <1>5, <3>1, <3>2
    <3> QED BY <1>10, <3>2, <3>3
  <2> QED BY <2>1, <2>2
<1>28. LineHolds'
  <2>1. ToSet(Line)' = Free(inDegree)' BY <1>4, <1>19, <1>26
  <2>2. known' = known BY <1>1, <1>2
  <2>3. graph' = graph BY <1>1
  <2> HIDE DEF known
  <2>4. /\ loadOrder' \in Seq(ModuleIds') /\ queue' \in Seq(ModuleIds')
        /\ \A i, j \in 1..Len(Line') : Line'[i] = Line'[j] => i = j
        /\ \A j \in 1..Len(loadOrder') : \A id \in known' :
             loadOrder'[j] \in graph'[id] => \E i \in 1..(j - 1) : loadOrder'[i] = id
    BY <1>2, <1>10, <1>22, <1>25, <1>27, <2>2, <2>3
  <2> QED BY <2>1, <2>4 DEF LineHolds, known
<1> QED BY <1>1, <1>2, <1>3, <1>16, <1>28 DEF SortInv, WasRefused, Refusals

\* The sort is over: only the search goes on.
LEMMA SortKept ==
  ASSUME SortInv, loop \in {"sort", "search"}, queue = <<>>,
         UNCHANGED <<batch, unread, graph, inDegree, queue, loadOrder>>,
         \/ loop' = "search" /\ resolution' = resolution /\ Remaining # {}
         \/ loop' = "done" /\ resolution'.kind = "ordered" /\ resolution'.path = loadOrder /\ Remaining = {}
         \/ loop' = "done" /\ resolution'.kind \in {"circular", "blocked"} /\ Remaining # {}
  PROVE  SortInv' /\ Remaining' = Remaining
<1>1. EdgesRead' /\ ModuleIds' = ModuleIds
  BY SameEdges
<1>2. ~WasRefused /\ unread = <<>> /\ LineHolds /\ DegreesCount
  BY DEF SortInv, WasRefused, Refusals
<1>3. LineHolds'
  BY <1>1, <1>2 DEF LineHolds, Line, Free
<1>4. DegreesCount'
  BY <1>1, <1>2 DEF DegreesCount, Awaited, ListsOnce
<1>5. Remaining' = Remaining
  BY <1>1 DEF Remaining
<1> QED BY <1>1, <1>2, <1>3, <1>4, <1>5 DEF SortInv, WasRefused, Refusals

LEMMA EndStep ==
  ASSUME SortInv, SortEnds
  PROVE  SortInv' /\ Remaining' = Remaining
<1>1. /\ loop = "sort" /\ queue = <<>> /\ UNCHANGED <<batch, unread, graph, inDegree, queue, loadOrder>>
      /\ \/ Remaining = {} /\ loop' = "done" /\ resolution' = [kind |-> "ordered", path |-> loadOrder]
         \/ Remaining # {} /\ loop' = "search" /\ resolution' = resolution
  BY DEF SortEnds, Decided
<1> QED BY <1>1, SortKept

----------------------------------------------------------------------------
(* What follows for the order and for the refusals                          *)

\* When all declarations are read, a module is in the graph with all it enforces.
LEMMA AllRead ==
  ASSUME SortInv, unread = <<>>
  PROVE  /\ Read = 1..Len(Declarations(batch))
         /\ Refusing = {}
         /\ \A m \in ModuleIds : \A id \in batch.known \cup ModuleIds :
              m \in graph[id] <=> id \in Enforced(m)
         /\ \A m \in ModuleIds : Enforced(m) \subseteq batch.known
<1> DEFINE known == batch.known \cup ModuleIds
<1>1. Read = 1..Len(Declarations(batch))
  <2>1. Len(Declarations(batch)) \in Nat BY DeclarationsAll DEF SortInv
  <2>2. Len(unread) = 0 OBVIOUS
  <2> QED BY <2>1, <2>2 DEF Read
<1>2. /\ \A p \in Read : Holds(Declared(p).dep) \/ Skipped(Declared(p).dep)
      /\ \A id \in known : \A m \in ModuleIds :
           m \in graph[id] <=> \E p \in Read : /\ Declared(p).of = m /\ Declared(p).dep.to = id
                                               /\ Holds(Declared(p).dep)
  BY DEF SortInv, EdgesRead
<1>3. /\ \A p \in Read : Declared(p).of \in ModuleIds /\ Declared(p).dep \in DependenciesOf(Declared(p).of)
      /\ \A m \in ModuleIds : \A d \in DependenciesOf(m) : \E p \in Read : Declared(p).of = m /\ Declared(p).dep = d
  BY <1>1, DeclarationsAll DEF SortInv
<1>4. \A m \in ModuleIds : \A d \in DependenciesOf(m) : Holds(d) \/ Skipped(d)
  BY <1>2, <1>3
<1>5. Refusing = {}
  <2>1. \A d : Holds(d) \/ Skipped(d) => ~Refused(d) BY GarbledMisfits DEF Holds, Skipped, Refused
  <2> QED BY <1>4, <2>1 DEF Refusing
<1>6. \A m \in ModuleIds : \A d \in DependenciesOf(m) : Skipped(d) <=> ~Holds(d)
  BY <1>4 DEF Skipped, Holds
<1>7. \A m \in ModuleIds : Enforced(m) = {d.to : d \in {x \in DependenciesOf(m) : Holds(x)}}
  BY <1>6 DEF Enforced
<1>8. ASSUME NEW m \in ModuleIds, NEW id \in known
      PROVE  m \in graph[id] <=> id \in Enforced(m)
  <2>1. ASSUME m \in graph[id] PROVE id \in Enforced(m)
    <3>1. PICK p \in Read : Declared(p).of = m /\ Declared(p).dep.to = id /\ Holds(Declared(p).dep)
      BY <1>2, <2>1
    <3> QED BY <1>3, <1>7, <3>1
  <2>2. ASSUME id \in Enforced(m) PROVE m \in graph[id]
    <3>1. PICK d \in DependenciesOf(m) : Holds(d) /\ id = d.to BY <1>7, <2>2
    <3>2. PICK p \in Read : Declared(p).of = m /\ Declared(p).dep = d BY <1>3
    <3> QED BY <1>2, <3>1, <3>2
  <2> QED BY <2>1, <2>2
<1>9. \A m \in ModuleIds : Enforced(m) \subseteq batch.known
  BY <1>7 DEF Holds, Missing
<1> QED BY <1>1, <1>5, <1>8, <1>9

LEMMA OrderIs == SortInv => OrderFollows
<1> SUFFICES ASSUME SortInv, resolution.kind = "ordered"
             PROVE  resolution.path \in SetToSeqs(ModuleIds) /\ Respects(resolution.path)
  BY DEF OrderFollows
<1>1. /\ loop = "done" /\ queue = <<>> /\ unread = <<>> /\ LineHolds
      /\ Remaining = {} /\ resolution.path = loadOrder
  BY DEF SortInv, WasRefused, Refusals
<1>2. /\ loadOrder \in Seq(ModuleIds) /\ Line = loadOrder
      /\ \A i, j \in 1..Len(loadOrder) : loadOrder[i] = loadOrder[j] => i = j
      /\ \A j \in 1..Len(loadOrder) : \A id \in batch.known \cup ModuleIds :
           loadOrder[j] \in graph[id] => \E i \in 1..(j - 1) : loadOrder[i] = id
  <2>1. loadOrder \in Seq(ModuleIds) BY <1>1 DEF LineHolds
  <2>2. Line = loadOrder BY <1>1, <2>1 DEF Line
  <2> QED BY <1>1, <2>1, <2>2 DEF LineHolds
<1>3. /\ Len(loadOrder) \in Nat /\ DOMAIN loadOrder = 1..Len(loadOrder)
      /\ loadOrder \in [1..Len(loadOrder) -> ModuleIds]
      /\ ToSet(loadOrder) = {loadOrder[i] : i \in 1..Len(loadOrder)}
  BY <1>2 DEF ToSet
<1>4. \A m \in ModuleIds : \E i \in 1..Len(loadOrder) : loadOrder[i] = m
  BY <1>1, <1>3 DEF Remaining
<1>5. Len(loadOrder) = Cardinality(ModuleIds)
  <2>1. IsFiniteSet(1..Len(loadOrder)) /\ Cardinality(1..Len(loadOrder)) = Len(loadOrder)
    BY <1>3, FS_Interval
  <2>2. loadOrder \in Surjection(1..Len(loadOrder), ModuleIds)
    BY <1>3, <1>4 DEF Surjection
  <2>3. loadOrder \in Injection(1..Len(loadOrder), ModuleIds)
    BY <1>2, <1>3 DEF Injection, IsInjective
  <2> QED BY <2>1, <2>2, <2>3, FS_Surjection
<1>6. loadOrder \in SetToSeqs(ModuleIds)
  BY <1>2, <1>3, <1>5 DEF SetToSeqs
<1>7. ASSUME NEW m \in ModuleIds, NEW to \in Enforced(m) PROVE Precedes(loadOrder, to, m)
  <2>1. to \in batch.known \cup ModuleIds /\ m \in graph[to] BY <1>1, AllRead
  <2>2. PICK j \in 1..Len(loadOrder) : loadOrder[j] = m BY <1>4
  <2>3. PICK i \in 1..(j - 1) : loadOrder[i] = to BY <1>2, <2>1, <2>2
  <2>4. i \in DOMAIN loadOrder /\ j \in DOMAIN loadOrder /\ i < j BY <1>3, <2>3
  <2> QED BY <2>2, <2>3, <2>4 DEF Precedes
<1> QED BY <1>1, <1>6, <1>7 DEF Respects

LEMMA RefusalsAre ==
  ASSUME SortInv, loop = "done"
  PROVE  (WasRefused <=> Refusing # {}) /\ (WasRefused => resolution.path[1] \in Refusing)
<1>1. WasRefused => resolution.path[1] \in Refusing
  BY DEF SortInv
<1>2. ~WasRefused => unread = <<>>
  BY DEF SortInv
<1> QED BY <1>1, <1>2, AllRead

\* A batch of its own that lists nothing twice only stalls on a cycle.
LEMMA StallsOnCycles ==
  ASSUME SortInv, loop = "done", ~WasRefused, Remaining # {}, Acyclic,
         \A m \in ModuleIds : Enforced(m) \subseteq ModuleIds /\ ListsOnce(m)
  PROVE  FALSE
<1>1. queue = <<>> /\ unread = <<>> /\ LineHolds /\ DegreesCount
  BY DEF SortInv
<1>2. ToSet(loadOrder) = Free(inDegree) /\ inDegree \in [ModuleIds -> Int]
  <2>1. loadOrder \in Seq(ModuleIds) BY <1>1 DEF LineHolds
  <2>2. Line = loadOrder BY <1>1, <2>1 DEF Line
  <2> QED BY <1>1, <2>2 DEF LineHolds, DegreesCount
<1>3. ASSUME NEW m \in Remaining
      PROVE  \E to \in Remaining : to \in Enforced(m)
  <2>1. m \in ModuleIds /\ inDegree[m] # 0 BY <1>2 DEF Remaining, Free
  <2>2. inDegree[m] = Cardinality(Awaited(m)) BY <1>1, <2>1 DEF DegreesCount
  <2>3. Awaited(m) # {} BY <2>1, <2>2, FS_EmptySet
  <2>4. PICK to \in batch.known \cup ModuleIds : m \in graph[to] /\ to \notin ToSet(loadOrder)
    BY <2>3 DEF Awaited
  <2>5. to \in Enforced(m) BY <1>1, <2>1, <2>4, AllRead
  <2>6. to \in ModuleIds BY <2>1, <2>5
  <2> QED BY <2>4, <2>5, <2>6 DEF Remaining
<1>4. PICK order \in SetToSeqs(ModuleIds) :
        \A m \in ModuleIds : \A to \in Enforced(m) \cap ModuleIds : Precedes(order, to, m)
  BY DEF Acyclic
<1> DEFINE D == 1..Cardinality(ModuleIds)
<1>5. /\ order \in [D -> ModuleIds] /\ (\A i, j \in D : i # j => order[i] # order[j])
      /\ Cardinality(ModuleIds) \in Nat
  BY BatchTyped, FS_CardinalityType DEF SetToSeqs, SortInv
<1>6. DOMAIN order = D
  BY <1>5
<1> DEFINE Late == {i \in D : order[i] \in Remaining}
<1>7. ASSUME NEW m \in Remaining, NEW j \in D, order[j] = m
      PROVE  \E i \in Late : i < j
  <2>1. PICK to \in Remaining : to \in Enforced(m) BY <1>3
  <2>2. m \in ModuleIds /\ to \in ModuleIds BY DEF Remaining
  <2>3. PICK i \in D, k \in D : i < k /\ order[i] = to /\ order[k] = m
    BY <1>4, <1>6, <2>1, <2>2 DEF Precedes
  <2>4. k = j BY <1>5, <1>7, <2>3
  <2> QED BY <2>1, <2>3, <2>4
<1>8. Late # {}
  <2>1. PICK m \in Remaining : TRUE OBVIOUS
  <2>2. PICK to \in Remaining : to \in Enforced(m) BY <1>3, <2>1
  <2>3. m \in ModuleIds /\ to \in ModuleIds BY <2>1, <2>2 DEF Remaining
  <2>4. PICK i \in D, k \in D : i < k /\ order[i] = to /\ order[k] = m
    BY <1>4, <1>6, <2>2, <2>3 DEF Precedes
  <2> QED BY <2>2, <2>4
<1>9. Late \in SUBSET Nat
  BY <1>5
<1>10. PICK i \in Late : \A k \in Nat : k < i => k \notin Late
  BY <1>8, <1>9, LeastOf
<1>11. PICK k \in Late : k < i
  BY <1>7, <1>10
<1> QED BY <1>9, <1>10, <1>11

----------------------------------------------------------------------------
(* The search                                                               *)

Neighbors(n) == {batch.deps[n][i].to : i \in DOMAIN batch.deps[n]} \cap Remaining

\* What the search under way has left for good.
Gone == dfs.visited \ ToSet(dfs.path)

\* rank goes down along every dependency of U, none of which leads out of it.
RanksBy(rank, bound, U) ==
  /\ bound \in Nat /\ rank \in [U -> 0..bound]
  /\ \A n \in U : \A d \in Neighbors(n) : d \in U /\ rank[d] < rank[n]
Ranked(U) == \E rank, bound : RanksBy(rank, bound, U)

\* The path is the nodes of the frames that were entered.
Entered(frames, way, seen) ==
  /\ frames \in Seq(Remaining \X Nat) /\ way \in Seq(Remaining) /\ seen \subseteq Remaining
  /\ \A i \in 1..(Len(frames) - 1) : frames[i][2] > 0
  /\ frames = <<>> => Len(way) = 0
  /\ frames # <<>> => Len(way) = IF Last(frames)[2] = 0 THEN Len(frames) - 1 ELSE Len(frames)
  /\ \A i \in 1..Len(way) : way[i] = frames[i][1]
  /\ \A i, j \in 1..Len(way) : way[i] = way[j] => i = j
  /\ ToSet(way) \subseteq seen

\* A frame has gone on to the one above it, and what it went on to before is gone.
GoneOn(frames, gone) ==
  \A i \in 1..Len(frames) :
    /\ i < Len(frames) => /\ frames[i][2] \in 1..Len(DepMap(frames[i][1]))
                          /\ frames[i + 1][1] = DepMap(frames[i][1])[frames[i][2]]
    /\ frames[i][2] <= Len(DepMap(frames[i][1]))
    /\ \A j \in 1..frames[i][2] :
         DepMap(frames[i][1])[j] \in gone \/ (i < Len(frames) /\ j = frames[i][2])

\* The same of any batch, with rest what remains of it.
Listed(b, rest, n) == Sorted({b.deps[n][i].to : i \in DOMAIN b.deps[n]} \cap rest)
GoneOnIn(b, rest, frames, gone) ==
  \A i \in 1..Len(frames) :
    /\ i < Len(frames) => /\ frames[i][2] \in 1..Len(Listed(b, rest, frames[i][1]))
                          /\ frames[i + 1][1] = Listed(b, rest, frames[i][1])[frames[i][2]]
    /\ frames[i][2] <= Len(Listed(b, rest, frames[i][1]))
    /\ \A j \in 1..frames[i][2] :
         Listed(b, rest, frames[i][1])[j] \in gone \/ (i < Len(frames) /\ j = frames[i][2])

\* The modules whose search is over are ranked.
Begun(frames) == IF frames = <<>> THEN {} ELSE {frames[1][1]}
Covers(starts, frames) ==
  \E U \in SUBSET Remaining : Ranked(U) /\ Remaining \subseteq U \cup ToSet(starts) \cup Begun(frames)

SearchInv ==
  /\ dfs.starts \in Seq(Remaining)
  /\ Entered(dfs.stack, dfs.path, dfs.visited) /\ GoneOnIn(batch, Remaining, dfs.stack, Gone)
  /\ Ranked(Gone) /\ Covers(dfs.starts, dfs.stack)

DfsRecord == dfs = [starts |-> dfs.starts, stack |-> dfs.stack, path |-> dfs.path, visited |-> dfs.visited]

OrderInv ==
  /\ SortInv
  /\ loop \in {"edges", "sort"} => dfs = NoSearch
  /\ loop = "search" => DfsRecord /\ SearchInv
  /\ resolution.kind = "circular" => Closes(resolution.path) /\ ToSet(resolution.path) \subseteq Remaining
  /\ resolution.kind = "blocked" => Ranked(Remaining)

LEMMA NeighborsListed ==
  ASSUME SortInv
  PROVE  /\ Remaining \in SUBSET Int /\ IsFiniteSet(Remaining)
         /\ \A n : /\ DepMap(n) \in Seq(Remaining) /\ Len(DepMap(n)) \in Nat
                   /\ Neighbors(n) = {DepMap(n)[j] : j \in 1..Len(DepMap(n))}
<1>1. Remaining \in SUBSET ModuleIds
  BY DEF Remaining
<1>2. Remaining \in SUBSET Int /\ IsFiniteSet(Remaining)
  BY <1>1, BatchTyped, FS_Subset DEF SortInv
<1>3. ASSUME NEW n
      PROVE  /\ DepMap(n) \in Seq(Remaining) /\ Len(DepMap(n)) \in Nat
             /\ Neighbors(n) = {DepMap(n)[j] : j \in 1..Len(DepMap(n))}
  <2> DEFINE N == Neighbors(n)
  <2>1. N \in SUBSET Remaining BY DEF Neighbors
  <2>2. N \in SUBSET Int /\ IsFiniteSet(N) BY <1>2, <2>1, FS_Subset
  <2>3. DepMap(n) = Sorted(N) BY DEF DepMap, Neighbors
  <2> HIDE DEF N
  <2>4. DepMap(n) \in Seq(N) /\ ToSet(DepMap(n)) = N BY <2>2, <2>3, SortedLists
  <2>5. Len(DepMap(n)) \in Nat /\ DepMap(n) \in [1..Len(DepMap(n)) -> N] BY <2>4
  <2>6. DepMap(n) \in [1..Len(DepMap(n)) -> Remaining] BY <2>1, <2>5
  <2>7. DepMap(n) \in Seq(Remaining) BY <2>5, <2>6, ListOfLength
  <2>8. N = {DepMap(n)[j] : j \in 1..Len(DepMap(n))} BY <2>4, <2>5 DEF ToSet
  <2> QED BY <2>5, <2>7, <2>8 DEF N
<1> QED BY <1>2, <1>3

LEMMA RankedNone == Ranked({})
<1>1. RanksBy([n \in {} |-> 0], 0, {})
  BY DEF RanksBy
<1> QED BY <1>1 DEF Ranked

LEMMA RankedMore ==
  ASSUME NEW U, Ranked(U), NEW n, n \notin U, Neighbors(n) \subseteq U
  PROVE  Ranked(U \cup {n})
<1>1. PICK rank, bound : RanksBy(rank, bound, U)
  BY DEF Ranked
<1>2. /\ bound \in Nat /\ rank \in [U -> 0..bound]
      /\ \A k \in U : \A d \in Neighbors(k) : d \in U /\ rank[d] < rank[k]
  BY <1>1 DEF RanksBy
<1> DEFINE more == [k \in U \cup {n} |-> IF k = n THEN bound + 1 ELSE rank[k]]
<1>3. more \in [U \cup {n} -> 0..(bound + 1)] /\ bound + 1 \in Nat
  BY <1>2
<1>4. ASSUME NEW k \in U \cup {n}, NEW d \in Neighbors(k)
      PROVE  d \in U \cup {n} /\ more[d] < more[k]
  <2>1. CASE k = n
    <3>1. d \in U /\ d # n /\ rank[d] \in 0..bound BY <1>2, <2>1
    <3> QED BY <1>2, <2>1, <3>1
  <2>2. CASE k # n
    <3>1. k \in U /\ d \in U /\ d # n /\ rank[d] < rank[k] BY <1>2, <2>2
    <3> QED BY <2>2, <3>1
  <2> QED BY <2>1, <2>2
<1> HIDE DEF more
<1>5. RanksBy(more, bound + 1, U \cup {n})
  BY <1>3, <1>4 DEF RanksBy
<1> QED BY <1>5 DEF Ranked

LEMMA RankedBoth ==
  ASSUME NEW U, Ranked(U), NEW W, Ranked(W)
  PROVE  Ranked(U \cup W)
<1>1. PICK rank, bound : RanksBy(rank, bound, U)
  BY DEF Ranked
<1>2. PICK other, limit : RanksBy(other, limit, W)
  BY DEF Ranked
<1>3. /\ bound \in Nat /\ rank \in [U -> 0..bound]
      /\ \A k \in U : \A d \in Neighbors(k) : d \in U /\ rank[d] < rank[k]
  BY <1>1 DEF RanksBy
<1>4. /\ limit \in Nat /\ other \in [W -> 0..limit]
      /\ \A k \in W : \A d \in Neighbors(k) : d \in W /\ other[d] < other[k]
  BY <1>2 DEF RanksBy
<1> DEFINE more == [k \in U \cup W |-> IF k \in U THEN rank[k] ELSE bound + 1 + other[k]]
<1>5. bound + 1 + limit \in Nat
  BY <1>3, <1>4
<1>6. more \in [U \cup W -> 0..(bound + 1 + limit)]
  <2>1. ASSUME NEW k \in U \cup W PROVE more[k] \in 0..(bound + 1 + limit)
    <3>1. CASE k \in U
      <4>1. rank[k] \in 0..bound /\ more[k] = rank[k] BY <1>3, <3>1
      <4> QED BY <1>3, <1>4, <4>1
    <3>2. CASE k \notin U
      <4>1. other[k] \in 0..limit /\ more[k] = bound + 1 + other[k] BY <1>4, <3>2
      <4> QED BY <1>3, <1>4, <4>1
    <3> QED BY <3>1, <3>2
  <2> QED BY <2>1
<1>7. ASSUME NEW k \in U \cup W, NEW d \in Neighbors(k)
      PROVE  d \in U \cup W /\ more[d] < more[k]
  <2>1. CASE k \in U
    <3>1. d \in U /\ rank[d] < rank[k] BY <1>3, <2>1
    <3> QED BY <2>1, <3>1
  <2>2. CASE k \notin U
    <3>1. d \in W /\ other[d] < other[k] /\ other[d] \in 0..limit /\ other[k] \in 0..limit /\ more[k] = bound + 1 + other[k]
      BY <1>4, <2>2
    <3>2. CASE d \in U
      <4>1. rank[d] \in 0..bound /\ more[d] = rank[d] BY <1>3, <3>2
      <4> QED BY <1>3, <3>1, <4>1
    <3>3. CASE d \notin U
      <4>1. more[d] = bound + 1 + other[d] BY <3>1, <3>3
      <4> QED BY <1>3, <3>1, <4>1
    <3> QED BY <3>2, <3>3
  <2> QED BY <2>1, <2>2
<1> HIDE DEF more
<1>8. RanksBy(more, bound + 1 + limit, U \cup W)
  BY <1>5, <1>6, <1>7 DEF RanksBy
<1> QED BY <1>8 DEF Ranked

\* The frames below the top, and the path without the top's node.
LEMMA PoppedFrames ==
  ASSUME NEW frames, NEW way, NEW seen, Entered(frames, way, seen), frames # <<>>
  PROVE  /\ Len(frames) \in Nat \ {0} /\ Len(way) \in Nat
         /\ Last(frames) = frames[Len(frames)] /\ Last(frames)[1] \in Remaining /\ Last(frames)[2] \in Nat
         /\ Front(frames) \in Seq(Remaining \X Nat) /\ Len(Front(frames)) = Len(frames) - 1
         /\ \A i \in 1..(Len(frames) - 1) : Front(frames)[i] = frames[i]
         /\ \A i \in 1..Len(frames) : frames[i][1] \in Remaining /\ frames[i][2] \in Nat
<1>1. frames \in Seq(Remaining \X Nat) /\ way \in Seq(Remaining)
  BY DEF Entered
<1>2. Len(frames) \in Nat \ {0} /\ Len(way) \in Nat /\ \A i \in 1..Len(frames) : frames[i] \in Remaining \X Nat
  BY <1>1
<1>3. Len(frames) - 1 \in Nat /\ Front(frames) = SubSeq(frames, 1, Len(frames) - 1)
  BY <1>2 DEF Front
<1>4. Front(frames) \in Seq(Remaining \X Nat) /\ Len(Front(frames)) = Len(frames) - 1
      /\ \A i \in 1..(Len(frames) - 1) : Front(frames)[i] = frames[i]
  <2> DEFINE k == Len(frames) - 1
  <2>1. k \in Nat /\ \A i \in 1..k : frames[i] \in Remaining \X Nat BY <1>2
  <2>2. SubSeq(frames, 1, k) = [i \in 1..k |-> frames[i]] BY <1>1, <2>1
  <2>3. Front(frames) = [i \in 1..k |-> frames[i]] BY <1>3, <2>2
  <2>4. Front(frames) \in [1..k -> Remaining \X Nat] BY <2>1, <2>3
  <2> HIDE DEF k
  <2>5. Front(frames) \in Seq(Remaining \X Nat) /\ Len(Front(frames)) = k BY <2>1, <2>4, ListOfLength
  <2> QED BY <2>3, <2>5 DEF k
<1>5. \A i \in 1..Len(frames) : frames[i][1] \in Remaining /\ frames[i][2] \in Nat
  BY <1>2
<1>6. Last(frames) = frames[Len(frames)] /\ Len(frames) \in 1..Len(frames)
  BY <1>2 DEF Last
<1> QED BY <1>2, <1>4, <1>5, <1>6

LEMMA SkipFrames ==
  ASSUME NEW frames, NEW way, NEW seen, Entered(frames, way, seen), frames # <<>>,
         GoneOn(frames, seen \ ToSet(way)),
         Last(frames)[2] = 0, Last(frames)[1] \in seen \ ToSet(way)
  PROVE  Entered(Front(frames), way, seen) /\ GoneOn(Front(frames), seen \ ToSet(way))
<1> DEFINE less == Front(frames)
           n == Len(frames)
<1>1. /\ n \in Nat \ {0} /\ Len(way) \in Nat /\ Last(frames) = frames[n]
      /\ less \in Seq(Remaining \X Nat) /\ Len(less) = n - 1
      /\ \A i \in 1..(n - 1) : less[i] = frames[i]
  BY PoppedFrames
<1> HIDE DEF less, n
<1>2. /\ way \in Seq(Remaining) /\ seen \subseteq Remaining
      /\ \A i \in 1..(n - 1) : frames[i][2] > 0
      /\ Len(way) = n - 1
      /\ \A i \in 1..Len(way) : way[i] = frames[i][1]
      /\ \A i, j \in 1..Len(way) : way[i] = way[j] => i = j
      /\ ToSet(way) \subseteq seen
  BY DEF Entered, n
<1>3. less = <<>> => Len(way) = 0
  BY <1>1, <1>2
<1>4. less # <<>> => Last(less)[2] # 0 /\ Len(way) = Len(less)
  <2> SUFFICES ASSUME less # <<>> PROVE Last(less)[2] # 0 /\ Len(way) = Len(less) OBVIOUS
  <2>1. n - 1 \in 1..(n - 1) BY <1>1
  <2>2. Last(less) = frames[n - 1] BY <1>1, <2>1 DEF Last
  <2> QED BY <1>1, <1>2, <2>1, <2>2
<1>5. \A i \in 1..(Len(less) - 1) : less[i][2] > 0
  BY <1>1, <1>2
<1>6. \A i \in 1..Len(way) : way[i] = less[i][1]
  BY <1>1, <1>2
<1>7. Entered(less, way, seen)
  BY <1>1, <1>2, <1>3, <1>4, <1>5, <1>6 DEF Entered
<1> DEFINE gone == seen \ ToSet(way)
<1>8. GoneOn(frames, gone) /\ frames[n][1] \in gone
  BY <1>1
<1> HIDE DEF gone
<1>9. ASSUME NEW i \in 1..Len(less)
      PROVE  /\ i < Len(less) => /\ less[i][2] \in 1..Len(DepMap(less[i][1]))
                                 /\ less[i + 1][1] = DepMap(less[i][1])[less[i][2]]
             /\ less[i][2] <= Len(DepMap(less[i][1]))
             /\ \A j \in 1..less[i][2] : DepMap(less[i][1])[j] \in gone \/ (i < Len(less) /\ j = less[i][2])
  <2>1. i \in 1..n /\ i < n /\ less[i] = frames[i] BY <1>1
  <2>2. /\ frames[i][2] \in 1..Len(DepMap(frames[i][1]))
        /\ frames[i + 1][1] = DepMap(frames[i][1])[frames[i][2]]
        /\ frames[i][2] <= Len(DepMap(frames[i][1]))
        /\ \A j \in 1..frames[i][2] : DepMap(frames[i][1])[j] \in gone \/ j = frames[i][2]
    BY <1>8, <2>1 DEF GoneOn, n
  <2>3. CASE i < Len(less)
    <3>1. less[i + 1] = frames[i + 1] BY <1>1, <2>3
    <3> QED BY <2>1, <2>2, <2>3, <3>1
  <2>4. CASE ~(i < Len(less))
    <3>1. i + 1 = n BY <1>1, <2>4
    <3>2. DepMap(frames[i][1])[frames[i][2]] \in gone BY <1>8, <2>2, <3>1
    <3> QED BY <2>1, <2>2, <2>4, <3>2
  <2> QED BY <2>3, <2>4
<1>10. GoneOn(less, gone)
  BY <1>9 DEF GoneOn
<1> QED BY <1>7, <1>10 DEF less, gone

\* The path with the node of the top frame on it.
Here(frames, way) == IF Last(frames)[2] = 0 THEN Append(way, Last(frames)[1]) ELSE way

LEMMA WayHere ==
  ASSUME NEW frames, NEW way, NEW seen, Entered(frames, way, seen), frames # <<>>,
         Last(frames)[2] = 0 => Last(frames)[1] \notin seen
  PROVE  /\ Here(frames, way) \in Seq(Remaining) /\ Len(Here(frames, way)) = Len(frames)
         /\ \A i \in 1..Len(frames) : Here(frames, way)[i] = frames[i][1]
         /\ \A i, j \in 1..Len(frames) : Here(frames, way)[i] = Here(frames, way)[j] => i = j
         /\ ToSet(Here(frames, way)) = ToSet(way) \cup {Last(frames)[1]}
         /\ seen \ ToSet(way) = (seen \cup {Last(frames)[1]}) \ ToSet(Here(frames, way))
         /\ Last(frames)[1] \notin seen \ ToSet(way)
<1> DEFINE here == Here(frames, way)
           node == Last(frames)[1]
           idx == Last(frames)[2]
<1>0. here = (IF idx = 0 THEN Append(way, node) ELSE way) /\ (idx = 0 => node \notin seen)
  BY DEF Here
<1> HIDE DEF here
<1> DEFINE n == Len(frames)
<1>1. n \in Nat \ {0} /\ Len(way) \in Nat /\ node = frames[n][1] /\ node \in Remaining
  BY PoppedFrames DEF node, n
<1>2. /\ way \in Seq(Remaining) /\ Len(way) = IF idx = 0 THEN n - 1 ELSE n
      /\ \A i \in 1..Len(way) : way[i] = frames[i][1]
      /\ \A i, j \in 1..Len(way) : way[i] = way[j] => i = j
      /\ ToSet(way) \subseteq seen
  BY DEF Entered, n, idx
<1>3. ToSet(way) = {way[i] : i \in 1..Len(way)}
  BY <1>2 DEF ToSet
<1> HIDE DEF n, node, idx
<1>4. CASE idx = 0
  <2>1. here = Append(way, node) /\ node \notin seen /\ Len(way) = n - 1
    BY <1>0, <1>2, <1>4
  <2>2. here \in Seq(Remaining) /\ Len(here) = n /\ here[n] = node /\ \A i \in 1..(n - 1) : here[i] = way[i]
    BY <1>1, <1>2, <2>1
  <2>3. \A i \in 1..n : here[i] = frames[i][1]
    BY <1>1, <1>2, <2>1, <2>2
  <2>4. ToSet(here) = ToSet(way) \cup {node}
    <3>1. ToSet(here) = {here[i] : i \in 1..n} BY <2>2 DEF ToSet
    <3>2. n \in 1..n /\ \A i \in 1..n : i = n \/ i \in 1..(n - 1) BY <1>1
    <3>3. \A i \in 1..(n - 1) : i \in 1..n BY <1>1
    <3> QED BY <1>3, <2>1, <2>2, <3>1, <3>2, <3>3
  <2>5. \A i \in 1..(n - 1) : here[i] # node
    BY <1>2, <1>3, <2>1, <2>2
  <2>6. \A i, j \in 1..n : here[i] = here[j] => i = j
    <3>1. \A i \in 1..n : i = n \/ i \in 1..(n - 1) BY <1>1
    <3> QED BY <1>2, <2>1, <2>2, <2>5, <3>1
  <2>7. seen \ ToSet(way) = (seen \cup {node}) \ ToSet(here)
    BY <2>1, <2>4
  <2> QED BY <2>1, <2>2, <2>3, <2>4, <2>6, <2>7 DEF n, node, here
<1>5. CASE idx # 0
  <2>1. here = way /\ Len(way) = n BY <1>0, <1>2, <1>5
  <2>2. node \in ToSet(way)
    <3>1. n \in 1..Len(way) /\ way[n] = node BY <1>1, <1>2, <2>1
    <3> QED BY <1>3, <3>1
  <2>3. node \in seen BY <1>2, <2>2
  <2>4. seen \ ToSet(way) = (seen \cup {node}) \ ToSet(here) /\ ToSet(here) = ToSet(way) \cup {node}
    BY <2>1, <2>2, <2>3
  <2> QED BY <1>2, <2>1, <2>2, <2>4 DEF n, node, here
<1> QED BY <1>4, <1>5

\* The frames once the top goes on to its next neighbor.
More(frames) ==
  Front(frames) \o <<<<Last(frames)[1], Last(frames)[2] + 1>>,
                     <<DepMap(Last(frames)[1])[Last(frames)[2] + 1], 0>>>>

LEMMA EnterFrames ==
  ASSUME SortInv, NEW frames, NEW way, NEW seen, Entered(frames, way, seen), frames # <<>>,
         GoneOn(frames, seen \ ToSet(way)),
         Last(frames)[2] = 0 => Last(frames)[1] \notin seen,
         Last(frames)[2] < Len(DepMap(Last(frames)[1]))
  PROVE  /\ Entered(More(frames), Here(frames, way), seen \cup {Last(frames)[1]})
         /\ (seen \cup {Last(frames)[1]}) \ ToSet(Here(frames, way)) = seen \ ToSet(way)
         /\ GoneOn(More(frames), seen \ ToSet(way))
         /\ Begun(More(frames)) = Begun(frames)
<1> DEFINE node == Last(frames)[1]
           idx == Last(frames)[2]
           here == Here(frames, way)
           more == More(frames)
<1>0. /\ node = Last(frames)[1] /\ idx = Last(frames)[2] /\ idx < Len(DepMap(node)) /\ (idx = 0 => node \notin seen)
      /\ here = Here(frames, way) /\ here = IF idx = 0 THEN Append(way, node) ELSE way
      /\ more = Front(frames) \o <<<<node, idx + 1>>, <<DepMap(node)[idx + 1], 0>>>>
  BY DEF Here, More
<1> HIDE DEF node, idx, here, more
<1> USE <1>0
<1> DEFINE n == Len(frames)
           gone == seen \ ToSet(way)
           next == DepMap(node)[idx + 1]
           two == <<<<node, idx + 1>>, <<next, 0>>>>
<1>1. /\ n \in Nat \ {0} /\ Last(frames) = frames[n] /\ node \in Remaining /\ idx \in Nat
      /\ Front(frames) \in Seq(Remaining \X Nat) /\ Len(Front(frames)) = n - 1
      /\ \A i \in 1..(n - 1) : Front(frames)[i] = frames[i]
  BY PoppedFrames
<1>2. /\ here \in Seq(Remaining) /\ Len(here) = n
      /\ \A i \in 1..n : here[i] = frames[i][1]
      /\ \A i, j \in 1..n : here[i] = here[j] => i = j
      /\ ToSet(here) = ToSet(way) \cup {node}
      /\ (seen \cup {node}) \ ToSet(here) = gone
  <2>1. here = Here(frames, way) /\ (Last(frames)[2] = 0 => Last(frames)[1] \notin seen) BY DEF Here
  <2>2. /\ Here(frames, way) \in Seq(Remaining) /\ Len(Here(frames, way)) = Len(frames)
        /\ \A i \in 1..Len(frames) : Here(frames, way)[i] = frames[i][1]
        /\ \A i, j \in 1..Len(frames) : Here(frames, way)[i] = Here(frames, way)[j] => i = j
        /\ ToSet(Here(frames, way)) = ToSet(way) \cup {Last(frames)[1]}
        /\ seen \ ToSet(way) = (seen \cup {Last(frames)[1]}) \ ToSet(Here(frames, way))
        /\ Last(frames)[1] \notin seen \ ToSet(way)
    BY <2>1, WayHere
  <2> QED BY <2>1, <2>2
<1>3. Len(DepMap(node)) \in Nat /\ next \in Remaining /\ idx + 1 \in 1..Len(DepMap(node))
  <2>1. DepMap(node) \in Seq(Remaining) /\ Len(DepMap(node)) \in Nat BY NeighborsListed
  <2>2. idx + 1 \in 1..Len(DepMap(node)) BY <1>1, <2>1
  <2> QED BY <2>1, <2>2
<1> HIDE DEF gone, next
<1>4. two \in Seq(Remaining \X Nat) /\ Len(two) = 2 /\ two[1] = <<node, idx + 1>> /\ two[2] = <<next, 0>>
  <2>1. <<node, idx + 1>> \in Remaining \X Nat /\ <<next, 0>> \in Remaining \X Nat BY <1>1, <1>3
  <2> QED BY <2>1
<1>5. more = Front(frames) \o two
  BY DEF next
<1> HIDE DEF two, n
<1>6. /\ more \in Seq(Remaining \X Nat) /\ Len(more) = n + 1
      /\ \A i \in 1..(n - 1) : more[i] = frames[i]
      /\ more[n] = <<node, idx + 1>> /\ more[n + 1] = <<next, 0>>
  <2> DEFINE fr == Front(frames)
  <2>0. fr \in Seq(Remaining \X Nat) /\ two \in Seq(Remaining \X Nat) BY <1>1, <1>4
  <2>a. Len(fr) = n - 1 /\ Len(two) = 2 /\ n \in Nat \ {0} BY <1>1, <1>4
  <2> HIDE DEF fr
  <2>1. /\ fr \o two \in Seq(Remaining \X Nat) /\ Len(fr \o two) = Len(fr) + Len(two)
        /\ \A i \in 1..Len(fr) : (fr \o two)[i] = fr[i]
        /\ \A i \in 1..Len(two) : (fr \o two)[Len(fr) + i] = two[i]
    BY <2>0
  <2>2. Len(fr) + 1 = n /\ Len(fr) + 2 = n + 1 /\ 1 \in 1..Len(two) /\ 2 \in 1..Len(two) BY <2>a
  <2>3. (fr \o two)[n] = two[1] /\ (fr \o two)[n + 1] = two[2] BY <2>1, <2>2
  <2>4. Len(fr \o two) = n + 1 BY <2>1, <2>a
  <2>5. more = fr \o two BY <1>5 DEF fr
  <2>6. \A i \in 1..(n - 1) : more[i] = frames[i] BY <1>1, <2>1, <2>5, <2>a DEF fr
  <2> QED BY <1>4, <2>1, <2>3, <2>4, <2>5, <2>6
<1>7. /\ seen \subseteq Remaining /\ ToSet(way) \subseteq seen
      /\ \A i \in 1..(n - 1) : frames[i][2] > 0
  BY DEF Entered, n
<1>8. \A i \in 1..n : i = n \/ i \in 1..(n - 1)
  BY <1>1
<1>a. n \in Nat \ {0} /\ idx \in Nat /\ Len(more) = n + 1
  BY <1>1, <1>6
<1>b. \A i \in 1..(n - 1) : more[i] = frames[i]
  BY <1>6
<1>c. more[n][1] = node /\ more[n][2] = idx + 1 /\ more[n + 1][1] = next /\ more[n + 1][2] = 0
  <2>1. more[n] = <<node, idx + 1>> /\ more[n + 1] = <<next, 0>> BY <1>6
  <2>2. <<node, idx + 1>>[1] = node /\ <<node, idx + 1>>[2] = idx + 1 /\ <<next, 0>>[1] = next /\ <<next, 0>>[2] = 0
    OBVIOUS
  <2> QED BY <2>1, <2>2
<1>d. \A i \in 1..(n + 1) : i \in 1..(n - 1) \/ i = n \/ i = n + 1
  BY <1>a
<1>e. \A i \in 1..(n - 1) : i \in 1..n /\ i < n /\ i < n + 1 /\ i + 1 \in 1..n
  BY <1>a
<1>9. \A i \in 1..(Len(more) - 1) : more[i][2] > 0
  <2>1. Len(more) - 1 = n BY <1>a
  <2>2. more[n][2] > 0
    <3>1. idx + 1 > 0 BY <1>a
    <3> QED BY <1>c, <3>1
  <2>3. \A i \in 1..(n - 1) : more[i][2] > 0
    <3>1. \A i \in 1..(n - 1) : frames[i][2] > 0 BY <1>7
    <3> QED BY <1>b, <3>1
  <2> QED BY <1>8, <2>1, <2>2, <2>3
<1>10. more # <<>> /\ Last(more) = more[n + 1]
  <2>1. Len(more) # 0 BY <1>a
  <2> QED BY <1>a, <2>1 DEF Last
<1>11. \A i \in 1..n : more[i][1] = frames[i][1]
  BY <1>1, <1>6, <1>8
<1>12. Entered(more, here, seen \cup {node})
  <2>0. Len(here) = n BY <1>2
  <2>1. \A i \in 1..Len(here) : here[i] = more[i][1]
    <3>1. \A i \in 1..n : here[i] = frames[i][1] BY <1>2
    <3> QED BY <1>11, <2>0, <3>1
  <2>2. Len(here) = IF Last(more)[2] = 0 THEN Len(more) - 1 ELSE Len(more)
    <3>1. Last(more)[2] = 0 BY <1>c, <1>10
    <3> QED BY <1>a, <2>0, <3>1
  <2>3. ToSet(here) \subseteq seen \cup {node} /\ seen \cup {node} \subseteq Remaining BY <1>1, <1>2, <1>7
  <2>4. \A i, j \in 1..Len(here) : here[i] = here[j] => i = j
    <3>1. \A i, j \in 1..n : here[i] = here[j] => i = j BY <1>2
    <3> QED BY <2>0, <3>1
  <2>5. here \in Seq(Remaining) /\ more \in Seq(Remaining \X Nat) /\ more # <<>> BY <1>2, <1>6, <1>10
  <2> QED BY <1>9, <2>1, <2>2, <2>3, <2>4, <2>5 DEF Entered
<1>13. GoneOn(frames, gone)
  BY DEF gone
<1>14. ASSUME NEW i \in 1..Len(more)
       PROVE  /\ i < Len(more) => /\ more[i][2] \in 1..Len(DepMap(more[i][1]))
                                  /\ more[i + 1][1] = DepMap(more[i][1])[more[i][2]]
              /\ more[i][2] <= Len(DepMap(more[i][1]))
              /\ \A j \in 1..more[i][2] : DepMap(more[i][1])[j] \in gone \/ (i < Len(more) /\ j = more[i][2])
  <2>1. CASE i \in 1..(n - 1)
    <3>1. i \in 1..n /\ i < n /\ i < Len(more) /\ more[i] = frames[i] BY <1>a, <1>b, <1>e, <2>1
    <3>2. /\ frames[i][2] \in 1..Len(DepMap(frames[i][1]))
          /\ frames[i + 1][1] = DepMap(frames[i][1])[frames[i][2]]
          /\ frames[i][2] <= Len(DepMap(frames[i][1]))
          /\ \A j \in 1..frames[i][2] : DepMap(frames[i][1])[j] \in gone \/ j = frames[i][2]
      BY <1>13, <3>1 DEF GoneOn, n
    <3>3. more[i + 1][1] = frames[i + 1][1]
      <4>1. i + 1 \in 1..n BY <1>e, <2>1
      <4> QED BY <1>11, <4>1
    <3> QED BY <3>1, <3>2, <3>3
  <2>2. CASE i = n
    <3>1. n \in 1..n /\ n < Len(more) BY <1>a
    <3>2. more[n][1] = node /\ more[n][2] = idx + 1 /\ more[n + 1][1] = next BY <1>c
    <3>3. ASSUME NEW j \in 1..(idx + 1) PROVE DepMap(node)[j] \in gone \/ j = idx + 1
      <4>1. CASE j = idx + 1 BY <4>1
      <4>2. CASE j # idx + 1
        <5>1. j \in 1..idx BY <1>a, <4>2
        <5>2. frames[n][1] = node /\ frames[n][2] = idx BY <1>1
        <5>3. /\ n \in 1..Len(frames) /\ j \in 1..frames[n][2] /\ ~(n < Len(frames))
          BY <1>a, <3>1, <5>1, <5>2 DEF n
        <5>4. DepMap(frames[n][1])[j] \in gone BY <1>13, <5>3 DEF GoneOn
        <5> QED BY <5>2, <5>4
      <4> QED BY <4>1, <4>2
    <3>4. idx + 1 <= Len(DepMap(node)) BY <1>3
    <3> QED BY <1>3, <2>2, <3>1, <3>2, <3>3, <3>4 DEF next
  <2>3. CASE i = n + 1
    <3>1. more[i][1] = next /\ more[i][2] = 0 /\ ~(i < Len(more)) BY <1>a, <1>c, <2>3
    <3>2. Len(DepMap(next)) \in Nat BY NeighborsListed
    <3> QED BY <3>1, <3>2
  <2> QED BY <1>a, <1>d, <2>1, <2>2, <2>3
<1>15. GoneOn(more, gone)
  BY <1>14 DEF GoneOn
<1>16. Begun(more) = Begun(frames)
  <2>1. 1 \in 1..n BY <1>1
  <2> QED BY <1>10, <1>11, <2>1 DEF Begun
<1> QED BY <1>2, <1>12, <1>15, <1>16 DEF gone, more, here, node

LEMMA LeaveFrames ==
  ASSUME SortInv, NEW frames, NEW way, NEW seen, Entered(frames, way, seen), frames # <<>>,
         GoneOn(frames, seen \ ToSet(way)),
         Last(frames)[2] = 0 => Last(frames)[1] \notin seen,
         Last(frames)[2] >= Len(DepMap(Last(frames)[1]))
  PROVE  LET node == Last(frames)[1] IN
         /\ Entered(Front(frames), Front(Here(frames, way)), seen \cup {node})
         /\ (seen \cup {node}) \ ToSet(Front(Here(frames, way))) = (seen \ ToSet(way)) \cup {node}
         /\ GoneOn(Front(frames), (seen \ ToSet(way)) \cup {node})
         /\ node \notin seen \ ToSet(way) /\ Neighbors(node) \subseteq seen \ ToSet(way)
<1> DEFINE node == Last(frames)[1]
           idx == Last(frames)[2]
           here == Here(frames, way)
<1>0. /\ node = Last(frames)[1] /\ idx = Last(frames)[2] /\ idx >= Len(DepMap(node)) /\ (idx = 0 => node \notin seen)
      /\ here = Here(frames, way) /\ here = IF idx = 0 THEN Append(way, node) ELSE way
  BY DEF Here
<1> HIDE DEF node, idx, here
<1> USE <1>0
<1> DEFINE n == Len(frames)
           gone == seen \ ToSet(way)
           less == Front(frames)
           left == Front(here)
<1>1. /\ n \in Nat \ {0} /\ Last(frames) = frames[n] /\ node \in Remaining /\ idx \in Nat
      /\ less \in Seq(Remaining \X Nat) /\ Len(less) = n - 1
      /\ \A i \in 1..(n - 1) : less[i] = frames[i]
  BY PoppedFrames
<1>2. /\ here \in Seq(Remaining) /\ Len(here) = n
      /\ \A i \in 1..n : here[i] = frames[i][1]
      /\ \A i, j \in 1..n : here[i] = here[j] => i = j
      /\ ToSet(here) = ToSet(way) \cup {node}
      /\ (seen \cup {node}) \ ToSet(here) = gone
      /\ node \notin gone
  <2>1. here = Here(frames, way) /\ (Last(frames)[2] = 0 => Last(frames)[1] \notin seen) BY DEF Here
  <2>2. /\ Here(frames, way) \in Seq(Remaining) /\ Len(Here(frames, way)) = Len(frames)
        /\ \A i \in 1..Len(frames) : Here(frames, way)[i] = frames[i][1]
        /\ \A i, j \in 1..Len(frames) : Here(frames, way)[i] = Here(frames, way)[j] => i = j
        /\ ToSet(Here(frames, way)) = ToSet(way) \cup {Last(frames)[1]}
        /\ seen \ ToSet(way) = (seen \cup {Last(frames)[1]}) \ ToSet(Here(frames, way))
        /\ Last(frames)[1] \notin seen \ ToSet(way)
    BY <2>1, WayHere
  <2> QED BY <2>1, <2>2
<1> HIDE DEF n, less
<1>3. left \in Seq(Remaining) /\ Len(left) = n - 1 /\ \A i \in 1..(n - 1) : left[i] = here[i]
  <2>1. n - 1 \in Nat /\ left = SubSeq(here, 1, n - 1) /\ \A i \in 1..(n - 1) : here[i] \in Remaining
    BY <1>1, <1>2 DEF Front
  <2>2. SubSeq(here, 1, n - 1) = [i \in 1..(n - 1) |-> here[i]] BY <1>2, <2>1
  <2>3. left = [i \in 1..(n - 1) |-> here[i]] BY <2>1, <2>2
  <2>4. left \in [1..(n - 1) -> Remaining] BY <2>1, <2>3
  <2> HIDE DEF left
  <2> QED BY <2>1, <2>3, <2>4, ListOfLength
<1>4. n \in 1..n /\ here[n] = node /\ \A i \in 1..n : i = n \/ i \in 1..(n - 1)
  BY <1>1, <1>2
<1> HIDE DEF left
<1>5. ToSet(left) = ToSet(here) \ {node}
  <2>1. ToSet(left) = {left[i] : i \in 1..(n - 1)} BY <1>3 DEF ToSet
  <2>2. ToSet(here) = {here[i] : i \in 1..n} BY <1>2 DEF ToSet
  <2>3. \A i \in 1..(n - 1) : i \in 1..n /\ i # n BY <1>1
  <2>4. \A i \in 1..(n - 1) : left[i] = here[i] BY <1>3
  <2>5. \A i, j \in 1..n : here[i] = here[j] => i = j BY <1>2
  <2>6. \A i \in 1..n : i = n \/ i \in 1..(n - 1) BY <1>4
  <2>7. n \in 1..n /\ here[n] = node BY <1>4
  <2> HIDE <1>0
  <2>8. ToSet(left) \subseteq ToSet(here) \ {node} BY <2>1, <2>2, <2>3, <2>4, <2>5, <2>7
  <2>9. ToSet(here) \ {node} \subseteq ToSet(left) BY <2>1, <2>2, <2>4, <2>6, <2>7
  <2> QED BY <2>8, <2>9
<1>6. /\ seen \subseteq Remaining /\ ToSet(way) \subseteq seen /\ \A i \in 1..(n - 1) : frames[i][2] > 0
  BY DEF Entered, n
<1>7. (seen \cup {node}) \ ToSet(left) = gone \cup {node}
  BY <1>2, <1>5
<1>8. Entered(less, left, seen \cup {node})
  <2>1. less = <<>> => Len(left) = 0 BY <1>1, <1>3
  <2>2. less # <<>> => Len(left) = IF Last(less)[2] = 0 THEN Len(less) - 1 ELSE Len(less)
    <3> SUFFICES ASSUME less # <<>> PROVE Last(less)[2] # 0 /\ Len(left) = Len(less) OBVIOUS
    <3>1. n - 1 \in 1..(n - 1) BY <1>1
    <3>2. Last(less) = frames[n - 1] BY <1>1, <3>1 DEF Last
    <3>3. frames[n - 1][2] > 0 /\ frames[n - 1][2] \in Nat BY <1>6, <3>1, PoppedFrames DEF n
    <3>4. Len(left) = Len(less) BY <1>1, <1>3
    <3> QED BY <3>2, <3>3, <3>4
  <2>3. \A i \in 1..(Len(less) - 1) : less[i][2] > 0 BY <1>1, <1>6
  <2>4. \A i \in 1..(n - 1) : i \in 1..n BY <1>1
  <2>5. \A i \in 1..Len(left) : left[i] = less[i][1] BY <1>1, <1>2, <1>3, <2>4
  <2>6. \A i, j \in 1..Len(left) : left[i] = left[j] => i = j BY <1>2, <1>3, <2>4
  <2>7. ToSet(left) \subseteq seen \cup {node} /\ seen \cup {node} \subseteq Remaining BY <1>1, <1>2, <1>5, <1>6
  <2> QED BY <1>1, <1>3, <2>1, <2>2, <2>3, <2>5, <2>6, <2>7 DEF Entered
<1>9. GoneOn(frames, gone)
  OBVIOUS
<1> HIDE DEF gone
<1>10. Neighbors(node) \subseteq gone
  <2>1. Neighbors(node) = {DepMap(node)[j] : j \in 1..Len(DepMap(node))} /\ Len(DepMap(node)) \in Nat
    BY NeighborsListed
  <2>2. \A j \in 1..Len(DepMap(node)) : j \in 1..idx BY <1>1, <2>1
  <2>3. frames[n][1] = node /\ frames[n][2] = idx BY <1>1
  <2>4. \A j \in 1..idx : DepMap(node)[j] \in gone BY <1>1, <1>4, <1>9, <2>3 DEF GoneOn, n
  <2> QED BY <2>1, <2>2, <2>4
<1>11. ASSUME NEW i \in 1..Len(less)
       PROVE  /\ i < Len(less) => /\ less[i][2] \in 1..Len(DepMap(less[i][1]))
                                  /\ less[i + 1][1] = DepMap(less[i][1])[less[i][2]]
              /\ less[i][2] <= Len(DepMap(less[i][1]))
              /\ \A j \in 1..less[i][2] :
                   DepMap(less[i][1])[j] \in gone \cup {node} \/ (i < Len(less) /\ j = less[i][2])
  <2>1. i \in 1..n /\ i < n /\ less[i] = frames[i] BY <1>1
  <2>2. /\ frames[i][2] \in 1..Len(DepMap(frames[i][1]))
        /\ frames[i + 1][1] = DepMap(frames[i][1])[frames[i][2]]
        /\ frames[i][2] <= Len(DepMap(frames[i][1]))
        /\ \A j \in 1..frames[i][2] : DepMap(frames[i][1])[j] \in gone \/ j = frames[i][2]
    BY <1>9, <2>1 DEF GoneOn, n
  <2>3. CASE i < Len(less)
    <3>1. less[i + 1] = frames[i + 1] BY <1>1, <2>3
    <3> QED BY <2>1, <2>2, <2>3, <3>1
  <2>4. CASE ~(i < Len(less))
    <3>1. i + 1 = n /\ frames[n][1] = node BY <1>1, <2>4
    <3>2. DepMap(frames[i][1])[frames[i][2]] = node BY <2>2, <3>1
    <3> QED BY <2>1, <2>2, <2>4, <3>2
  <2> QED BY <2>3, <2>4
<1>12. GoneOn(less, gone \cup {node})
  BY <1>11 DEF GoneOn
<1> QED BY <1>2, <1>7, <1>8, <1>10, <1>12 DEF gone, less, left, here, node

LEMMA GoneOnSame ==
  ASSUME NEW frames, NEW gone
  PROVE  GoneOn(frames, gone) <=> GoneOnIn(batch, Remaining, frames, gone)
<1>1. \A n : DepMap(n) = Listed(batch, Remaining, n)
  BY DEF DepMap, Listed
<1> QED BY <1>1 DEF GoneOn, GoneOnIn

LEMMA SearchKept ==
  ASSUME batch' = batch, loadOrder' = loadOrder,
         dfs'.starts \in Seq(Remaining),
         Entered(dfs'.stack, dfs'.path, dfs'.visited),
         GoneOn(dfs'.stack, dfs'.visited \ ToSet(dfs'.path)),
         Ranked(dfs'.visited \ ToSet(dfs'.path)), Covers(dfs'.starts, dfs'.stack)
  PROVE  SearchInv'
<1>1. Remaining' = Remaining
  BY DEF Remaining, ModuleIds
<1>2. Entered(dfs.stack, dfs.path, dfs.visited)'
  BY <1>1 DEF Entered
<1>3. GoneOnIn(batch, Remaining, dfs.stack, Gone)'
  BY <1>1, GoneOnSame DEF Gone
<1>4. Ranked(Gone)'
  BY <1>1 DEF Ranked, Gone, RanksBy, Neighbors
<1>5. Covers(dfs.starts, dfs.stack)'
  <2>1. PICK U \in SUBSET Remaining : Ranked(U) /\ Remaining \subseteq U \cup ToSet(dfs'.starts) \cup Begun(dfs'.stack)
    BY DEF Covers
  <2>2. Ranked(U)'
    BY <1>1, <2>1 DEF Ranked, RanksBy, Neighbors
  <2> QED BY <1>1, <2>1, <2>2 DEF Covers, Begun
<1>6. (dfs.starts \in Seq(Remaining))'
  BY <1>1
<1> QED BY <1>2, <1>3, <1>4, <1>5, <1>6 DEF SearchInv

LEMMA SearchSet ==
  ASSUME NEW starts, NEW frames, NEW path, NEW visited,
         dfs' = [starts |-> starts, stack |-> frames, path |-> path, visited |-> visited],
         batch' = batch, loadOrder' = loadOrder,
         starts \in Seq(Remaining), Entered(frames, path, visited),
         GoneOn(frames, visited \ ToSet(path)), Ranked(visited \ ToSet(path)), Covers(starts, frames)
  PROVE  DfsRecord' /\ SearchInv'
<1>1. dfs'.starts = starts /\ dfs'.stack = frames /\ dfs'.path = path /\ dfs'.visited = visited
  OBVIOUS
<1>2. DfsRecord'
  BY <1>1 DEF DfsRecord
<1>3. SearchInv'
  BY <1>1, SearchKept
<1> QED BY <1>2, <1>3

LEMMA NothingEntered ==
  /\ Entered(<<>>, <<>>, {})
  /\ \A gone : GoneOn(<<>>, gone)
  /\ ToSet(<<>>) = {}
<1>1. ToSet(<<>>) = {}
  BY DEF ToSet
<1> QED BY <1>1 DEF Entered, GoneOn

LEMMA SearchBegins ==
  ASSUME SortInv, dfs = NoSearch, dfs' = [dfs EXCEPT !.starts = Sorted(Remaining)],
         batch' = batch, loadOrder' = loadOrder
  PROVE  DfsRecord' /\ SearchInv'
<1> DEFINE starts == Sorted(Remaining)
<1>1. starts \in Seq(Remaining) /\ ToSet(starts) = Remaining
  BY NeighborsListed, SortedLists
<1>2. dfs' = [starts |-> starts, stack |-> <<>>, path |-> <<>>, visited |-> {}]
  BY DEF NoSearch
<1> HIDE DEF starts
<1>3. {} \ ToSet(<<>>) = {}
  OBVIOUS
<1>4. Covers(starts, <<>>)
  BY <1>1, RankedNone DEF Covers, Begun
<1> QED BY <1>1, <1>2, <1>3, <1>4, RankedNone, NothingEntered, SearchSet

LEMMA FromStep ==
  ASSUME SortInv, DfsRecord, SearchInv, SearchFrom
  PROVE  DfsRecord' /\ SearchInv'
<1> DEFINE first == Head(dfs.starts)
           rest == Tail(dfs.starts)
           stack0 == <<<<first, 0>>>>
<1>1. /\ dfs.stack = <<>> /\ dfs.starts # <<>> /\ batch' = batch /\ loadOrder' = loadOrder
      /\ dfs' = [starts |-> rest, stack |-> stack0, path |-> <<>>, visited |-> {}]
  BY DEF SearchFrom, NoSearch
<1>2. dfs.starts \in Seq(Remaining) /\ first \in Remaining /\ rest \in Seq(Remaining)
      /\ ToSet(dfs.starts) = ToSet(rest) \cup {first}
  <2>1. dfs.starts \in Seq(Remaining) BY DEF SearchInv
  <2>2. first \in Remaining /\ rest \in Seq(Remaining) /\ Len(rest) = Len(dfs.starts) - 1 /\ Len(dfs.starts) \in Nat
        /\ \A i \in 1..Len(rest) : rest[i] = dfs.starts[i + 1]
    BY <1>1, <2>1
  <2>3. first = dfs.starts[1] /\ 1 \in 1..Len(dfs.starts) BY <1>1, <2>1
  <2>4. ToSet(dfs.starts) = {dfs.starts[i] : i \in 1..Len(dfs.starts)} /\ ToSet(rest) = {rest[i] : i \in 1..Len(rest)}
    <3>1. DOMAIN dfs.starts = 1..Len(dfs.starts) /\ DOMAIN rest = 1..Len(rest) BY <2>1, <2>2
    <3> QED BY <3>1 DEF ToSet
  <2>5. \A i \in 1..Len(dfs.starts) : i = 1 \/ i - 1 \in 1..Len(rest) BY <2>2
  <2>6. \A i \in 1..Len(rest) : i + 1 \in 1..Len(dfs.starts) BY <2>2
  <2>7. \A i \in 1..Len(dfs.starts) : i = 1 \/ (i - 1) + 1 = i BY <2>2
  <2> HIDE DEF rest, first
  <2>8. ToSet(dfs.starts) \subseteq ToSet(rest) \cup {first}
    <3> SUFFICES ASSUME NEW i \in 1..Len(dfs.starts) PROVE dfs.starts[i] \in ToSet(rest) \cup {first} BY <2>4
    <3>1. CASE i = 1 BY <2>3, <3>1
    <3>2. CASE i # 1
      <4>1. i - 1 \in 1..Len(rest) /\ (i - 1) + 1 = i BY <2>5, <2>7, <3>2
      <4>2. rest[i - 1] = dfs.starts[i] BY <2>2, <4>1
      <4> QED BY <2>4, <4>1, <4>2
    <3> QED BY <3>1, <3>2
  <2>9. ToSet(rest) \cup {first} \subseteq ToSet(dfs.starts) BY <2>2, <2>3, <2>4, <2>6
  <2> QED BY <2>1, <2>2, <2>8, <2>9
<1> HIDE DEF first, rest
<1>3. /\ stack0 \in Seq(Remaining \X Nat) /\ Len(stack0) = 1 /\ stack0[1] = <<first, 0>> /\ stack0 # <<>>
      /\ stack0[1][1] = first /\ stack0[1][2] = 0
  <2>1. <<first, 0>> \in Remaining \X Nat BY <1>2
  <2> QED BY <2>1
<1> HIDE DEF stack0
<1>4. Last(stack0) = stack0[1]
  BY <1>3 DEF Last
<1>5. Entered(stack0, <<>>, {})
  BY <1>3, <1>4, NothingEntered DEF Entered
<1>6. GoneOn(stack0, {})
  <2>1. Len(DepMap(first)) \in Nat BY NeighborsListed
  <2> QED BY <1>3, <2>1 DEF GoneOn
<1>7. Covers(rest, stack0)
  <2>1. PICK U \in SUBSET Remaining : Ranked(U) /\ Remaining \subseteq U \cup ToSet(dfs.starts) \cup Begun(dfs.stack)
    BY DEF SearchInv, Covers
  <2>2. Begun(dfs.stack) = {} /\ Begun(stack0) = {first} BY <1>1, <1>3 DEF Begun
  <2> QED BY <1>2, <2>1, <2>2 DEF Covers
<1>8. {} \ ToSet(<<>>) = {}
  OBVIOUS
<1> QED BY <1>1, <1>2, <1>5, <1>6, <1>7, <1>8, RankedNone, SearchSet

LEMMA SkipFrame ==
  ASSUME SortInv, DfsRecord, SearchInv, SkipSeen
  PROVE  DfsRecord' /\ SearchInv'
<1> DEFINE less == Front(dfs.stack)
<1>1. /\ dfs.stack # <<>> /\ Last(dfs.stack)[2] = 0 /\ Last(dfs.stack)[1] \in Gone
      /\ batch' = batch /\ loadOrder' = loadOrder
      /\ dfs' = [starts |-> dfs.starts, stack |-> less, path |-> dfs.path, visited |-> dfs.visited]
  BY DEF SkipSeen, Looking, TopIdx, TopNode, DfsRecord, Gone
<1>2. /\ dfs.starts \in Seq(Remaining) /\ Entered(dfs.stack, dfs.path, dfs.visited) /\ GoneOn(dfs.stack, Gone)
      /\ Ranked(Gone) /\ Covers(dfs.starts, dfs.stack)
  BY GoneOnSame DEF SearchInv
<1>3. Entered(less, dfs.path, dfs.visited) /\ GoneOn(less, Gone)
  BY <1>1, <1>2, SkipFrames DEF Gone
<1>a. /\ Len(dfs.stack) \in Nat \ {0} /\ Len(less) = Len(dfs.stack) - 1 /\ less \in Seq(Remaining \X Nat)
      /\ \A i \in 1..(Len(dfs.stack) - 1) : less[i] = dfs.stack[i]
      /\ Last(dfs.stack) = dfs.stack[Len(dfs.stack)]
  BY <1>1, <1>2, PoppedFrames
<1> HIDE DEF less
<1>4. Covers(dfs.starts, less)
  <2>1. CASE less # <<>>
    <3>1. Begun(less) = Begun(dfs.stack)
      <4>1. 1 \in 1..(Len(dfs.stack) - 1) BY <2>1, <1>a
      <4> QED BY <1>1, <1>a, <2>1, <4>1 DEF Begun
    <3>2. PICK U \in SUBSET Remaining : Ranked(U) /\ Remaining \subseteq U \cup ToSet(dfs.starts) \cup Begun(dfs.stack)
      BY <1>2 DEF Covers
    <3> QED BY <3>1, <3>2 DEF Covers
  <2>2. CASE less = <<>>
    <3>1. Begun(dfs.stack) \subseteq Gone
      <4>1. Len(less) = 0 BY <2>2
      <4>2. Len(dfs.stack) = 1 BY <1>a, <4>1
      <4>3. dfs.stack[1] = Last(dfs.stack) BY <1>a, <4>2
      <4> QED BY <1>1, <4>3 DEF Begun
    <3>2. PICK U \in SUBSET Remaining : Ranked(U) /\ Remaining \subseteq U \cup ToSet(dfs.starts) \cup Begun(dfs.stack)
      BY <1>2 DEF Covers
    <3>3. Ranked(U \cup Gone) BY <1>2, <3>2, RankedBoth
    <3>4. Gone \in SUBSET Remaining BY <1>2 DEF Entered, Gone
    <3>5. Remaining \subseteq (U \cup Gone) \cup ToSet(dfs.starts) \cup Begun(less)
      BY <3>1, <3>2
    <3> QED BY <3>2, <3>3, <3>4, <3>5 DEF Covers
  <2> QED BY <2>1, <2>2
<1> QED BY <1>1, <1>2, <1>3, <1>4, SearchSet DEF Gone

\* The path with the node on it, and what the top frame says.
LEMMA StaysHere ==
  ASSUME Stays
  PROVE  /\ dfs.stack # <<>> /\ PathHere = Here(dfs.stack, dfs.path)
         /\ TopNode = Last(dfs.stack)[1] /\ TopIdx = Last(dfs.stack)[2]
         /\ TopIdx = 0 => TopNode \notin dfs.visited
BY DEF Stays, Looking, PathHere, Here, TopNode, TopIdx

LEMMA EnterSearch ==
  ASSUME SortInv, DfsRecord, SearchInv, EnterNeighbor
  PROVE  DfsRecord' /\ SearchInv'
<1> DEFINE node == TopNode
           idx == TopIdx
           more == Front(dfs.stack) \o <<<<node, idx + 1>>, <<DepMap(node)[idx + 1], 0>>>>
           here == PathHere
           seen == dfs.visited \cup {node}
<1>1. /\ dfs.stack # <<>> /\ here = Here(dfs.stack, dfs.path) /\ node = Last(dfs.stack)[1] /\ idx = Last(dfs.stack)[2]
      /\ idx = 0 => node \notin dfs.visited
  BY StaysHere DEF EnterNeighbor
<1>2. /\ idx < Len(DepMap(node)) /\ batch' = batch /\ loadOrder' = loadOrder
      /\ dfs' = [starts |-> dfs.starts, stack |-> more, path |-> here, visited |-> seen]
  BY DEF EnterNeighbor, DfsRecord
<1>3. /\ dfs.starts \in Seq(Remaining) /\ Entered(dfs.stack, dfs.path, dfs.visited)
      /\ GoneOn(dfs.stack, dfs.visited \ ToSet(dfs.path))
      /\ Ranked(dfs.visited \ ToSet(dfs.path)) /\ Covers(dfs.starts, dfs.stack)
  BY GoneOnSame DEF SearchInv, Gone
<1> HIDE DEF node, idx, here
<1>5. /\ Entered(more, here, seen) /\ seen \ ToSet(here) = dfs.visited \ ToSet(dfs.path)
      /\ GoneOn(more, dfs.visited \ ToSet(dfs.path)) /\ Begun(more) = Begun(dfs.stack)
  <2>1. more = More(dfs.stack) BY <1>1 DEF More
  <2> HIDE DEF more
  <2>2. /\ Last(dfs.stack)[2] < Len(DepMap(Last(dfs.stack)[1]))
        /\ Last(dfs.stack)[2] = 0 => Last(dfs.stack)[1] \notin dfs.visited
    BY <1>1, <1>2
  <2>3. /\ Entered(More(dfs.stack), Here(dfs.stack, dfs.path), dfs.visited \cup {Last(dfs.stack)[1]})
        /\ (dfs.visited \cup {Last(dfs.stack)[1]}) \ ToSet(Here(dfs.stack, dfs.path)) = dfs.visited \ ToSet(dfs.path)
        /\ GoneOn(More(dfs.stack), dfs.visited \ ToSet(dfs.path))
        /\ Begun(More(dfs.stack)) = Begun(dfs.stack)
    BY <1>1, <1>3, <2>2, EnterFrames
  <2> QED BY <1>1, <2>1, <2>3
<1> HIDE DEF more, seen
<1>6. Covers(dfs.starts, more)
  BY <1>3, <1>5 DEF Covers
<1>7. GoneOn(more, seen \ ToSet(here)) /\ Ranked(seen \ ToSet(here))
  BY <1>3, <1>5
<1> QED BY <1>2, <1>3, <1>5, <1>6, <1>7, SearchSet

LEMMA LeaveStep ==
  ASSUME SortInv, DfsRecord, SearchInv, LeaveNode
  PROVE  DfsRecord' /\ SearchInv'
<1> DEFINE node == TopNode
           idx == TopIdx
           less == Front(dfs.stack)
           here == PathHere
           seen == dfs.visited \cup {node}
           gone == dfs.visited \ ToSet(dfs.path)
           left == Front(here)
<1>1. /\ dfs.stack # <<>> /\ here = Here(dfs.stack, dfs.path) /\ node = Last(dfs.stack)[1] /\ idx = Last(dfs.stack)[2]
      /\ idx = 0 => node \notin dfs.visited
  BY StaysHere DEF LeaveNode
<1>2. /\ idx >= Len(DepMap(node)) /\ batch' = batch /\ loadOrder' = loadOrder
      /\ dfs' = [starts |-> dfs.starts, stack |-> less, path |-> left, visited |-> seen]
  BY DEF LeaveNode, DfsRecord
<1>3. /\ dfs.starts \in Seq(Remaining) /\ Entered(dfs.stack, dfs.path, dfs.visited)
      /\ GoneOn(dfs.stack, gone) /\ Ranked(gone) /\ Covers(dfs.starts, dfs.stack)
  BY GoneOnSame DEF SearchInv, Gone
<1> HIDE DEF node, idx, here
<1>5. /\ Entered(less, left, seen) /\ seen \ ToSet(left) = gone \cup {node}
      /\ GoneOn(less, gone \cup {node}) /\ node \notin gone /\ Neighbors(node) \subseteq gone
  BY <1>1, <1>2, <1>3, LeaveFrames
<1>6. /\ Len(dfs.stack) \in Nat \ {0} /\ Len(less) = Len(dfs.stack) - 1 /\ less \in Seq(Remaining \X Nat)
      /\ (\A i \in 1..(Len(dfs.stack) - 1) : less[i] = dfs.stack[i])
      /\ Last(dfs.stack) = dfs.stack[Len(dfs.stack)] /\ node \in Remaining
  BY <1>1, <1>3, PoppedFrames
<1>7. gone \subseteq Remaining
  BY <1>3 DEF Entered
<1> HIDE DEF less, seen, left, gone
<1>8. Ranked(gone \cup {node})
  BY <1>3, <1>5, RankedMore
<1>9. Covers(dfs.starts, less)
  <2>0. PICK U \in SUBSET Remaining : Ranked(U) /\ Remaining \subseteq U \cup ToSet(dfs.starts) \cup Begun(dfs.stack)
    BY <1>3 DEF Covers
  <2>1. CASE less # <<>>
    <3>1. 1 \in 1..(Len(dfs.stack) - 1) BY <2>1, <1>6
    <3>2. Begun(less) = Begun(dfs.stack) BY <1>1, <1>6, <2>1, <3>1 DEF Begun
    <3> QED BY <2>0, <3>2 DEF Covers
  <2>2. CASE less = <<>>
    <3>1. Len(less) = 0 BY <2>2
    <3>2. Len(dfs.stack) = 1 BY <1>6, <3>1
    <3>3. Begun(dfs.stack) = {node} BY <1>1, <1>6, <3>2 DEF Begun
    <3>4. Ranked(U \cup (gone \cup {node})) BY <1>8, <2>0, RankedBoth
    <3>5. U \cup (gone \cup {node}) \in SUBSET Remaining BY <1>6, <1>7
    <3>6. Remaining \subseteq (U \cup (gone \cup {node})) \cup ToSet(dfs.starts) \cup Begun(less)
      BY <2>0, <3>3
    <3> QED BY <3>4, <3>5, <3>6 DEF Covers
  <2> QED BY <2>1, <2>2
<1>10. GoneOn(less, seen \ ToSet(left)) /\ Ranked(seen \ ToSet(left))
  BY <1>5, <1>8
<1> QED BY <1>2, <1>3, <1>5, <1>9, <1>10, SearchSet

\* The cycle that is reported: the frames from the one the node is met on again.
LEMMA CycleFound ==
  ASSUME SortInv, SearchInv, FindCycle
  PROVE  Closes(CyclePath(TopNode)) /\ ToSet(CyclePath(TopNode)) \subseteq Remaining
<1> DEFINE p == dfs.path
           frames == dfs.stack
           m == Len(p)
           from == CHOOSE i \in DOMAIN p : p[i] = TopNode
           cyc == CyclePath(TopNode)
<1>1. /\ frames # <<>> /\ Last(frames)[2] = 0 /\ TopNode = Last(frames)[1] /\ TopNode \in ToSet(p)
      /\ Entered(frames, p, dfs.visited) /\ GoneOn(frames, Gone)
  BY GoneOnSame DEF SearchInv, FindCycle, Looking, TopIdx, TopNode
<1>2. /\ m \in Nat /\ Len(frames) = m + 1 /\ frames[m + 1][1] = TopNode /\ TopNode \in Remaining
      /\ \A i \in 1..(m + 1) : frames[i][1] \in Remaining
  <2>1. /\ Len(frames) \in Nat \ {0} /\ Len(p) \in Nat /\ Last(frames) = frames[Len(frames)]
        /\ Last(frames)[1] \in Remaining /\ \A i \in 1..Len(frames) : frames[i][1] \in Remaining
    BY <1>1, PoppedFrames
  <2>2. Len(p) = Len(frames) - 1 BY <1>1 DEF Entered
  <2>3. Len(frames) = m + 1 BY <2>1, <2>2
  <2> QED BY <1>1, <2>1, <2>3
<1>3. /\ p \in Seq(Remaining) /\ DOMAIN p = 1..m /\ \A i \in 1..m : p[i] = frames[i][1]
      /\ \A i, j \in 1..m : p[i] = p[j] => i = j
  BY <1>1 DEF Entered
<1>4. from \in 1..m /\ p[from] = TopNode
  <2>1. \E i \in DOMAIN p : p[i] = TopNode BY <1>1 DEF ToSet
  <2>2. from \in DOMAIN p /\ p[from] = TopNode BY <2>1
  <2> QED BY <1>3, <2>2
<1>5. cyc = Append(SubSeq(p, from, m), TopNode)
  BY DEF CyclePath
<1> HIDE DEF from, cyc, m, p, frames
<1> DEFINE l == m - from + 1
           part == SubSeq(p, from, m)
<1>6. l \in Nat /\ l >= 1 /\ \A k \in 1..l : from + k - 1 \in 1..m
  BY <1>2, <1>4
<1>7. part \in Seq(Remaining) /\ Len(part) = l /\ \A k \in 1..l : part[k] = p[from + k - 1]
  <2>1. part = [k \in 1..l |-> p[k + from - 1]]
    <3>1. from \in Int /\ m \in Int BY <1>2, <1>4
    <3> QED BY <1>3, <3>1 DEF part
  <2>2. \A k \in 1..l : k + from - 1 = from + k - 1 /\ k + from - 1 \in 1..m BY <1>4, <1>6
  <2>3. \A k \in 1..l : p[k + from - 1] \in Remaining
    <3>1. \A i \in 1..m : i \in 1..(m + 1) BY <1>2
    <3>2. \A i \in 1..m : p[i] \in Remaining BY <1>2, <1>3, <3>1
    <3> QED BY <2>2, <3>2
  <2>4. part \in [1..l -> Remaining] BY <2>1, <2>3
  <2> HIDE DEF part, l
  <2>5. \A k \in 1..l : part[k] = p[k + from - 1] BY <2>1
  <2> QED BY <1>6, <2>2, <2>4, <2>5, ListOfLength
<1> HIDE DEF part, l
<1>8. /\ cyc \in Seq(Remaining) /\ Len(cyc) = l + 1 /\ cyc[l + 1] = TopNode
      /\ \A k \in 1..l : cyc[k] = p[from + k - 1]
  <2>1. cyc = Append(part, TopNode) BY <1>5 DEF part
  <2>2. /\ cyc \in Seq(Remaining) /\ Len(cyc) = Len(part) + 1 /\ cyc[Len(part) + 1] = TopNode
        /\ \A k \in 1..Len(part) : cyc[k] = part[k]
    BY <1>2, <1>7, <2>1
  <2> QED BY <1>7, <2>2
<1>9. \A k \in 1..(l + 1) : cyc[k] = frames[from + k - 1][1]
  <2> SUFFICES ASSUME NEW k \in 1..(l + 1) PROVE cyc[k] = frames[from + k - 1][1] OBVIOUS
  <2>1. CASE k \in 1..l BY <1>3, <1>6, <1>8, <2>1
  <2>2. CASE k = l + 1
    <3>1. from + k - 1 = m + 1 BY <1>2, <1>4, <2>2 DEF l
    <3> QED BY <1>2, <1>8, <2>2, <3>1
  <2> QED BY <1>6, <2>1, <2>2
<1>10. Len(cyc) > 1 /\ cyc[1] = Last(cyc)
  <2>1. Len(cyc) > 1 /\ 1 \in 1..l BY <1>6, <1>8
  <2>2. from + 1 - 1 = from BY <1>4
  <2>3. cyc[1] = TopNode BY <1>4, <1>8, <2>1, <2>2
  <2>4. Last(cyc) = cyc[l + 1] BY <1>8 DEF Last
  <2> QED BY <1>8, <2>1, <2>3, <2>4
<1>11. IsInjective(Front(cyc))
  <2>1. Len(cyc) - 1 = l BY <1>6, <1>8
  <2>2. Front(cyc) = SubSeq(cyc, 1, l) BY <2>1 DEF Front
  <2>3. SubSeq(cyc, 1, l) = [k \in 1..l |-> cyc[k]] BY <1>6, <1>8
  <2>4. DOMAIN Front(cyc) = 1..l /\ \A k \in 1..l : Front(cyc)[k] = p[from + k - 1] BY <1>8, <2>2, <2>3
  <2>5. ASSUME NEW j \in 1..l, NEW k \in 1..l, p[from + j - 1] = p[from + k - 1] PROVE j = k
    <3>1. from + j - 1 = from + k - 1 BY <1>3, <1>6, <2>5
    <3> QED BY <1>4, <3>1
  <2> QED BY <2>4, <2>5 DEF IsInjective
<1>12. ASSUME NEW k \in 1..l PROVE \E d \in DependenciesOf(cyc[k]) : d.to = cyc[k + 1]
  <2> DEFINE i == from + k - 1
  <2>1. i \in 1..(m + 1) /\ i < m + 1 /\ i + 1 = from + (k + 1) - 1 /\ k \in 1..(l + 1) /\ k + 1 \in 1..(l + 1)
    BY <1>2, <1>4, <1>6
  <2>2. cyc[k] = frames[i][1] /\ cyc[k + 1] = frames[i + 1][1] BY <1>9, <2>1
  <2> HIDE DEF i
  <2>3. /\ frames[i][2] \in 1..Len(DepMap(frames[i][1]))
        /\ frames[i + 1][1] = DepMap(frames[i][1])[frames[i][2]]
    BY <1>1, <1>2, <2>1 DEF GoneOn
  <2>4. Neighbors(frames[i][1]) = {DepMap(frames[i][1])[j] : j \in 1..Len(DepMap(frames[i][1]))}
    BY NeighborsListed
  <2>5. cyc[k + 1] \in Neighbors(cyc[k]) BY <2>2, <2>3, <2>4
  <2>6. PICK j \in DOMAIN batch.deps[cyc[k]] : cyc[k + 1] = batch.deps[cyc[k]][j].to BY <2>5 DEF Neighbors
  <2>7. batch.deps[cyc[k]][j] \in DependenciesOf(cyc[k]) BY DEF DependenciesOf, ToSet
  <2> QED BY <2>6, <2>7
<1>13. Closes(cyc)
  <2>1. Len(cyc) - 1 = l BY <1>6, <1>8
  <2> QED BY <1>10, <1>11, <1>12, <2>1 DEF Closes
<1>14. ToSet(cyc) \subseteq Remaining
  BY <1>8 DEF ToSet
<1> QED BY <1>13, <1>14 DEF cyc

\* When the search is over, every module that remains has a rank.
LEMMA AllRanked ==
  ASSUME SearchInv, dfs.starts = <<>>, dfs.stack = <<>>
  PROVE  Ranked(Remaining)
<1>1. PICK U \in SUBSET Remaining : Ranked(U) /\ Remaining \subseteq U \cup ToSet(dfs.starts) \cup Begun(dfs.stack)
  BY DEF SearchInv, Covers
<1>2. ToSet(dfs.starts) = {} /\ Begun(dfs.stack) = {}
  BY NothingEntered DEF Begun
<1>3. U = Remaining
  BY <1>1, <1>2
<1> QED BY <1>1, <1>3

\* What is left by its rank, behind the order so far, is an order of the whole
\* batch: a batch that is blocked has no cycle.
LEMMA RankedAcyclic ==
  ASSUME SortInv, loop = "done", ~WasRefused, Ranked(Remaining)
  PROVE  Acyclic
<1>1. queue = <<>> /\ unread = <<>> /\ LineHolds
  BY DEF SortInv
<1>2. /\ loadOrder \in Seq(ModuleIds) /\ Line = loadOrder
      /\ \A i, j \in 1..Len(loadOrder) : loadOrder[i] = loadOrder[j] => i = j
      /\ \A j \in 1..Len(loadOrder) : \A id \in batch.known \cup ModuleIds :
           loadOrder[j] \in graph[id] => \E i \in 1..(j - 1) : loadOrder[i] = id
  <2>1. loadOrder \in Seq(ModuleIds) BY <1>1 DEF LineHolds
  <2>2. Line = loadOrder BY <1>1, <2>1 DEF Line
  <2> QED BY <1>1, <2>1, <2>2 DEF LineHolds
<1> DEFINE n == Len(loadOrder)
           r == Cardinality(Remaining)
<1>3. /\ n \in Nat /\ (\A i \in 1..n : loadOrder[i] \in ModuleIds)
      /\ ToSet(loadOrder) = {loadOrder[i] : i \in 1..n}
  <2>1. n \in Nat /\ DOMAIN loadOrder = 1..n /\ \A i \in 1..n : loadOrder[i] \in ModuleIds BY <1>2
  <2> QED BY <2>1 DEF ToSet
<1>4. IsFiniteSet(Remaining) /\ r \in Nat /\ Remaining \subseteq ModuleIds
  BY NeighborsListed, FS_CardinalityType DEF Remaining
<1>5. PICK rank, bound : RanksBy(rank, bound, Remaining)
  BY DEF Ranked
<1>6. /\ rank \in [Remaining -> Int] /\ \A x \in Remaining : rank[x] \in Int
      /\ \A x \in Remaining : \A d \in Neighbors(x) : d \in Remaining /\ rank[d] < rank[x]
  <2>1. bound \in Nat /\ rank \in [Remaining -> 0..bound] BY <1>5 DEF RanksBy
  <2> QED BY <1>5, <2>1 DEF RanksBy
<1>7. PICK s : Lists(s, Remaining, rank)
  BY <1>4, <1>6, RankedList
<1> HIDE DEF n
<1>8. /\ s \in [1..r -> Remaining] /\ (\A i \in 1..r : s[i] \in Remaining)
      /\ \A x \in Remaining : \E i \in 1..r : s[i] = x
      /\ \A i, j \in 1..r : i < j => s[i] # s[j] /\ rank[s[i]] <= rank[s[j]]
  BY <1>7 DEF Lists
<1> HIDE DEF r
<1> DEFINE D == 1..(n + r)
           order == [i \in D |-> IF i <= n THEN loadOrder[i] ELSE s[i - n]]
<1>9. \A i \in 1..n : i \in D /\ order[i] = loadOrder[i] /\ order[i] \in ModuleIds /\ order[i] \notin Remaining
  <2> TAKE i \in 1..n
  <2>1. i \in D /\ i <= n BY <1>3, <1>4
  <2>2. order[i] = loadOrder[i] BY <2>1
  <2> QED BY <1>3, <2>1, <2>2 DEF Remaining
<1>10. \A i \in 1..r : n + i \in D /\ order[n + i] = s[i] /\ order[n + i] \in Remaining
  <2> TAKE i \in 1..r
  <2>1. n + i \in D /\ ~(n + i <= n) /\ (n + i) - n = i BY <1>3, <1>4
  <2>2. order[n + i] = s[(n + i) - n] BY <2>1
  <2> QED BY <1>8, <2>1, <2>2
<1>11. \A i \in D : i \in 1..n \/ \E k \in 1..r : i = n + k
  <2> TAKE i \in D
  <2>1. i \in 1..n \/ (i - n \in 1..r /\ i = n + (i - n)) BY <1>3, <1>4
  <2> QED BY <2>1
<1>12. DOMAIN order = D
  OBVIOUS
<1>0. order = [i \in D |-> order[i]]
  OBVIOUS
<1> HIDE DEF order, D
<1>13. \A i \in D : order[i] \in ModuleIds
  BY <1>4, <1>9, <1>10, <1>11
<1>14. order \in [D -> ModuleIds]
  BY <1>0, <1>13
<1>15. ASSUME NEW i \in D, NEW j \in D, order[i] = order[j] PROVE i = j
  <2>1. CASE i \in 1..n
    <3>1. j \in 1..n
      <4> SUFFICES ASSUME j \notin 1..n PROVE FALSE OBVIOUS
      <4>1. order[i] \notin Remaining BY <1>9, <2>1
      <4>2. PICK k \in 1..r : j = n + k BY <1>11
      <4>3. order[j] \in Remaining BY <1>10, <4>2
      <4> QED BY <1>15, <4>1, <4>3
    <3> QED BY <1>2, <1>9, <1>15, <2>1, <3>1 DEF n
  <2>2. CASE i \notin 1..n
    <3>1. PICK k \in 1..r : i = n + k BY <1>11, <2>2
    <3>2. j \notin 1..n BY <1>9, <1>10, <1>15, <3>1
    <3>3. PICK k2 \in 1..r : j = n + k2 BY <1>11, <3>2
    <3>4. s[k] = s[k2] BY <1>10, <1>15, <3>1, <3>3
    <3>5. ~(k < k2) /\ ~(k2 < k) BY <1>8, <3>4
    <3>6. k = k2 BY <1>4, <3>5
    <3> QED BY <3>1, <3>3, <3>6
  <2> QED BY <2>1, <2>2
<1>16. \A x \in ModuleIds : \E i \in D : order[i] = x
  <2> TAKE x \in ModuleIds
  <2>1. CASE x \in Remaining
    <3>1. PICK i \in 1..r : s[i] = x BY <1>8, <2>1
    <3> QED BY <1>10, <3>1
  <2>2. CASE x \notin Remaining
    <3>1. PICK i \in 1..n : loadOrder[i] = x BY <1>3, <2>2 DEF Remaining
    <3> QED BY <1>9, <3>1
  <2> QED BY <2>1, <2>2
<1>17. D = 1..Cardinality(ModuleIds)
  <2>0. n + r \in Nat BY <1>3, <1>4
  <2>1. IsFiniteSet(D) /\ Cardinality(D) = n + r BY <2>0, FS_Interval DEF D
  <2>2. order \in Surjection(D, ModuleIds) BY <1>14, <1>16 DEF Surjection
  <2>3. order \in Injection(D, ModuleIds) BY <1>12, <1>14, <1>15 DEF Injection, IsInjective
  <2>4. Cardinality(ModuleIds) = Cardinality(D) BY <2>1, <2>2, <2>3, FS_Surjection
  <2> QED BY <2>1, <2>4 DEF D
<1>18. order \in SetToSeqs(ModuleIds)
  <2>1. order \in [1..Cardinality(ModuleIds) -> ModuleIds] BY <1>14, <1>17
  <2>2. \A i, j \in 1..Cardinality(ModuleIds) : i # j => order[i] # order[j] BY <1>15, <1>17
  <2> QED BY <2>1, <2>2 DEF SetToSeqs
<1>19. ASSUME NEW m \in ModuleIds, NEW to \in Enforced(m) \cap ModuleIds PROVE Precedes(order, to, m)
  <2>1. CASE m \notin Remaining
    <3>1. PICK j \in 1..n : loadOrder[j] = m BY <1>3, <2>1 DEF Remaining
    <3>2. to \in batch.known \cup ModuleIds /\ m \in graph[to] BY <1>1, <1>19, AllRead
    <3>3. PICK i \in 1..(j - 1) : loadOrder[i] = to BY <1>2, <3>1, <3>2 DEF n
    <3>4. i \in 1..n /\ i < j BY <1>3, <3>1, <3>3
    <3>5. i \in DOMAIN order /\ j \in DOMAIN order /\ order[i] = to /\ order[j] = m
      BY <1>9, <1>12, <3>1, <3>3, <3>4
    <3> QED BY <3>4, <3>5 DEF Precedes
  <2>2. CASE m \in Remaining /\ to \notin Remaining
    <3>1. PICK k \in 1..r : s[k] = m BY <1>8, <2>2
    <3>2. PICK i \in 1..n : loadOrder[i] = to BY <1>3, <1>19, <2>2 DEF Remaining
    <3>3. i < n + k BY <1>3, <1>4
    <3>4. i \in DOMAIN order /\ n + k \in DOMAIN order /\ order[i] = to /\ order[n + k] = m
      BY <1>9, <1>10, <1>12, <3>1, <3>2
    <3> QED BY <3>3, <3>4 DEF Precedes
  <2>3. CASE m \in Remaining /\ to \in Remaining
    <3>1. to \in Neighbors(m)
      <4>1. PICK d \in DependenciesOf(m) : d.to = to BY <1>19 DEF Enforced
      <4>2. PICK i \in DOMAIN batch.deps[m] : batch.deps[m][i] = d BY <4>1 DEF DependenciesOf, ToSet
      <4> QED BY <2>3, <4>1, <4>2 DEF Neighbors
    <3>2. rank[to] < rank[m] /\ rank[to] \in Int /\ rank[m] \in Int BY <1>6, <2>3, <3>1
    <3>3. PICK i \in 1..r : s[i] = to BY <1>8, <2>3
    <3>4. PICK k \in 1..r : s[k] = m BY <1>8, <2>3
    <3>5. ~(k < i) BY <1>8, <3>2, <3>3, <3>4
    <3>6. i # k BY <3>2, <3>3, <3>4
    <3>7. n + i < n + k BY <1>3, <1>4, <3>5, <3>6
    <3>8. n + i \in DOMAIN order /\ n + k \in DOMAIN order /\ order[n + i] = to /\ order[n + k] = m
      BY <1>10, <1>12, <3>3, <3>4
    <3> QED BY <3>7, <3>8 DEF Precedes
  <2> QED BY <2>1, <2>2, <2>3
<1> QED BY <1>18, <1>19 DEF Acyclic

----------------------------------------------------------------------------
(* The constraints                                                          *)

Small(v) == v[1] \in 0..2 /\ v[2] \in 0..2 /\ v[3] \in 0..2

LEMMA SmallOnes == \A v \in SmallVersions : Small(v)
BY DEF SmallVersions, Small

\* compareTuples goes by the numbers in turn.
LEMMA OlderIs ==
  ASSUME NEW a, NEW b
  PROVE  Older(a, b) <=> \/ a[1] < b[1]
                         \/ a[1] = b[1] /\ a[2] < b[2]
                         \/ a[1] = b[1] /\ a[2] = b[2] /\ a[3] < b[3]
<1>1. 1..3 = {1, 2, 3} /\ 1..(1 - 1) = {} /\ 1..(2 - 1) = {1} /\ 1..(3 - 1) = {1, 2}
  OBVIOUS
<1> QED BY <1>1 DEF Older

LEMMA OlderThan ==
  ASSUME NEW a, NEW x, NEW y, NEW z
  PROVE  Older(a, <<x, y, z>>) <=> \/ a[1] < x
                                   \/ a[1] = x /\ a[2] < y
                                   \/ a[1] = x /\ a[2] = y /\ a[3] < z
<1> DEFINE b == <<x, y, z>>
<1>1. b[1] = x /\ b[2] = y /\ b[3] = z
  OBVIOUS
<1> HIDE DEF b
<1>2. Older(a, b) <=> \/ a[1] < b[1]
                      \/ a[1] = b[1] /\ a[2] < b[2]
                      \/ a[1] = b[1] /\ a[2] = b[2] /\ a[3] < b[3]
  BY OlderIs
<1>3. Older(a, b) <=> \/ a[1] < x
                      \/ a[1] = x /\ a[2] < y
                      \/ a[1] = x /\ a[2] = y /\ a[3] < z
  BY <1>1, <1>2
<1> QED BY <1>3 DEF b

LEMMA OlderBelow ==
  ASSUME NEW v, NEW t, Small(v), Small(t)
  PROVE  /\ Older(v, t) <=> Ordinal(v) < Ordinal(t)
         /\ AtLeast(v, t) <=> Ordinal(v) >= Ordinal(t)
         /\ Ordinal(v) \in Nat /\ Ordinal(v) <= 222
<1> DEFINE v1 == v[1] v2 == v[2] v3 == v[3] t1 == t[1] t2 == t[2] t3 == t[3]
<1>1. /\ v1 \in 0..2 /\ v2 \in 0..2 /\ v3 \in 0..2 /\ t1 \in 0..2 /\ t2 \in 0..2 /\ t3 \in 0..2
  BY DEF Small
<1>2. Older(v, t) <=> v1 < t1 \/ (v1 = t1 /\ v2 < t2) \/ (v1 = t1 /\ v2 = t2 /\ v3 < t3)
  BY OlderIs
<1>3. Ordinal(v) = 100 * v1 + 10 * v2 + v3 /\ Ordinal(t) = 100 * t1 + 10 * t2 + t3
  BY DEF Ordinal
<1> HIDE DEF v1, v2, v3, t1, t2, t3
<1>4. (v1 < t1 \/ (v1 = t1 /\ v2 < t2) \/ (v1 = t1 /\ v2 = t2 /\ v3 < t3)) <=> 100 * v1 + 10 * v2 + v3 < 100 * t1 + 10 * t2 + t3
  BY <1>1
<1>5. 100 * v1 + 10 * v2 + v3 \in Nat /\ 100 * v1 + 10 * v2 + v3 <= 222 /\ 100 * t1 + 10 * t2 + t3 \in Nat
  BY <1>1
<1> QED BY <1>2, <1>3, <1>4, <1>5 DEF AtLeast

LEMMA UpTo ==
  ASSUME NEW v, NEW t
  PROVE  /\ SameUpTo(v, t, 1) <=> v[1] = t[1]
         /\ SameUpTo(v, t, 2) <=> v[1] = t[1] /\ v[2] = t[2]
         /\ SameUpTo(v, t, 3) <=> v[1] = t[1] /\ v[2] = t[2] /\ v[3] = t[3]
<1>1. 1..3 = {1, 2, 3} /\ 1..1 = {1} /\ 1..2 = {1, 2}
  OBVIOUS
<1> QED BY <1>1 DEF SameUpTo

LEMMA LeadingIs ==
  ASSUME NEW t, Small(t), NEW parts \in 1..3
  PROVE  /\ t[1] # 0 \/ parts = 1 => Leading(t, parts) = 1
         /\ t[1] = 0 /\ parts > 1 /\ (t[2] # 0 \/ parts = 2) => Leading(t, parts) = 2
         /\ t[1] = 0 /\ t[2] = 0 /\ parts = 3 => Leading(t, parts) = 3
<1> DEFINE P(i) == (t[i] # 0 \/ i = parts) /\ \A j \in 1..(i - 1) : t[j] = 0
<1>1. 1..(1 - 1) = {} /\ 1..(2 - 1) = {1} /\ 1..(3 - 1) = {1, 2}
  OBVIOUS
<1>2. Leading(t, parts) = CHOOSE i \in 1..parts : P(i)
  BY DEF Leading
<1>3. /\ P(1) <=> t[1] # 0 \/ parts = 1
      /\ P(2) <=> (t[2] # 0 \/ parts = 2) /\ t[1] = 0
      /\ P(3) <=> (t[3] # 0 \/ parts = 3) /\ t[1] = 0 /\ t[2] = 0
  BY <1>1
<1> HIDE DEF P
<1>4. \E i \in 1..parts : P(i)
  BY <1>3
<1>5. Leading(t, parts) \in 1..parts /\ P(Leading(t, parts))
  BY <1>2, <1>4
<1>6. Leading(t, parts) \in {1, 2, 3}
  BY <1>5
<1> QED BY <1>3, <1>5, <1>6

\* Below the bound of ^, or of ~, and from the target on: the number that leads
\* is kept.
LEMMA CaretKeeps ==
  ASSUME NEW v, NEW t, Small(v), Small(t), NEW parts \in 1..3,
         \A i \in (parts + 1)..3 : t[i] = 0, parts = 3 \/ t[1] # 0 \/ t[2] # 0
  PROVE  AtLeast(v, t) /\ Older(v, CaretUpperBound(t)) <=>
         Ordinal(v) >= Ordinal(t) /\ SameUpTo(v, t, Leading(t, parts))
<1>0. /\ t[1] = 0 /\ t[2] # 0 => parts > 1
      /\ t[1] = 0 /\ t[2] = 0 => parts = 3
  <2>1. parts = 1 => 2 \in (parts + 1)..3 OBVIOUS
  <2> QED BY <2>1
<1>1. /\ v[1] \in 0..2 /\ v[2] \in 0..2 /\ v[3] \in 0..2 /\ t[1] \in 0..2 /\ t[2] \in 0..2 /\ t[3] \in 0..2
  BY DEF Small
<1>2. AtLeast(v, t) <=> Ordinal(v) >= Ordinal(t)
  BY OlderBelow
<1>3. AtLeast(v, t) <=> ~(v[1] < t[1] \/ (v[1] = t[1] /\ v[2] < t[2]) \/ (v[1] = t[1] /\ v[2] = t[2] /\ v[3] < t[3]))
  BY OlderIs DEF AtLeast
<1>4. CASE t[1] # 0
  <2>1. CaretUpperBound(t) = <<t[1] + 1, 0, 0>> BY <1>1, <1>4 DEF CaretUpperBound
  <2>2. Older(v, CaretUpperBound(t)) <=> v[1] < t[1] + 1
    <3>1. Older(v, <<t[1] + 1, 0, 0>>) <=> \/ v[1] < t[1] + 1
                                           \/ v[1] = t[1] + 1 /\ v[2] < 0
                                           \/ v[1] = t[1] + 1 /\ v[2] = 0 /\ v[3] < 0
      BY OlderThan
    <3>2. ~(v[2] < 0) /\ ~(v[3] < 0) BY <1>1
    <3> QED BY <2>1, <3>1, <3>2
  <2>3. SameUpTo(v, t, Leading(t, parts)) <=> v[1] = t[1] BY <1>4, LeadingIs, UpTo
  <2>4. AtLeast(v, t) => ~(v[1] < t[1]) BY <1>3
  <2>5. ~(v[1] < t[1]) => (v[1] < t[1] + 1 <=> v[1] = t[1]) BY <1>1
  <2> QED BY <1>2, <2>2, <2>3, <2>4, <2>5
<1>5. CASE t[1] = 0 /\ t[2] # 0
  <2>1. CaretUpperBound(t) = <<0, t[2] + 1, 0>> BY <1>1, <1>5 DEF CaretUpperBound
  <2>2. Older(v, CaretUpperBound(t)) <=> v[1] = 0 /\ v[2] < t[2] + 1
    <3>1. Older(v, <<0, t[2] + 1, 0>>) <=> \/ v[1] < 0
                                           \/ v[1] = 0 /\ v[2] < t[2] + 1
                                           \/ v[1] = 0 /\ v[2] = t[2] + 1 /\ v[3] < 0
      BY OlderThan
    <3>2. ~(v[1] < 0) /\ ~(v[3] < 0) BY <1>1
    <3> QED BY <2>1, <3>1, <3>2
  <2>3. SameUpTo(v, t, Leading(t, parts)) <=> v[1] = t[1] /\ v[2] = t[2] BY <1>0, <1>5, LeadingIs, UpTo
  <2>4. AtLeast(v, t) => ~(v[1] = t[1] /\ v[2] < t[2]) BY <1>3
  <2>5. ~(v[2] < t[2]) => (v[2] < t[2] + 1 <=> v[2] = t[2]) BY <1>1
  <2> QED BY <1>2, <1>5, <2>2, <2>3, <2>4, <2>5
<1>6. CASE t[1] = 0 /\ t[2] = 0
  <2>1. CaretUpperBound(t) = <<0, 0, t[3] + 1>> BY <1>1, <1>6 DEF CaretUpperBound
  <2>2. Older(v, CaretUpperBound(t)) <=> v[1] = 0 /\ v[2] = 0 /\ v[3] < t[3] + 1
    <3>1. Older(v, <<0, 0, t[3] + 1>>) <=> \/ v[1] < 0
                                           \/ v[1] = 0 /\ v[2] < 0
                                           \/ v[1] = 0 /\ v[2] = 0 /\ v[3] < t[3] + 1
      BY OlderThan
    <3>2. ~(v[1] < 0) /\ ~(v[2] < 0) BY <1>1
    <3> QED BY <2>1, <3>1, <3>2
  <2>3. SameUpTo(v, t, Leading(t, parts)) <=> v[1] = t[1] /\ v[2] = t[2] /\ v[3] = t[3] BY <1>0, <1>6, LeadingIs, UpTo
  <2>4. AtLeast(v, t) => ~(v[1] = t[1] /\ v[2] = t[2] /\ v[3] < t[3]) BY <1>3
  <2>5. ~(v[3] < t[3]) => (v[3] < t[3] + 1 <=> v[3] = t[3]) BY <1>1
  <2> QED BY <1>2, <1>6, <2>2, <2>3, <2>4, <2>5
<1> QED BY <1>4, <1>5, <1>6

LEMMA TildeKeeps ==
  ASSUME NEW v, NEW t, Small(v), Small(t), NEW parts \in 1..3
  PROVE  AtLeast(v, t) /\ Older(v, TildeUpperBound(t, parts)) <=>
         Ordinal(v) >= Ordinal(t) /\ SameUpTo(v, t, IF parts = 1 THEN 1 ELSE 2)
<1>1. /\ v[1] \in 0..2 /\ v[2] \in 0..2 /\ v[3] \in 0..2 /\ t[1] \in 0..2 /\ t[2] \in 0..2 /\ t[3] \in 0..2
  BY DEF Small
<1>2. AtLeast(v, t) <=> Ordinal(v) >= Ordinal(t)
  BY OlderBelow
<1>3. AtLeast(v, t) <=> ~(v[1] < t[1] \/ (v[1] = t[1] /\ v[2] < t[2]) \/ (v[1] = t[1] /\ v[2] = t[2] /\ v[3] < t[3]))
  BY OlderIs DEF AtLeast
<1>4. CASE parts = 1
  <2>1. TildeUpperBound(t, parts) = <<t[1] + 1, 0, 0>> BY <1>4 DEF TildeUpperBound
  <2>2. Older(v, TildeUpperBound(t, parts)) <=> v[1] < t[1] + 1
    <3>1. Older(v, <<t[1] + 1, 0, 0>>) <=> \/ v[1] < t[1] + 1
                                           \/ v[1] = t[1] + 1 /\ v[2] < 0
                                           \/ v[1] = t[1] + 1 /\ v[2] = 0 /\ v[3] < 0
      BY OlderThan
    <3>2. ~(v[2] < 0) /\ ~(v[3] < 0) BY <1>1
    <3> QED BY <2>1, <3>1, <3>2
  <2>3. SameUpTo(v, t, IF parts = 1 THEN 1 ELSE 2) <=> v[1] = t[1] BY <1>4, UpTo
  <2>4. AtLeast(v, t) => ~(v[1] < t[1]) BY <1>3
  <2>5. ~(v[1] < t[1]) => (v[1] < t[1] + 1 <=> v[1] = t[1]) BY <1>1
  <2> QED BY <1>2, <2>2, <2>3, <2>4, <2>5
<1>5. CASE parts # 1
  <2>1. TildeUpperBound(t, parts) = <<t[1], t[2] + 1, 0>> BY <1>5 DEF TildeUpperBound
  <2>2. Older(v, TildeUpperBound(t, parts)) <=> v[1] < t[1] \/ (v[1] = t[1] /\ v[2] < t[2] + 1)
    <3>1. Older(v, <<t[1], t[2] + 1, 0>>) <=> \/ v[1] < t[1]
                                              \/ v[1] = t[1] /\ v[2] < t[2] + 1
                                              \/ v[1] = t[1] /\ v[2] = t[2] + 1 /\ v[3] < 0
      BY OlderThan
    <3>2. ~(v[3] < 0) BY <1>1
    <3> QED BY <2>1, <3>1, <3>2
  <2>3. SameUpTo(v, t, IF parts = 1 THEN 1 ELSE 2) <=> v[1] = t[1] /\ v[2] = t[2] BY <1>5, UpTo
  <2>4. AtLeast(v, t) => ~(v[1] < t[1]) /\ ~(v[1] = t[1] /\ v[2] < t[2]) BY <1>3
  <2>5. ~(v[2] < t[2]) => (v[2] < t[2] + 1 <=> v[2] = t[2]) BY <1>1
  <2> QED BY <1>2, <2>2, <2>3, <2>4, <2>5
<1> QED BY <1>4, <1>5

LEMMA CheckMeans ==
  ASSUME NEW c \in Constraints, ~CaretZero(c), NEW v \in SmallVersions
  PROVE  CheckSingleConstraint(v, c) <=> Means(v, c)
<1> DEFINE t == c.target
           op == c.op
<1>1. Small(v) /\ Small(t) /\ c.parts \in 1..3 /\ op \in {"^", "~", "=", ">=", ">", "<=", "<"}
  <2>1. t \in SmallVersions /\ c.parts \in 1..3 /\ op \in {"^", "~", "=", ">=", ">", "<=", "<"} BY DEF Constraints, Operators
  <2> QED BY <2>1, SmallOnes
<1> HIDE DEF t, op
<1>2. CASE op = "^"
  <2>1. \A i \in (c.parts + 1)..3 : t[i] = 0 BY DEF Constraints, t
  <2>2. t \in SmallVersions BY DEF Constraints, t
  <2>3. c.parts = 3 \/ t[1] # 0 \/ t[2] # 0
    <3> SUFFICES ASSUME c.parts # 3, t[1] = 0, t[2] = 0 PROVE FALSE OBVIOUS
    <3>1. t[3] = 0 BY <1>1, <2>1
    <3>2. t = <<0, 0, 0>> BY <2>2, <3>1 DEF SmallVersions
    <3>3. c.parts < 3 BY <1>1
    <3> QED BY <1>2, <3>2, <3>3 DEF CaretZero, t, op
  <2>4. AtLeast(v, t) /\ Older(v, CaretUpperBound(t)) <=>
        Ordinal(v) >= Ordinal(t) /\ SameUpTo(v, t, Leading(t, c.parts))
    BY <1>1, <2>1, <2>3, CaretKeeps
  <2> QED BY <1>2, <2>4 DEF CheckSingleConstraint, Means, t, op
<1>3. CASE op = "~" BY <1>1, <1>3, TildeKeeps DEF CheckSingleConstraint, Means, t, op
<1>4. CASE op = "=" BY <1>1, <1>4 DEF CheckSingleConstraint, Means, SameUpTo, t, op
<1>5. CASE op = ">=" BY <1>1, <1>5, OlderBelow DEF CheckSingleConstraint, Means, t, op
<1>6. CASE op = ">"
  <2>1. CheckSingleConstraint(v, c) <=> Older(t, v) BY <1>6 DEF CheckSingleConstraint, t, op
  <2>2. Means(v, c) <=> Ordinal(v) > Ordinal(t) BY <1>6 DEF Means, t, op
  <2>3. Ordinal(v) \in Nat /\ Ordinal(t) \in Nat /\ (Older(t, v) <=> Ordinal(t) < Ordinal(v)) BY <1>1, OlderBelow
  <2> QED BY <2>1, <2>2, <2>3
<1>7. CASE op = "<="
  <2>1. CheckSingleConstraint(v, c) <=> AtLeast(t, v) BY <1>7 DEF CheckSingleConstraint, t, op
  <2>2. Means(v, c) <=> Ordinal(v) <= Ordinal(t) BY <1>7 DEF Means, t, op
  <2>3. Ordinal(v) \in Nat /\ Ordinal(t) \in Nat /\ (AtLeast(t, v) <=> Ordinal(t) >= Ordinal(v)) BY <1>1, OlderBelow
  <2> QED BY <2>1, <2>2, <2>3
<1>8. CASE op = "<" BY <1>1, <1>8, OlderBelow DEF CheckSingleConstraint, Means, t, op
<1> QED BY <1>1, <1>2, <1>3, <1>4, <1>5, <1>6, <1>7, <1>8

\* The version that is selected matches, and no matching one is higher.
LEMMA BestIsHighest ==
  ASSUME NEW c \in Constraints, ~CaretZero(c), NEW v \in SmallVersions, Means(v, c)
  PROVE  LET best == SelectBestVersion(SmallVersions, <<c>>)
         IN Means(best, c) /\ Ordinal(v) <= Ordinal(best)
<1> DEFINE matching == {w \in SmallVersions : MatchesVersionHint(w, <<c>>)}
           best == SelectBestVersion(SmallVersions, <<c>>)
           P(w) == \A x \in matching : AtLeast(w, x)
<1>1. \A w \in SmallVersions : MatchesVersionHint(w, <<c>>) <=> CheckSingleConstraint(w, c)
  <2>1. DOMAIN <<c>> = {1} /\ <<c>>[1] = c OBVIOUS
  <2> QED BY <2>1 DEF MatchesVersionHint
<1>2. matching = {w \in SmallVersions : Means(w, c)}
  BY <1>1, CheckMeans
<1>3. v \in matching
  BY <1>2
<1>4. best = CHOOSE w \in matching : P(w)
  BY <1>3 DEF SelectBestVersion
<1>5. \A w \in matching : w \in SmallVersions /\ Small(w) /\ Ordinal(w) \in Nat /\ Ordinal(w) <= 222
  BY SmallOnes, OlderBelow
<1> HIDE DEF matching, best
<1>6. \A w, x \in matching : AtLeast(w, x) <=> Ordinal(w) >= Ordinal(x)
  BY <1>5, OlderBelow
<1> DEFINE T == {222 - Ordinal(w) : w \in matching}
<1>7. T \in SUBSET Nat /\ T # {}
  BY <1>3, <1>5
<1>8. PICK n \in T : \A k \in T : n <= k
  BY <1>7, LeastOf
<1>9. PICK w \in matching : n = 222 - Ordinal(w)
  BY <1>8
<1>10. \A x \in matching : Ordinal(w) >= Ordinal(x)
  <2> TAKE x \in matching
  <2>1. n <= 222 - Ordinal(x) BY <1>8
  <2> QED BY <1>5, <1>9, <2>1
<1>11. P(w)
  BY <1>6, <1>10
<1> HIDE DEF P
<1>12. best \in matching /\ P(best)
  BY <1>4, <1>11
<1>13. Means(best, c)
  BY <1>2, <1>12
<1>14. Ordinal(v) <= Ordinal(best)
  BY <1>3, <1>5, <1>6, <1>12 DEF P
<1> QED BY <1>13, <1>14 DEF best

LEMMA ConstraintsAreExact == ConstraintsExact
<1> SUFFICES ASSUME NEW c \in {x \in Constraints : ~CaretZero(x)}
             PROVE  /\ \A v \in SmallVersions : CheckSingleConstraint(v, c) <=> Means(v, c)
                    /\ LET best == SelectBestVersion(SmallVersions, <<c>>)
                       IN \A v \in SmallVersions : Means(v, c) => Means(best, c) /\ Ordinal(v) <= Ordinal(best)
  BY Zenon DEF ConstraintsExact
<1>1. c \in Constraints /\ ~CaretZero(c)
  OBVIOUS
<1>2. ASSUME NEW v \in SmallVersions, Means(v, c)
      PROVE  LET best == SelectBestVersion(SmallVersions, <<c>>)
             IN Means(best, c) /\ Ordinal(v) <= Ordinal(best)
  BY <1>1, <1>2, BestIsHighest, Zenon
<1>3. \A v \in SmallVersions : CheckSingleConstraint(v, c) <=> Means(v, c)
  BY <1>1, CheckMeans, Zenon
<1> QED BY <1>2, <1>3, Zenon

----------------------------------------------------------------------------
(* OrderSound                                                               *)

LEMMA OrderInitially == OrderInit => OrderInv
<1> SUFFICES ASSUME OrderInit PROVE OrderInv
  OBVIOUS
<1>1. SortInv
  BY SortInitially
<1>2. loop = "edges" /\ dfs = NoSearch /\ resolution.kind = "none"
  BY DEF OrderInit, Undecided
<1> QED BY <1>1, <1>2 DEF OrderInv

\* A step of the edges or of the sort leaves the search alone.
LEMMA BeforeSearch ==
  ASSUME OrderInv, SortInv', loop \in {"edges", "sort"}, dfs' = dfs,
         \/ loop' \in {"edges", "sort"}
         \/ loop' = "done" /\ resolution'.kind \in Refusals \cup {"ordered"}
  PROVE  OrderInv'
<1>1. dfs = NoSearch
  BY DEF OrderInv
<1>2. loop' \in {"edges", "sort"} => resolution'.kind = "none"
  BY DEF SortInv
<1> QED BY <1>1, <1>2 DEF OrderInv, Refusals

\* A step of the search that goes on leaves the rest alone.
LEMMA SearchOn ==
  ASSUME OrderInv, loop = "search", UNCHANGED <<batch, loop, unread, graph, inDegree, queue, loadOrder, resolution>>,
         DfsRecord', SearchInv'
  PROVE  OrderInv'
<1>1. SortInv /\ queue = <<>> /\ resolution.kind = "none" /\ Remaining # {}
  BY DEF OrderInv, SortInv
<1>2. SortInv'
  BY <1>1, SortKept
<1> QED BY <1>1, <1>2 DEF OrderInv

\* The search decides.
LEMMA SearchOver ==
  ASSUME OrderInv, loop = "search", UNCHANGED <<batch, unread, graph, inDegree, queue, loadOrder, dfs>>,
         NEW kind, NEW path, Decided(kind, path),
         \/ kind = "circular" /\ Closes(path) /\ ToSet(path) \subseteq Remaining
         \/ kind = "blocked" /\ Ranked(Remaining)
  PROVE  OrderInv'
<1>1. SortInv /\ queue = <<>> /\ Remaining # {}
  BY DEF OrderInv, SortInv
<1>2. loop' = "done" /\ resolution'.kind = kind /\ resolution'.path = path
  BY DEF Decided
<1>3. SortInv' /\ Remaining' = Remaining
  BY <1>1, <1>2, SortKept
<1>4. kind = "circular" => Closes(resolution.path)' /\ (ToSet(resolution.path) \subseteq Remaining)'
  <2> SUFFICES ASSUME kind = "circular" PROVE Closes(resolution.path)' /\ (ToSet(resolution.path) \subseteq Remaining)'
    OBVIOUS
  <2>1. Closes(path) /\ ToSet(path) \subseteq Remaining OBVIOUS
  <2>2. Closes(resolution.path)' BY <1>2, <2>1 DEF Closes, DependenciesOf
  <2> QED BY <1>2, <1>3, <2>1, <2>2
<1>5. kind = "blocked" => Ranked(Remaining)'
  BY <1>3 DEF Ranked, RanksBy, Neighbors
<1> QED BY <1>2, <1>3, <1>4, <1>5 DEF OrderInv

LEMMA OrderSteps == OrderInv /\ [OrderNext]_orderVars => OrderInv'
<1> SUFFICES ASSUME OrderInv, [OrderNext]_orderVars PROVE OrderInv'
  OBVIOUS
<1>0. SortInv /\ (loop = "search" => DfsRecord /\ SearchInv)
  BY DEF OrderInv
<1>1. CASE SkipDependency
  BY <1>0, <1>1, SkipStep, BeforeSearch DEF SkipDependency
<1>2. CASE RefuseDependency
  <2>1. SortInv' BY <1>0, <1>2, RefuseStep
  <2>2. loop = "edges" /\ dfs' = dfs /\ loop' = "done" /\ resolution'.kind \in Refusals
    BY <1>2 DEF RefuseDependency, Decided, Refusals
  <2> QED BY <2>1, <2>2, BeforeSearch
<1>3. CASE AddEdge
  BY <1>0, <1>3, AddStep, BeforeSearch DEF AddEdge
<1>4. CASE SortStarts
  BY <1>0, <1>4, StartStep, BeforeSearch DEF SortStarts
<1>5. CASE TakeNext
  BY <1>0, <1>5, TakeFromQueue, BeforeSearch DEF TakeNext
<1>6. CASE SortEnds
  <2>1. SortInv' BY <1>0, <1>6, EndStep
  <2>2. loop = "sort" /\ batch' = batch /\ loadOrder' = loadOrder BY <1>6 DEF SortEnds
  <2>3. CASE Remaining = {}
    <3>1. dfs' = dfs /\ loop' = "done" /\ resolution'.kind = "ordered" BY <1>6, <2>3 DEF SortEnds, Decided
    <3> QED BY <2>1, <2>2, <3>1, BeforeSearch
  <2>4. CASE Remaining # {}
    <3>1. loop' = "search" /\ resolution' = resolution /\ dfs' = [dfs EXCEPT !.starts = Sorted(Remaining)]
      BY <1>6, <2>4 DEF SortEnds
    <3>2. dfs = NoSearch /\ resolution.kind = "none" BY <2>2 DEF OrderInv, SortInv
    <3>3. DfsRecord' /\ SearchInv' BY <1>0, <2>2, <3>1, <3>2, SearchBegins
    <3> QED BY <2>1, <3>1, <3>2, <3>3 DEF OrderInv
  <2> QED BY <2>3, <2>4
<1>7. CASE SearchFrom
  BY <1>0, <1>7, FromStep, SearchOn DEF SearchFrom
<1>8. CASE FindCycle
  <2>1. loop = "search" /\ Decided("circular", CyclePath(TopNode)) BY <1>8 DEF FindCycle, Looking
  <2>2. Closes(CyclePath(TopNode)) /\ ToSet(CyclePath(TopNode)) \subseteq Remaining BY <1>0, <1>8, <2>1, CycleFound
  <2> QED BY <1>8, <2>1, <2>2, SearchOver DEF FindCycle
<1>9. CASE SkipSeen
  BY <1>0, <1>9, SkipFrame, SearchOn DEF SkipSeen, Looking
<1>10. CASE EnterNeighbor
  BY <1>0, <1>10, EnterSearch, SearchOn DEF EnterNeighbor, Stays, Looking
<1>11. CASE LeaveNode
  BY <1>0, <1>11, LeaveStep, SearchOn DEF LeaveNode, Stays, Looking
<1>12. CASE SearchEnds
  <2>1. loop = "search" /\ Decided("blocked", Sorted(Remaining)) /\ dfs.stack = <<>> /\ dfs.starts = <<>>
    BY <1>12 DEF SearchEnds
  <2>2. Ranked(Remaining) BY <1>0, <2>1, AllRanked
  <2> QED BY <1>12, <2>1, <2>2, SearchOver DEF SearchEnds
<1>13. CASE UNCHANGED orderVars
  <2>1. UNCHANGED <<batch, loop, unread, graph, inDegree, queue, loadOrder, dfs, resolution>> BY <1>13 DEF orderVars
  <2>2. SortInv'
    <3>1. EdgesRead' /\ ModuleIds' = ModuleIds BY <1>0, <2>1, SameEdges
    <3>2. DegreesCount'
      <4>1. \A m : Awaited(m)' = Awaited(m) BY <2>1, <3>1 DEF Awaited
      <4>2. \A m : ListsOnce(m)' = ListsOnce(m) BY <2>1 DEF ListsOnce
      <4>3. DegreesCount BY <1>0 DEF SortInv
      <4> QED BY <2>1, <3>1, <4>1, <4>2, <4>3 DEF DegreesCount
    <3>3. LineHolds => LineHolds' BY <2>1, <3>1 DEF LineHolds, Line, Free
    <3>4. Remaining' = Remaining BY <2>1, <3>1 DEF Remaining
    <3>5. Refusing' = Refusing BY <2>1, <3>1 DEF Refusing, Refused, Garbled, DependenciesOf, Missing, Misfit
    <3> QED BY <1>0, <2>1, <3>1, <3>2, <3>3, <3>4, <3>5 DEF SortInv, WasRefused
  <2>3. Remaining' = Remaining BY <2>1 DEF Remaining, ModuleIds
  <2>4. loop = "search" => DfsRecord' /\ SearchInv'
    <3> SUFFICES ASSUME loop = "search" PROVE DfsRecord' /\ SearchInv' OBVIOUS
    <3>1. SearchInv' BY <1>0, <2>1, SearchKept, GoneOnSame DEF SearchInv, Gone
    <3> QED BY <1>0, <2>1, <3>1 DEF DfsRecord
  <2>5. resolution.kind = "circular" => Closes(resolution.path)' /\ (ToSet(resolution.path) \subseteq Remaining)'
    <3>1. resolution.kind = "circular" => Closes(resolution.path) /\ ToSet(resolution.path) \subseteq Remaining
      BY DEF OrderInv
    <3>2. Closes(resolution.path) => Closes(resolution.path)' BY <2>1 DEF Closes, DependenciesOf
    <3> QED BY <2>1, <2>3, <3>1, <3>2
  <2>6. resolution.kind = "blocked" => Ranked(Remaining)'
    BY <2>1, <2>3 DEF OrderInv, Ranked, RanksBy, Neighbors
  <2> QED BY <2>1, <2>2, <2>4, <2>5, <2>6 DEF OrderInv
<1> QED BY <1>1, <1>2, <1>3, <1>4, <1>5, <1>6, <1>7, <1>8, <1>9, <1>10, <1>11, <1>12, <1>13 DEF OrderNext

LEMMA OrderHolds == OrderInv => OrderSound
<1> SUFFICES ASSUME OrderInv PROVE OrderSound
  OBVIOUS
<1>1. OrderFollows
  BY OrderIs DEF OrderInv
<1>2. CyclesClose
  BY DEF OrderInv, CyclesClose
<1>3. RefusalsJust
  <2> SUFFICES ASSUME loop = "done" PROVE RefusalsJust BY DEF RefusalsJust
  <2>1. (WasRefused <=> Refusing # {}) /\ (WasRefused => resolution.path[1] \in Refusing) BY RefusalsAre DEF OrderInv
  <2>2. resolution.kind = "blocked" => Acyclic
    <3> SUFFICES ASSUME resolution.kind = "blocked" PROVE Acyclic OBVIOUS
    <3>1. SortInv /\ Ranked(Remaining) /\ ~WasRefused BY DEF OrderInv, WasRefused, Refusals
    <3> QED BY <3>1, RankedAcyclic
  <2> QED BY <2>1, <2>2 DEF RefusalsJust, WasRefused, Refusals
<1>4. OrderFound
  <2> SUFFICES ASSUME loop = "done", Refusing = {}, Acyclic,
                      \A m \in ModuleIds : Enforced(m) \subseteq ModuleIds /\ ListsOnce(m)
               PROVE  resolution.kind = "ordered"
    BY DEF OrderFound, ListsOnce
  <2>1. SortInv /\ ~WasRefused BY RefusalsAre DEF OrderInv
  <2>2. Remaining = {} BY <2>1, StallsOnCycles
  <2>3. resolution.kind \in {"ordered", "circular", "blocked"} BY <2>1 DEF SortInv, WasRefused, Refusals
  <2> QED BY <2>1, <2>2, <2>3 DEF SortInv
<1> QED BY <1>1, <1>2, <1>3, <1>4, ConstraintsAreExact DEF OrderSound

\* The order of a discovery or a reload, the reason a batch is refused for, the
\* cycle that is reported and the meaning of a version constraint, for every
\* batch (resolveDependencies() of dependencies.ts, version.ts).
THEOREM OrdersAreSound == OrderSpec => []OrderSound
<1>1. OrderSpec => []OrderInv
  BY OrderInitially, OrderSteps, PTL DEF OrderSpec
<1> QED BY <1>1, OrderHolds, PTL
=============================================================================
