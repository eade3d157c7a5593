------------------------------- MODULE Config -------------------------------
(***************************************************************************)
(* Config of src/config.ts: the process-wide registry of namespaces and      *)
(* environment maps, and one configuration loaded from a file, merged with   *)
(* defaults, mounts and environment variables, set at runtime and reloaded.  *)
(*                                                                         *)
(* A document is a function from the paths of its leaves to values.  A path  *)
(* is a sequence of keys and a key a sequence of atoms, the pieces between   *)
(* single underscores: max_size is <<"max", "size">>.  A variable is the     *)
(* sequence of its atoms in lower case.  Arrays, empty mappings, null and    *)
(* the escape __ are left out; a namespace's name is one key.                *)
(***************************************************************************)
EXTENDS Integers, FiniteSets, SequencesExt, Functions, TLC

CONSTANTS
  Defaults,     \* DEFAULTS, a document
  PathTyped,    \* the path-typed keys of the framework
  Required,     \* REQUIRED_FIELDS
  Allowed,      \* CONSTRAINTS: framework path -> the values that pass
  Declarable,   \* the framework keys strict mode knows
  Forbidden,    \* FORBIDDEN_PATH_SEGMENTS
  Builtin,      \* the registrations config.ts makes when it is imported
  Offers,       \* what packages may register
  EnvMaps,      \* what packages may pass to envMap()
  Files, Environments, SetKeys, SetValues, Mounts,   \* what there is to try
  MaxCalls      \* bound: the calls and the changes of the world

VARIABLES
  registered,   \* _globalNsRegistry with _envPrefixUsed: the registrations
  claims,       \* _envMapClaimed: variable -> owner
  globals,      \* _globalEnvMap, in order: [var, path]
  world,        \* [file, env]: what a load would see
  config,       \* the Config, its data and what it remembers
  call,         \* the last call and how it ended
  calls         \* bound: how many there were

configVars == <<registered, claims, globals, world, config, call, calls>>

Apcore == <<"apcore">>
Meta == <<"_config">>
Reserved == {Apcore, Meta}
Global == <<"__global__">>
Empty == <<>>

\* deepMergeDicts(base, override), and JSON.parse(JSON.stringify()) around it:
\* a leaf of the base goes when the override has a leaf at, above or below it.
Merge(base, override) ==
  LET kept == {p \in DOMAIN base :
                 \A q \in DOMAIN override : ~IsPrefix(p, q) /\ ~IsPrefix(q, p)}
  IN override @@ Restrict(base, kept)

\* setNested, which refuses the whole path for one forbidden segment.
Put(doc, path, value) ==
  IF \E i \in DOMAIN path : path[i] \in Forbidden THEN doc
  ELSE Merge(doc, path :> value)

\* getNested: the subtree at a path, the empty document when there is none.
At(doc, path) ==
  LET below == {p \in DOMAIN doc : IsPrefix(path, p)}
  IN [q \in {SubSeq(p, Len(path) + 1, Len(p)) : p \in below} |-> doc[path \o q]]

Under(name, doc) == [p \in {name \o q : q \in DOMAIN doc} |-> doc[SubSeq(p, Len(name) + 1, Len(p))]]

Names == {r.name : r \in registered}
Known == Names \cup Reserved
TopLevel(doc) == {p[1] : p \in DOMAIN doc}

\* _getFrom: what a namespace does not have at all is looked up in apcore.
Get(mode, doc, key) ==
  IF mode = "namespace" /\ key[1] # Apcore /\ At(doc, <<key[1]>>) = Empty
    THEN At(doc, <<Apcore>> \o key)
    ELSE At(doc, key)

----------------------------------------------------------------------------
(* Environment overrides *)

\* discardsEmptyPathValue, with the path spelled from the framework's root.
Blank(path, value) == value = "" /\ path \in PathTyped

\* applyEnvOverrides: the global map, then every variable with the prefix.
ApplyEnv(doc, env) ==
  LET Mapped(d, g) == LET hits == {e \in ToSet(env) : e.var = g.var} IN
        IF hits = {} THEN d
        ELSE LET v == (CHOOSE e \in hits : TRUE).value IN
             IF Blank(g.path, v) THEN d ELSE Put(d, g.path, v)
      Scanned(d, e) ==
        LET path == [i \in 1..(Len(e.var) - 1) |-> <<e.var[i + 1]>>] IN
        IF e.var[1] # "apcore" \/ path = <<>> \/ e.var = <<"apcore", "config", "file">>
             \/ Blank(path, e.value)
          THEN d ELSE Put(d, path, e.value)
  IN FoldLeft(Scanned, FoldLeft(Mapped, doc, globals), env)

\* envSuffixToDotPathWithDepth: an atom a key, until the depth is used up.
NestedPath(suffix, depth) ==
  IF Len(suffix) <= depth THEN [i \in DOMAIN suffix |-> <<suffix[i]>>]
  ELSE [i \in 1..(depth - 1) |-> <<suffix[i]>>] \o <<SubSeq(suffix, depth, Len(suffix))>>

\* matchSuffixToTree: the whole rest is a key, or a key and a path below it.
RECURSIVE MatchSuffix(_, _, _, _)
MatchSuffix(suffix, tree, at, depth) ==
  LET Rest(i) == MatchSuffix(SubSeq(suffix, i + 1, Len(suffix)), tree,
                             Append(at, SubSeq(suffix, 1, i)), depth - 1)
      IsMapping(p) == \E q \in DOMAIN tree : IsStrictPrefix(p, q)
      splits == {i \in 1..(Len(suffix) - 1) :
                   IsMapping(Append(at, SubSeq(suffix, 1, i))) /\ Rest(i) # <<>>}
  IN CASE At(tree, Append(at, suffix)) # Empty -> Append(at, suffix)
       [] depth = 1 \/ splits = {} -> <<>>
       [] OTHER -> Rest(CHOOSE i \in splits : \A j \in splits : i <= j)

\* resolveEnvSuffix, by the registration's envStyle.
ResolveSuffix(suffix, reg) ==
  LET match == MatchSuffix(suffix, reg.defaults, <<>>, reg.maxDepth) IN
  CASE reg.envStyle = "flat" -> <<suffix>>
    [] reg.envStyle = "auto" /\ match # <<>> -> match
    [] OTHER -> NestedPath(suffix, reg.maxDepth)

FrameworkReg == [name |-> Apcore, envPrefix |-> <<"apcore">>, defaults |-> Defaults,
                 envStyle |-> "nested", maxDepth |-> 5, envMap |-> Empty, schema |-> Empty]

\* Where applyNamespaceEnvOverrides puts a variable, <<>> for nowhere.  The
\* maps win over the prefixes, and only the prefixes discard an empty path.
EnvTarget(e) ==
  LET mapped == {r \in registered : e.var \in DOMAIN r.envMap}
      matching == {r \in registered \cup {FrameworkReg} : IsStrictPrefix(r.envPrefix, e.var)}
      longest == CHOOSE r \in matching : \A s \in matching : Len(s.envPrefix) <= Len(r.envPrefix)
      key == ResolveSuffix(SubSeq(e.var, Len(longest.envPrefix) + 1, Len(e.var)), longest)
  IN CASE e.var = <<"apcore", "config", "file">> -> <<>>
       [] \E g \in ToSet(globals) : g.var = e.var ->
            (CHOOSE g \in ToSet(globals) : g.var = e.var).path
       [] mapped # {} -> LET r == CHOOSE r \in mapped : TRUE IN <<r.name>> \o r.envMap[e.var]
       [] matching = {} -> <<>>
       [] Blank(IF longest.name = Apcore THEN key ELSE <<longest.name>> \o key, e.value) -> <<>>
       [] OTHER -> <<longest.name>> \o key

ApplyNamespaceEnv(doc, env) ==
  FoldLeft(LAMBDA d, e : IF EnvTarget(e) = <<>> THEN d ELSE Put(d, EnvTarget(e), e.value),
           doc, env)

----------------------------------------------------------------------------
(* Validation *)

Flag(doc, name, value) == At(doc, <<Meta, name>>) = (<<>> :> value)
Strict(doc) == Flag(doc, <<"strict">>, TRUE)

Endpoint == <<<<"observability">>, <<"tracing">>, <<"otlp", "endpoint">>>>
Exporter == <<<<"observability">>, <<"tracing">>, <<"exporter">>>>
Patterns == <<<<"obs">>, <<"redaction">>, <<"regex", "patterns">>>>

\* otlpEndpointMismatchErrors reads through get(), defaults included.
Mismatch(mode, doc) ==
  Get(mode, doc, Endpoint) # Empty /\ Get(mode, doc, Exporter) # (<<>> :> "otlp")

Passes(doc, rules) ==
  \A p \in DOMAIN rules : At(doc, p) = Empty \/ \E v \in rules[p] : At(doc, p) = (<<>> :> v)

\* validate() and _validateNamespaceMode(), without the texts of the errors.
Valid(mode, data, declared) ==
  LET framework == IF mode = "legacy" THEN data ELSE At(data, <<Apcore>>) IN
  /\ Passes(framework, Allowed)
  /\ Strict(data) => DOMAIN framework \subseteq
       Declarable \cup {p \in DOMAIN framework : mode = "legacy" /\ p[1] = Meta}
  /\ ~Mismatch(mode, data)
  /\ mode = "legacy" =>
       /\ \A f \in Required : Get(mode, declared, f) # Empty
       /\ Get(mode, data, Patterns) # (<<>> :> "uncompilable")
  /\ mode = "namespace" =>
       /\ \A r \in registered : Passes(At(data, <<r.name>>), r.schema)
       /\ Strict(data) => TopLevel(data) \subseteq Known

----------------------------------------------------------------------------
(* The configuration *)

\* load() of a file that parses: the tree in force and the declared document.
Mode(doc) == IF \E p \in DOMAIN doc : IsStrictPrefix(<<Apcore>>, p) THEN "namespace" ELSE "legacy"

\* mutant: the declared document is not told of the environment.
DeclaredFile(doc, env) == doc

Declared(doc, env) ==
  IF Mode(doc) = "namespace" THEN ApplyNamespaceEnv(doc, env) ELSE ApplyEnv(doc, env)

\* applyAllowUnknown drops from the tree in force only.
AllowUnknown(doc) ==
  IF Strict(doc) \/ ~Flag(doc, <<"allow", "unknown">>, FALSE) THEN doc
  ELSE Restrict(doc, {p \in DOMAIN doc : p[1] \in Known})

Merged(doc, env) ==
  LET seeds == [p \in UNION {{<<r.name>> \o q : q \in DOMAIN r.defaults} : r \in registered} |->
                  (CHOOSE r \in registered : r.name = p[1]).defaults[Tail(p)]]
  IN IF Mode(doc) = "namespace"
       THEN AllowUnknown(ApplyNamespaceEnv(Merge(seeds, doc), env))
       ELSE ApplyEnv(Merge(Defaults, doc), env)

Fresh(mode, data, declared, fromFile, validates) ==
  [mode |-> mode, data |-> data, declared |-> declared, mounts |-> Empty,
   fromFile |-> fromFile, validates |-> validates]

Loaded(validates) ==
  LET f == world.file IN
  Fresh(Mode(f.doc), Merged(f.doc, world.env), Declared(f.doc, world.env), TRUE, validates)

ValidConfig(c) == ~c.validates \/ Valid(c.mode, c.data, c.declared)

CalledWith(name, how, key) ==
  /\ calls < MaxCalls /\ calls' = calls + 1
  /\ call' = [name |-> name, how |-> how, key |-> key]

Called(name, how) == CalledWith(name, how, <<>>)

ConfigInit ==
  /\ registered = Builtin /\ claims = Empty /\ globals = <<>>
  /\ world = [file |-> [kind |-> "missing", doc |-> Empty], env |-> <<>>]
  /\ config = Fresh("legacy", Empty, Empty, FALSE, TRUE)     \* new Config()
  /\ call = [name |-> "", how |-> "ok", key |-> <<>>] /\ calls = 0

\* The file is edited, the environment of the process changes.
WorldChanges ==
  /\ Called("world", "ok")
  /\ \E f \in Files, e \in Environments :
       world' = [file |-> f, env |-> e] /\ world' # world
  /\ UNCHANGED <<registered, claims, globals, config>>

Refused(offer) ==
  \/ offer.name \in Known \/ offer.envPrefix = <<"apcore">>
  \/ \E r \in registered : r.envPrefix = offer.envPrefix
  \/ DOMAIN offer.envMap \cap DOMAIN claims # {}

\* registerNamespace
RegisterNamespace(offer) ==
  /\ Called("register", IF Refused(offer) THEN "threw" ELSE "ok")
  /\ IF Refused(offer) THEN UNCHANGED <<registered, claims>>
     ELSE /\ registered' = registered \cup {offer}
          /\ claims' = [v \in DOMAIN offer.envMap |-> offer.name] @@ claims
  /\ UNCHANGED <<globals, world, config>>

\* Config.envMap(): nothing of a mapping is taken when one variable is claimed.
EnvMap(mapping) ==
  LET taken == \E m \in ToSet(mapping) : m.var \in DOMAIN claims IN
  /\ Called("envMap", IF taken THEN "threw" ELSE "ok")
  /\ IF taken THEN UNCHANGED <<globals, claims>>
     ELSE /\ globals' = globals \o mapping
          /\ claims' = [v \in {m.var : m \in ToSet(mapping)} |-> Global] @@ claims
  /\ UNCHANGED <<registered, world, config>>

\* load() and discover(): with no file to discover the defaults are used, with
\* no file at the path given, or none that parses, or none that is valid, the
\* call throws and there is no Config.
Load(explicit, validates) ==
  LET bare == Fresh("legacy", ApplyEnv(Defaults, world.env), ApplyEnv(Empty, world.env), FALSE, TRUE)
      new == IF world.file.kind = "mapping" THEN Loaded(validates) ELSE bare
      ok == CASE world.file.kind = "mapping" -> ValidConfig(new)
              [] world.file.kind = "missing" -> ~explicit
              [] OTHER -> FALSE
  IN /\ Called("load", IF ~ok THEN "threw" ELSE IF new.fromFile THEN "ok" ELSE "defaults")
     /\ config' = IF ok THEN new ELSE config
     /\ UNCHANGED <<registered, claims, globals, world>>

\* set(): both documents, at the path itself, never below apcore.
Set(key, value) ==
  /\ CalledWith("set", "ok", key)
  /\ config' = [config EXCEPT !.data = Put(@, key, value), !.declared = Put(@, key, value)]
  /\ UNCHANGED <<registered, claims, globals, world>>

\* mount(): the record of an earlier mount of the namespace is replaced.
Mounted(c, name, doc) ==
  [c EXCEPT !.mounts = (name :> doc) @@ @,
            !.data = Merge(@, Under(<<name>>, doc)),
            !.declared = Merge(@, Under(<<name>>, doc))]

Mount(m) ==
  LET ok == m.name # Meta /\ m.readable IN
  /\ Called("mount", IF ok THEN "ok" ELSE "threw")
  /\ config' = IF ok THEN Mounted(config, m.name, m.doc) ELSE config
  /\ UNCHANGED <<registered, claims, globals, world>>

\* The mounts are applied again, in the order of the record, to what was read.
Remounted(c, mounts) ==
  LET all == [p \in UNION {DOMAIN Under(<<n>>, mounts[n]) : n \in DOMAIN mounts} |->
                mounts[p[1]][Tail(p)]]
  IN [c EXCEPT !.mounts = mounts, !.data = Merge(@, all), !.declared = Merge(@, all)]

\* mutant: the result is judged before the mounts are back.
JudgesRead(read, result) == ValidConfig(read)

Judged(read, result) == ValidConfig(result)

\* reload(): what throws before the new data is there leaves the old, what
\* throws afterwards, the validation, leaves the new.
Reload ==
  LET read == Loaded(config.validates)
      back == Remounted(read, config.mounts)
      result == IF back.mode = "legacy" THEN back
                ELSE [back EXCEPT !.data = ApplyNamespaceEnv(@, world.env),
                                  !.declared = ApplyNamespaceEnv(@, world.env)]
      readable == config.fromFile /\ world.file.kind = "mapping"
  IN /\ Called("reload", IF readable /\ Judged(read, result) THEN "ok" ELSE "threw")
     /\ config' = IF readable THEN result ELSE config
     /\ UNCHANGED <<registered, claims, globals, world>>

ConfigNext ==
  \/ WorldChanges
  \/ \E o \in Offers : RegisterNamespace(o)
  \/ \E m \in EnvMaps : EnvMap(m)
  \/ \E explicit, validates \in BOOLEAN : Load(explicit, validates)
  \/ \E k \in SetKeys, v \in SetValues : Set(k, v)
  \/ \E m \in Mounts : Mount(m)
  \/ Reload

----------------------------------------------------------------------------
(* Properties *)

Reads(doc, key) == Get(config.mode, doc, key)
Leaf(doc) == DOMAIN doc = {<<>>}

\* The keys a declared value may be asked for by: its path, and in namespace mode
\* for one of the framework's the path below apcore too.
AskedFor ==
  DOMAIN config.declared \cup {Tail(p) : p \in {q \in DOMAIN config.declared : q[1] = Apcore}}

\* allow_unknown: false has dropped the namespace from the one tree and not from
\* the other; a registration's defaults stand beside apcore, where get() stops.
Dropped(key) ==
  /\ key \in DOMAIN config.declared \ DOMAIN config.data /\ key[1] # Apcore
  /\ config.mode = "namespace" /\ Flag(config.data, <<"allow", "unknown">>, FALSE)
Seeded(key) ==
  /\ config.mode = "namespace" /\ key[1] \in Names
  /\ At(config.declared, <<key[1]>>) = Empty

\* Whatever was loaded, set, mounted and reloaded: where getDeclared() finds a
\* value get() finds the same, but in the two cases above.  Both look in one way,
\* so a namespace mounted beside apcore hides what apcore declares from both.
DeclaredInForce ==
  \A key \in AskedFor :
    Leaf(Reads(config.declared, key)) =>
      Reads(config.data, key) = Reads(config.declared, key) \/ Dropped(key) \/ Seeded(key)

\* No path is blanked by a variable that is set and empty: in legacy mode by none,
\* in namespace mode by none but what an environment map names.
EmptyDiscarded ==
  \A p \in PathTyped : \A key \in {p, <<Apcore>> \o p} :
    Reads(config.data, key) = (<<>> :> "") =>
      config.mode = "namespace" /\ \E g \in ToSet(globals) : g.path = key

\* Every variable has one owner, and the owner has the variable: no call that
\* was refused half way has left a claim, and no variable is mapped twice.
ClaimsOwned ==
  /\ \A r, s \in registered : r # s => r.name # s.name /\ r.envPrefix # s.envPrefix
  /\ DOMAIN claims = UNION {DOMAIN r.envMap : r \in registered} \cup {g.var : g \in ToSet(globals)}
  /\ \A r \in registered : \A v \in DOMAIN r.envMap : claims[v] = r.name
  /\ \A i, j \in DOMAIN globals :
       claims[globals[i].var] = Global /\ (i # j => globals[i].var # globals[j].var)

\* A configuration that asked for validation and came back from load() or
\* reload() without an error answers for every constrained key with a value the
\* constraint allows, declares what is required and, if strict, has nothing
\* unknown: mounts and variables, applied last, count.  In namespace mode the key
\* is asked for below apcore, or without it where no namespace stands beside.
NotSilentlyInvalid ==
  call.name \in {"load", "reload"} /\ call.how = "ok" /\ config.validates =>
    /\ \A p \in DOMAIN Allowed : \A key \in {p, <<Apcore>> \o p} :
         LET value == Reads(config.data, key) IN
         \/ value = Empty \/ \E v \in Allowed[p] : value = (<<>> :> v)
         \/ config.mode = "namespace" /\ At(config.data, <<key[1]>>) # Empty /\ key[1] # Apcore
    /\ config.mode = "legacy" =>
         \A f \in Required : \E p \in DOMAIN config.declared : IsPrefix(f, p)
    /\ config.mode = "namespace" /\ Strict(config.data) => TopLevel(config.data) \subseteq Known

\* Every key a namespace registered with a default can be overridden by the
\* variable spelled after it, also when its own name has underscores.
EnvReaches ==
  \A r \in registered : \A p \in DOMAIN r.defaults :
    r.envStyle = "auto" /\ Len(p) <= r.maxDepth =>
      LET reached == ResolveSuffix(FlattenSeq(p), r) IN
      At(r.defaults, reached) # Empty /\ FlattenSeq(reached) = FlattenSeq(p)

\* What a file, a call or a variable declares is what get() finds, a default what
\* a variable reaches, and no empty variable takes a path away.
DeclarationsResolve == DeclaredInForce /\ EmptyDiscarded /\ EnvReaches

\* The process-wide claims are those of the calls that were accepted, and what a
\* load or a reload reports as valid is.  set() and mount() are checked by no
\* call, and a reload that throws leaves in force what it refused.
RefusalsHold == ClaimsOwned /\ NotSilentlyInvalid
=============================================================================
